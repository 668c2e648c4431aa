------------------------ MODULE StagePipelineProofs ------------------------
(***************************************************************************)
(* Theorems about StagePipeline for every pipeline length, target stage,   *)
(* socket capacity and limit of the skip decisions, with processes killed  *)
(* and polls given up at any time.                                         *)
(*                                                                         *)
(* First, type correctness, and that the steps accepted for the bypass     *)
(* never make a run longer than MaxConsecutive: the control packets the    *)
(* decision stage did not read are in order and of later steps.            *)
(*                                                                         *)
(* Then, that the stages never disagree on the step they work on, answers  *)
(* and KV caches follow the decisions, a new decode phase starts on the    *)
(* full route, the unread control packets are bounded, and the pipeline    *)
(* implements StageSkipContract.  The argument is an account of the run:   *)
(* the control packets written so far (plan), how many of them stage w has *)
(* read (rd[w]), how many activations it has taken (got[w]) and how many   *)
(* steps it has finished (out[w]), and how far the target has supplied the *)
(* post-target stage (due).  The invariant says that every reachable state *)
(* has an account that explains it: what every socket holds, what every    *)
(* process knows.                                                          *)
(***************************************************************************)
EXTENDS StagePipeline, FiniteSetTheorems, TLAPS

\* The root counts the chunks of the wave it is in, and has a step in hand
\* when it computes.
WaveCounted ==
  /\ rootPc \in {"wave", "waveExec", "drain"} => waveChunks > 0
  /\ rootPc \in {"idle", "exec", "recv", "stopped"} => waveChunks = 0
  /\ rootPc \in {"exec", "waveExec"} => nextPos > 0

TypeInv == TypeOK /\ WaveCounted

\* Only the decision stage evaluates decisions and only the stage after the
\* target polls.
OwnPlaces ==
  \A w \in Workers : /\ pc[w] = "judge" => w = Decider
                     /\ pc[w] = "probeNormal" => w = Post

\* Positions of the control packets in a socket.
Packets(q)  == {i \in 1 .. Len(q) : q[i].kind = "ctrl"}
Ordered(q)  == \A i, j \in Packets(q) : i < j => q[i].pos < q[j].pos
Below(q, p) == \A i \in Packets(q) : q[i].pos < p
Above(q, p) == \A i \in Packets(q) : p < q[i].pos

\* The control packets the decision stage did not read are in order, and none
\* is of a step it read or accepted before.
Busy   == {"recv", "probeNormal", "forward", "judge", "send", "bypass"}
Before == {"recv", "probeNormal", "forward", "judge"}
Queue  == chan[<<0, Decider>>]
Step   == cur[Decider].pos
NoneInHand == pc[Decider] \notin Busy /\ accepted = {}
PacketsInOrder ==
  /\ Ordered(Queue) /\ Below(Queue, nextPos)
  /\ (Above(Queue, Step) /\ Step < nextPos) \/ NoneInHand
  /\ \A a \in accepted :
       /\ Above(Queue, a)
       /\ a <= Step
       /\ pc[Decider] \in Before => a < Step

\* A run of accepted steps that ends before step p is no longer than the
\* counter says.
Counted(p) ==
  \A a \in 0 .. p - 1 : (a .. p - 1 \subseteq accepted) => p - a <= skipConsecutiveAccepts

\* The counter covers the run before the step in hand, unless a reset makes
\* sure that this step is not accepted.
RunCounted ==
  /\ (/\ pc[Decider] \in {"recv", "probeNormal"}
      /\ DecodeSingle(Decider) /\ hasPrevXPipeRow) => Counted(Step)
  /\ (/\ pc[Decider] \in {"forward", "judge"}
      /\ DecodeSingle(Decider) /\ hasLastDeltaNorm) => Counted(Step)
  /\ pc[Decider] \in {"ctrl", "send", "bypass"} => Counted(Step + 1)

\* With the target next to the root no worker decides.
DecisionInv ==
  IF Decider \in Workers THEN PacketsInOrder /\ RunCounted ELSE accepted = {}

IInv == TypeInv /\ OwnPlaces /\ DecisionInv /\ SkipWindowBound

\* What of the state the two invariants above look at.
decisionVars ==
  <<nextPos, Queue, cur[Decider], pc[Decider], accepted, skipConsecutiveAccepts, hasPrevXPipeRow,
    hasLastDeltaNorm>>

-----------------------------------------------------------------------------
(* Frames and sockets.                                                     *)

\* A frame that is not an activation is a control packet.
LEMMA FrameKinds ==
  ASSUME NEW f \in ControlFrames \cup ActFrames
  PROVE  /\ f.kind = "act" => f \in ActFrames
         /\ f.kind # "act" => f \in ControlFrames
         /\ f.pos \in Nat
BY DEF ControlFrames, ActFrames

\* What the stages write is a frame.
LEMMA FramesMade ==
  ASSUME NEW p \in Nat, NEW v \in SUBSET Passes, NEW d \in BOOLEAN, NEW s \in BOOLEAN
  PROVE  /\ Packet(p, d, s) \in ControlFrames
         /\ StopPacket \in ControlFrames
         /\ Activation(p, v) \in ActFrames
         /\ BypassActivation(p, v) \in ActFrames
         /\ Marker(p) \in ActFrames
BY DEF Packet, StopPacket, Activation, BypassActivation, Marker, ControlFrames, ActFrames

\* Writing an activation to one socket keeps the types of all.
LEMMA WrittenOK ==
  ASSUME SocketsOK(chan), NEW i \in Stages, NEW j \in Stages, NEW f \in ActFrames
  PROVE  SocketsOK(Written(i, j, f))
<1>1. <<i, j>> \in Stages \X Stages
  OBVIOUS
<1>2. Append(chan[<<i, j>>], f) \in Seq(ControlFrames \cup ActFrames)
  BY <1>1 DEF SocketsOK
<1>3. Written(i, j, f) \in [Stages \X Stages -> Seq(ControlFrames \cup ActFrames)]
  BY <1>1, <1>2 DEF SocketsOK, Written
<1>4. ASSUME NEW k \in Workers, NEW l \in Stages
      PROVE  Written(i, j, f)[<<k, l>>] \in Seq(ActFrames)
  <2>1. k \in Stages /\ <<k, l>> \in Stages \X Stages
    BY <1>4 DEF Workers, Stages
  <2>2. CASE <<k, l>> = <<i, j>>
    BY <2>1, <2>2 DEF SocketsOK, Written
  <2>3. CASE <<k, l>> # <<i, j>>
    BY <2>1, <2>3 DEF SocketsOK, Written
  <2> QED
    BY <2>2, <2>3
<1> QED
  BY <1>3, <1>4 DEF SocketsOK

\* So does writing a control packet from the root to every worker.
LEMMA BroadcastOK ==
  ASSUME SocketsOK(chan), NEW f \in ControlFrames
  PROVE  SocketsOK(Broadcast(f))
<1>1. ASSUME NEW c \in Stages \X Stages
      PROVE  Append(chan[c], f) \in Seq(ControlFrames \cup ActFrames)
  BY DEF SocketsOK
<1>2. Broadcast(f) \in [Stages \X Stages -> Seq(ControlFrames \cup ActFrames)]
  BY <1>1 DEF SocketsOK, Broadcast
<1>3. ASSUME NEW k \in Workers, NEW l \in Stages
      PROVE  Broadcast(f)[<<k, l>>] \in Seq(ActFrames)
  <2>1. k \in Stages /\ k # 0 /\ <<k, l>> \in Stages \X Stages
    BY <1>3 DEF Workers, Stages
  <2> QED
    BY <2>1 DEF SocketsOK, Broadcast
<1> QED
  BY <1>2, <1>3 DEF SocketsOK

\* And so does reading; what is read is a frame, from a worker an activation.
LEMMA ReadOK ==
  ASSUME SocketsOK(chan), NEW i \in Stages, NEW j \in Stages, chan[<<i, j>>] # <<>>
  PROVE  /\ SocketsOK(ReadFrom(i, j))
         /\ Head(chan[<<i, j>>]) \in ControlFrames \cup ActFrames
         /\ i \in Workers => Head(chan[<<i, j>>]) \in ActFrames
<1>1. <<i, j>> \in Stages \X Stages
  OBVIOUS
<1>2. chan[<<i, j>>] \in Seq(ControlFrames \cup ActFrames)
  BY <1>1 DEF SocketsOK
<1>3. /\ Tail(chan[<<i, j>>]) \in Seq(ControlFrames \cup ActFrames)
      /\ Head(chan[<<i, j>>]) \in ControlFrames \cup ActFrames
  BY <1>2
<1>4. ReadFrom(i, j) \in [Stages \X Stages -> Seq(ControlFrames \cup ActFrames)]
  BY <1>1, <1>3 DEF SocketsOK, ReadFrom
<1>5. ASSUME i \in Workers
      PROVE  /\ Head(chan[<<i, j>>]) \in ActFrames
             /\ Tail(chan[<<i, j>>]) \in Seq(ActFrames)
  BY <1>5 DEF SocketsOK
<1>6. ASSUME NEW k \in Workers, NEW l \in Stages
      PROVE  ReadFrom(i, j)[<<k, l>>] \in Seq(ActFrames)
  <2>1. k \in Stages /\ <<k, l>> \in Stages \X Stages
    BY <1>6 DEF Workers, Stages
  <2>2. CASE <<k, l>> = <<i, j>>
    BY <1>1, <1>5, <2>1, <2>2 DEF SocketsOK, ReadFrom
  <2>3. CASE <<k, l>> # <<i, j>>
    BY <1>1, <2>1, <2>3 DEF SocketsOK, ReadFrom
  <2> QED
    BY <2>2, <2>3
<1> QED
  BY <1>3, <1>4, <1>5, <1>6 DEF SocketsOK

-----------------------------------------------------------------------------
(* Type correctness.                                                       *)

\* The stages the actions name are stages.
LEMMA StageFacts ==
  /\ Workers \subseteq Stages /\ Workers \subseteq Int /\ 0 \in Stages /\ 0 \notin Workers
  /\ 1 \in Workers
  /\ Last \in Workers /\ Target \in Workers /\ Post \in Workers
  /\ Decider \in Stages /\ Decider # Target /\ Decider # Post
  /\ \A w \in Workers : w - 1 \in Stages /\ (w = Last \/ w + 1 \in Workers)
BY PipelineAssumption DEF Stages, Workers, Last, Post, Decider

\* beforeForward's handling of a frame keeps the types, whichever socket the
\* frame came from.
LEMMA ReceiveType ==
  ASSUME TypeInv, NEW w \in Workers, NEW i \in Stages, chan[<<i, w>>] # <<>>, Receive(w, i)
  PROVE  TypeInv'
<1> DEFINE frame == Head(chan[<<i, w>>])
<1>1. w \in Stages
  BY StageFacts
<1>2. SocketsOK(chan') /\ frame \in ControlFrames \cup ActFrames
  BY <1>1, ReadOK DEF TypeInv, TypeOK, Receive
<1>3. pc' \in [Workers -> WorkerStates]
  BY DEF TypeInv, TypeOK, Receive, AfterReceive, WorkerStates
<1>4. xPipe' \in [Workers -> SUBSET Passes]
  <2>1. frame.kind = "act" => frame.via \in SUBSET Passes
    BY <1>2, FrameKinds DEF ActFrames
  <2> QED
    BY <2>1 DEF TypeInv, TypeOK, Receive
<1>5. hasPrevXPipeRow' \in BOOLEAN /\ hasLastDeltaNorm' \in BOOLEAN
  BY DEF TypeInv, TypeOK, Receive
<1> QED
  BY <1>2, <1>3, <1>4, <1>5
  DEF TypeInv, TypeOK, WaveCounted, Receive, rootVars, judgeVars

\* A process that ends, by whatever fault, changes nothing but its own place.
LEMMA RootEnded ==
  ASSUME TypeInv, RootEnds
  PROVE  TypeInv' /\ UNCHANGED <<pc, accepted, decisionVars>>
<1>1. TypeInv'
  BY DEF RootEnds, TypeInv, TypeOK, WaveCounted, RootStates, skipVars, deltaVars, judgeVars
<1>2. UNCHANGED <<pc, accepted, decisionVars>>
  BY DEF RootEnds, decisionVars, Queue, skipVars, deltaVars, judgeVars
<1> QED
  BY <1>1, <1>2

LEMMA SessionEnded ==
  ASSUME TypeInv, NEW w \in Workers, SessionOver(w)
  PROVE  TypeInv' /\ accepted' = accepted
BY DEF SessionOver, TypeInv, TypeOK, WaveCounted, WorkerStates, rootVars, skipVars, deltaVars,
       judgeVars

\* The faults are of these two kinds.
LEMMA FaultKinds ==
  ASSUME Fault
  PROVE  RootEnds \/ \E w \in Workers : SessionOver(w)
BY DEF Fault, BroadcastThrows, RootKilled, PollTimeout, WorkerKilled

\* Every step of the root keeps the types.
LEMMA RootType ==
  ASSUME TypeInv, RootStart \/ RootStartChunk \/ RootProgress \/ RootFinish
  PROVE  TypeInv'
<1>1. ASSUME NEW decode \in BOOLEAN, NEW single \in BOOLEAN, StartStep(decode, single)
      PROVE  /\ SocketsOK(chan') /\ nextPos' \in 0 .. MaxSteps
             /\ firstDecode' \in Nat \cup {-1}
  <2>1. nextPos \in Nat
    BY DEF TypeInv, TypeOK
  <2>2. SocketsOK(chan')
    BY <1>1, <2>1, FramesMade, BroadcastOK DEF TypeInv, TypeOK, StartStep
  <2> QED
    BY <1>1, <2>2, PipelineAssumption DEF TypeInv, TypeOK, StartStep
<1>2. CASE RootStart
  BY <1>1, <1>2, PipelineAssumption
  DEF TypeInv, TypeOK, WaveCounted, RootStart, StartStep, RootStates, skipVars, deltaVars, judgeVars
<1>3. CASE RootStartChunk
  <2>1. StartStep(FALSE, FALSE)
    BY <1>3 DEF RootStartChunk
  <2>2. /\ SocketsOK(chan') /\ nextPos' \in 0 .. MaxSteps
        /\ firstDecode' \in Nat \cup {-1}
    BY <1>1, <2>1
  <2>3. waveChunks' \in 0 .. MaxWave /\ waveChunks' > 0 /\ rootPc' = "waveExec"
    BY <1>3, PipelineAssumption DEF TypeInv, TypeOK, RootStartChunk
  <2>4. nextPos' > 0
    BY <2>1 DEF TypeInv, TypeOK, StartStep
  <2> QED
    BY <2>1, <2>2, <2>3, <2>4
    DEF TypeInv, TypeOK, WaveCounted, StartStep, RootStates, skipVars, deltaVars, judgeVars
<1>4. CASE RootForward
  <2>1. nextPos - 1 \in Nat
    BY <1>4, PipelineAssumption DEF TypeInv, TypeOK, WaveCounted, RootForward
  <2>2. SocketsOK(chan')
    <3>1. {<<0, nextPos - 1>>} \in SUBSET Passes
      BY <2>1, StageFacts DEF Passes
    <3> QED
      BY <1>4, <2>1, <3>1, FramesMade, WrittenOK, StageFacts DEF TypeInv, TypeOK, RootForward
  <2> QED
    BY <1>4, <2>1, <2>2
    DEF TypeInv, TypeOK, WaveCounted, RootForward, RootStates, skipVars, deltaVars, judgeVars
<1>5. CASE RootStartDrain
  BY <1>5
  DEF TypeInv, TypeOK, WaveCounted, RootStartDrain, RootStates, skipVars, deltaVars, judgeVars
<1>6. CASE RootRecvLogits
  <2>1. /\ SocketsOK(chan')
        /\ Head(chan[<<Last, 0>>]) \in ActFrames
    BY <1>6, ReadOK, StageFacts DEF TypeInv, TypeOK, RootRecvLogits
  <2>2. answer' \in [pos : Nat \cup {-1}, via : SUBSET Passes]
    BY <1>6, <2>1 DEF RootRecvLogits, ActFrames
  <2> QED
    BY <1>6, <2>1, <2>2, PipelineAssumption
    DEF TypeInv, TypeOK, WaveCounted, RootRecvLogits, RootStates, skipVars, deltaVars, judgeVars
<1>7. CASE RootFinish
  <2>1. SocketsOK(chan')
    BY <1>7, FramesMade, BroadcastOK DEF TypeInv, TypeOK, RootFinish
  <2> QED
    BY <1>7, <2>1
    DEF TypeInv, TypeOK, WaveCounted, RootFinish, RootStates, skipVars, deltaVars, judgeVars
<1>8. CASE RootThrows
  BY <1>8, RootEnded DEF RootThrows
<1> QED
  BY <1>2, <1>3, <1>4, <1>5, <1>6, <1>7, <1>8 DEF RootProgress

\* Every step of a worker stage keeps the types.
LEMMA WorkerType ==
  ASSUME TypeInv, NEW w \in Workers, WorkerStep(w)
  PROVE  TypeInv'
<1>1. w \in Stages /\ w - 1 \in Stages
  BY StageFacts
<1>2. CASE ReadStop(w)
  <2>1. SocketsOK(chan')
    BY <1>1, <1>2, ReadOK, StageFacts DEF TypeInv, TypeOK, ReadStop
  <2> QED
    BY <1>2, <2>1
    DEF TypeInv, TypeOK, WaveCounted, ReadStop, WorkerStates, rootVars, skipVars, deltaVars,
        judgeVars
<1>3. CASE ReadControlPacket(w)
  <2> DEFINE packet == Head(chan[<<0, w>>])
  <2>1. SocketsOK(chan') /\ packet \in ControlFrames \cup ActFrames
    BY <1>1, <1>3, ReadOK, StageFacts DEF TypeInv, TypeOK, ReadControlPacket
  <2>2. packet.kind = "ctrl" => packet \in ControlFrames
    BY <2>1, FrameKinds
  <2>3. /\ skipConsecutiveAccepts' \in 0 .. MaxConsecutive
        /\ skipRejectStreak' \in 0 .. MaxRejectStreak
    BY <1>3, PipelineAssumption DEF TypeInv, TypeOK, ReadControlPacket, ResetOnPhaseChange
  <2>5. hasPrevXPipeRow' \in BOOLEAN
    BY <1>3, Zenon DEF TypeInv, TypeOK, ReadControlPacket, ResetOnPhaseChange
  <2>4. cur' \in [Workers -> ControlFrames] /\ pc' \in [Workers -> WorkerStates]
    BY <1>3, <2>2 DEF TypeInv, TypeOK, ReadControlPacket, WorkerStates
  <2> QED
    BY <1>3, <2>1, <2>3, <2>4, <2>5 DEF TypeInv, TypeOK, WaveCounted, ReadControlPacket, rootVars
<1>4. CASE RecvActivation(w)
  BY <1>1, <1>4, ReceiveType DEF RecvActivation
<1>5. ASSUME NEW i \in Stages, NEW otherwise \in WorkerStates, Probe(w, i, otherwise)
      PROVE  TypeInv'
  <2>1. CASE chan[<<i, w>>] # <<>> /\ Receive(w, i)
    BY <2>1, ReceiveType
  <2>2. CASE pc' = [pc EXCEPT ![w] = otherwise]
              /\ UNCHANGED <<mode, rootVars, chan, cur, xPipe, kv, skipVars>>
    BY <2>2 DEF TypeInv, TypeOK, WaveCounted, rootVars, skipVars, deltaVars, judgeVars
  <2> QED
    BY <1>5, <2>1, <2>2 DEF Probe
<1>6. CASE ProbeBypass(w)
  BY <1>5, <1>6, StageFacts DEF ProbeBypass, WorkerStates
<1>7. CASE ProbeNormal(w)
  BY <1>5, <1>7, StageFacts DEF ProbeNormal, WorkerStates
<1>8. CASE Forward(w)
  <2>1. cur[w].pos \in Nat /\ xPipe[w] \cup {<<w, cur[w].pos>>} \in SUBSET Passes
    BY <1>1 DEF TypeInv, TypeOK, ControlFrames, Passes
  <2> QED
    BY <1>1, <1>8, <2>1
    DEF TypeInv, TypeOK, WaveCounted, Forward, WorkerStates, rootVars, skipVars, deltaVars,
        judgeVars
<1>9. CASE EvaluateStageSkipDecision(w)
  <2>1. cur[w].pos \in Nat
    BY DEF TypeInv, TypeOK, ControlFrames
  <2>2. pc' \in [Workers -> WorkerStates]
    BY <1>9 DEF TypeInv, TypeOK, EvaluateStageSkipDecision, WorkerStates
  <2>3. CASE Tracking /\ DecodeSingle(w) /\ hasLastDeltaNorm
    <3> DEFINE forced == skipRejectStreak >= MaxRejectStreak
    <3>1. PICK low \in BOOLEAN :
            /\ lastAccept' = Judged(low, forced)
            /\ skipConsecutiveAccepts' =
                 IF Judged(low, forced) THEN skipConsecutiveAccepts + 1 ELSE 0
            /\ skipRejectStreak' =
                 IF Judged(low, forced) \/ forced THEN 0 ELSE skipRejectStreak + 1
            /\ accepted' = IF Judged(low, forced) THEN accepted \cup {cur[w].pos} ELSE accepted
      BY <1>9, <2>3 DEF EvaluateStageSkipDecision
    <3>2. lastAccept' \in BOOLEAN
      BY <3>1 DEF Judged
    <3>3. skipConsecutiveAccepts' \in 0 .. MaxConsecutive
      BY <3>1, PipelineAssumption DEF Judged, TypeInv, TypeOK
    <3>4. skipRejectStreak' \in 0 .. MaxRejectStreak
      BY <3>1, PipelineAssumption DEF TypeInv, TypeOK
    <3>5. accepted' \in SUBSET Nat
      BY <2>1, <3>1 DEF TypeInv, TypeOK
    <3> QED
      BY <1>9, <2>2, <3>2, <3>3, <3>4, <3>5
      DEF TypeInv, TypeOK, WaveCounted, EvaluateStageSkipDecision, rootVars, deltaVars
  <2>4. CASE ~(Tracking /\ DecodeSingle(w) /\ hasLastDeltaNorm)
    BY <1>9, <2>2, <2>4
    DEF TypeInv, TypeOK, WaveCounted, EvaluateStageSkipDecision, rootVars, deltaVars
  <2> QED
    BY <2>3, <2>4
<1>10. CASE SendMarker(w)
  <2>1. SocketsOK(chan')
    BY <1>1, <1>10, WrittenOK, FramesMade, StageFacts
    DEF TypeInv, TypeOK, SendMarker, ControlFrames
  <2> QED
    BY <1>10, <2>1
    DEF TypeInv, TypeOK, WaveCounted, SendMarker, WorkerStates, rootVars, skipVars, deltaVars,
        judgeVars
<1>11. CASE SendBypass(w)
  <2>1. SocketsOK(chan')
    BY <1>1, <1>11, WrittenOK, FramesMade, StageFacts
    DEF TypeInv, TypeOK, SendBypass, ControlFrames
  <2> QED
    BY <1>11, <2>1
    DEF TypeInv, TypeOK, WaveCounted, SendBypass, WorkerStates, rootVars, skipVars, deltaVars,
        judgeVars
<1>12. CASE SendActivation(w)
  <2>1. SocketsOK(chan')
    BY <1>1, <1>12, WrittenOK, FramesMade, StageFacts
    DEF TypeInv, TypeOK, SendActivation, ControlFrames
  <2> QED
    BY <1>12, <2>1
    DEF TypeInv, TypeOK, WaveCounted, SendActivation, WorkerStates, rootVars, skipVars, deltaVars,
        judgeVars
<1>13. CASE SessionEnds(w)
  BY <1>13, SessionEnded DEF SessionEnds
<1> QED
  BY <1>2, <1>3, <1>4, <1>6, <1>7, <1>8, <1>9, <1>10, <1>11, <1>12, <1>13 DEF WorkerStep

\* Types hold at the start, after every step, and so always.
LEMMA TypeInit == Init => TypeInv
<1> SUFFICES ASSUME Init PROVE TypeInv
  OBVIOUS
<1>1. SocketsOK(chan)
  BY DEF Init, SocketsOK, Workers, Stages
<1>2. cur \in [Workers -> ControlFrames]
  BY DEF Init, Packet, ControlFrames
<1>3. /\ 0 \in 0 .. MaxSteps /\ 0 \in 0 .. MaxWave
      /\ 0 \in 0 .. MaxConsecutive /\ 0 \in 0 .. MaxRejectStreak
  BY PipelineAssumption
<1> QED
  BY <1>1, <1>2, <1>3 DEF Init, TypeInv, TypeOK, WaveCounted, RootStates, WorkerStates

LEMMA TypeStep == TypeInv /\ [Next]_vars => TypeInv'
<1> SUFFICES ASSUME TypeInv, [Next]_vars PROVE TypeInv'
  OBVIOUS
<1>1. CASE RootStart \/ RootStartChunk \/ RootProgress \/ RootFinish
  BY <1>1, RootType
<1>2. ASSUME NEW w \in Workers, WorkerStep(w) PROVE TypeInv'
  BY <1>2, WorkerType
<1>3. CASE UNCHANGED vars
  BY <1>3
  DEF vars, rootVars, skipVars, deltaVars, judgeVars, TypeInv, TypeOK, WaveCounted, SocketsOK
<1>4. CASE Fault
  BY <1>4, FaultKinds, RootEnded, SessionEnded
<1> QED
  BY <1>1, <1>2, <1>3, <1>4 DEF Next

\* Whatever the route and the decisions, the skip counters of the decision
\* stage stay within the limits of the command line (evaluateStageSkipDecision),
\* a wave drains no more logits than it has chunks (drainPrefillLogits), and
\* workers never write a control packet.
THEOREM TypeCorrect == Spec => []TypeOK
<1>1. TypeInv => TypeOK
  BY DEF TypeInv
<1> QED
  BY <1>1, TypeInit, TypeStep, PTL DEF Spec

-----------------------------------------------------------------------------
(* The run of accepted steps.                                              *)

\* Reading the head of a socket keeps the order of the packets left in it.
LEMMA TailPackets ==
  ASSUME NEW q \in Seq(ControlFrames \cup ActFrames), q # <<>>
  PROVE  /\ Ordered(q) => Ordered(Tail(q))
         /\ \A p \in Nat : Below(q, p) => Below(Tail(q), p)
         /\ \A p \in Nat : Above(q, p) => Above(Tail(q), p)
         /\ Head(q).kind = "ctrl" /\ Ordered(q) => Above(Tail(q), Head(q).pos)
         /\ \A p \in Nat : Head(q).kind = "ctrl" /\ Above(q, p) => p < Head(q).pos
         /\ \A p \in Nat : Head(q).kind = "ctrl" /\ Below(q, p) => Head(q).pos < p
<1>1. /\ Len(q) \in Nat /\ Len(q) > 0 /\ Len(Tail(q)) = Len(q) - 1
      /\ \A i \in 1 .. Len(q) - 1 : Tail(q)[i] = q[i + 1]
      /\ Head(q) = q[1]
  OBVIOUS
<1>2. \A i \in Packets(Tail(q)) : i + 1 \in Packets(q) /\ Tail(q)[i] = q[i + 1] /\ i \in Nat
  BY <1>1 DEF Packets
<1>3. Head(q).kind = "ctrl" => 1 \in Packets(q)
  BY <1>1 DEF Packets
<1>4. \A i \in Packets(Tail(q)) : 1 < i + 1
  BY <1>1 DEF Packets
<1>5. Ordered(q) => Ordered(Tail(q))
  <2> SUFFICES ASSUME Ordered(q), NEW i \in Packets(Tail(q)), NEW j \in Packets(Tail(q)), i < j
               PROVE  Tail(q)[i].pos < Tail(q)[j].pos
    BY DEF Ordered
  <2>1. i + 1 < j + 1
    BY <1>2
  <2> QED
    BY <1>2, <2>1 DEF Ordered
<1>6. \A p \in Nat : /\ Below(q, p) => Below(Tail(q), p)
                     /\ Above(q, p) => Above(Tail(q), p)
  BY <1>2 DEF Below, Above
<1>7. Head(q).kind = "ctrl" /\ Ordered(q) => Above(Tail(q), Head(q).pos)
  BY <1>1, <1>2, <1>3, <1>4 DEF Ordered, Above
<1> QED
  BY <1>1, <1>3, <1>5, <1>6, <1>7 DEF Below, Above

\* A frame that is no control packet does not count.
LEMMA AppendOther ==
  ASSUME NEW q \in Seq(ControlFrames \cup ActFrames), NEW f \in ControlFrames \cup ActFrames,
         f.kind # "ctrl"
  PROVE  /\ Ordered(q) => Ordered(Append(q, f))
         /\ \A p \in Nat : Below(q, p) => Below(Append(q, f), p)
         /\ \A p \in Nat : Above(q, p) => Above(Append(q, f), p)
<1>1. /\ Len(Append(q, f)) = Len(q) + 1 /\ Len(q) \in Nat
      /\ Append(q, f)[Len(q) + 1] = f
      /\ \A i \in 1 .. Len(q) : Append(q, f)[i] = q[i]
  OBVIOUS
<1>2. \A i \in Packets(Append(q, f)) : i \in Packets(q) /\ Append(q, f)[i] = q[i]
  BY <1>1 DEF Packets
<1> QED
  BY <1>2 DEF Ordered, Below, Above

\* A control packet of a later step goes behind all the others.
LEMMA AppendPacket ==
  ASSUME NEW q \in Seq(ControlFrames \cup ActFrames), NEW f \in ControlFrames, f.kind = "ctrl",
         Ordered(q), Below(q, f.pos)
  PROVE  /\ Ordered(Append(q, f))
         /\ Below(Append(q, f), f.pos + 1)
         /\ \A p \in Nat : Above(q, p) /\ p < f.pos => Above(Append(q, f), p)
<1>1. /\ Len(Append(q, f)) = Len(q) + 1 /\ Len(q) \in Nat
      /\ Append(q, f)[Len(q) + 1] = f
      /\ \A i \in 1 .. Len(q) : Append(q, f)[i] = q[i]
  OBVIOUS
<1>2. \A i \in Packets(Append(q, f)) :
        \/ i \in Packets(q) /\ Append(q, f)[i] = q[i] /\ i \in 1 .. Len(q)
        \/ i = Len(q) + 1 /\ Append(q, f)[i] = f
  BY <1>1 DEF Packets
<1>3. f.pos \in Nat /\ \A i \in Packets(q) : q[i].pos \in Nat
  BY FrameKinds DEF Packets, ControlFrames
<1> QED
  BY <1>1, <1>2, <1>3 DEF Ordered, Below, Above

\* A step that leaves all this alone keeps the invariants.
LEMMA DecisionSame ==
  ASSUME PacketsInOrder, RunCounted, UNCHANGED decisionVars
  PROVE  PacketsInOrder' /\ RunCounted'
<1>1. /\ Queue' = Queue /\ Step' = Step /\ nextPos' = nextPos /\ accepted' = accepted
      /\ (NoneInHand' <=> NoneInHand) /\ pc[Decider]' = pc[Decider]
  BY DEF decisionVars, Step, NoneInHand
<1>2. PacketsInOrder'
  BY <1>1 DEF PacketsInOrder, Ordered, Below, Above, Packets
<1>3. \A p : Counted(p)' <=> Counted(p)
  BY DEF decisionVars, Counted
<1>4. /\ (DecodeSingle(Decider))' <=> DecodeSingle(Decider)
      /\ hasPrevXPipeRow' = hasPrevXPipeRow /\ hasLastDeltaNorm' = hasLastDeltaNorm
  BY DEF decisionVars, DecodeSingle
<1>5. RunCounted'
  BY <1>1, <1>3, <1>4 DEF RunCounted
<1> QED
  BY <1>2, <1>5

\* The decision stage's own types, for the lemmas below.
LEMMA DeciderTypes ==
  ASSUME TypeInv, Decider \in Workers
  PROVE  /\ Queue \in Seq(ControlFrames \cup ActFrames)
         /\ <<0, Decider>> \in Stages \X Stages
         /\ Step \in Nat /\ nextPos \in Nat /\ accepted \subseteq Nat
         /\ skipConsecutiveAccepts \in Nat
<1>1. <<0, Decider>> \in Stages \X Stages
  BY StageFacts
<1>2. Queue \in Seq(ControlFrames \cup ActFrames)
  BY <1>1 DEF TypeInv, TypeOK, SocketsOK, Queue
<1>3. Step \in Nat
  BY DEF TypeInv, TypeOK, Step, ControlFrames
<1> QED
  BY <1>1, <1>2, <1>3 DEF TypeInv, TypeOK

\* Root steps: a packet of a new step, or a frame that is none, goes behind
\* the unread packets.
LEMMA RootDecision ==
  ASSUME TypeInv, Decider \in Workers, PacketsInOrder, RunCounted,
         RootStart \/ RootStartChunk \/ RootProgress \/ RootFinish
  PROVE  PacketsInOrder' /\ RunCounted'
<1>0. /\ Queue \in Seq(ControlFrames \cup ActFrames)
      /\ <<0, Decider>> \in Stages \X Stages
      /\ Step \in Nat /\ nextPos \in Nat /\ accepted \subseteq Nat
  BY DeciderTypes
<1> USE <1>0
<1>1. /\ UNCHANGED <<pc, cur, accepted, skipConsecutiveAccepts, hasPrevXPipeRow, hasLastDeltaNorm>>
  BY DEF RootStart, RootStartChunk, StartStep, RootProgress, RootForward, RootStartDrain,
         RootRecvLogits, RootThrows, RootEnds, RootFinish, skipVars, deltaVars, judgeVars
<1>2. ASSUME nextPos' = nextPos, NEW f \in ControlFrames \cup ActFrames, f.kind # "ctrl",
             Queue' = Append(Queue, f)
      PROVE  PacketsInOrder' /\ RunCounted'
  <2>1. PacketsInOrder'
    BY <1>1, <1>2, AppendOther DEF PacketsInOrder, NoneInHand, Step
  <2>2. RunCounted'
    BY <1>1 DEF RunCounted, Counted, DecodeSingle, Step
  <2> QED
    BY <2>1, <2>2
<1>3. ASSUME NEW decode \in BOOLEAN, NEW single \in BOOLEAN, StartStep(decode, single)
      PROVE  PacketsInOrder' /\ RunCounted'
  <2> DEFINE packet == Packet(nextPos, decode, single)
  <2>1. packet \in ControlFrames /\ packet.kind = "ctrl" /\ packet.pos = nextPos
    BY FramesMade DEF Packet
  <2>2. Queue' = Append(Queue, packet) /\ nextPos' = nextPos + 1
    BY <1>3, StageFacts DEF StartStep, Broadcast, Queue
  <2>3. \A a \in accepted : a < nextPos
    BY DEF PacketsInOrder, NoneInHand
  <2>4. /\ Ordered(Queue') /\ Below(Queue', nextPos')
        /\ \A q \in Nat : Above(Queue, q) /\ q < nextPos => Above(Queue', q)
    BY <2>1, <2>2, AppendPacket DEF PacketsInOrder
  <2>5. PacketsInOrder'
    BY <1>1, <2>2, <2>3, <2>4 DEF PacketsInOrder, NoneInHand, Step
  <2>6. RunCounted'
    BY <1>1 DEF RunCounted, Counted, DecodeSingle, Step
  <2> QED
    BY <2>5, <2>6
<1>4. CASE RootStart \/ RootStartChunk
  BY <1>3, <1>4 DEF RootStart, RootStartChunk
<1>5. CASE RootForward
  <2> DEFINE frame == Activation(nextPos - 1, {<<0, nextPos - 1>>})
  <2>1. nextPos - 1 \in Nat
    BY <1>5 DEF TypeInv, TypeOK, WaveCounted, RootForward
  <2>2. frame \in ActFrames /\ frame.kind # "ctrl"
    <3>1. {<<0, nextPos - 1>>} \in SUBSET Passes
      BY <2>1, StageFacts DEF Passes
    <3>2. frame \in ActFrames
      BY <2>1, <3>1, FramesMade
    <3> QED
      BY <3>2 DEF Activation
  <2>3. Queue' = IF Decider = 1 THEN Append(Queue, frame) ELSE Queue
    BY <1>5, StageFacts DEF RootForward, Written, Queue, TypeInv, TypeOK, SocketsOK
  <2> HIDE DEF frame
  <2> QED
    BY <1>1, <1>2, <1>5, <2>2, <2>3, DecisionSame DEF RootForward, decisionVars
<1>6. CASE RootStartDrain
  BY <1>1, <1>6, DecisionSame DEF RootStartDrain, decisionVars, Queue
<1>7. CASE RootRecvLogits
  <2>1. Queue' = Queue
    BY <1>7, StageFacts DEF RootRecvLogits, ReadFrom, Queue, TypeInv, TypeOK, SocketsOK
  <2> QED
    BY <1>1, <1>7, <2>1, DecisionSame DEF RootRecvLogits, decisionVars
<1>8. CASE RootFinish
  <2>1. StopPacket \in ControlFrames /\ StopPacket.kind # "ctrl"
    BY DEF StopPacket, ControlFrames
  <2>2. Queue' = Append(Queue, StopPacket)
    BY <1>8, StageFacts DEF RootFinish, Broadcast, Queue
  <2> QED
    BY <1>2, <1>8, <2>1, <2>2 DEF RootFinish
<1>9. CASE RootThrows
  BY <1>9, RootEnded, DecisionSame DEF RootThrows
<1> QED
  BY <1>4, <1>5, <1>6, <1>7, <1>8, <1>9 DEF RootProgress

\* The steps of the other stages leave the decision stage alone.
LEMMA OtherStage ==
  ASSUME TypeInv, OwnPlaces, Decider \in Workers,
         NEW w \in Workers, w # Decider, WorkerStep(w)
  PROVE  UNCHANGED decisionVars
<1>1. /\ \A i, j \in Stages : <<i, j>> # <<0, Decider>> =>
           /\ ReadFrom(i, j)[<<0, Decider>>] = Queue
           /\ \A f : Written(i, j, f)[<<0, Decider>>] = Queue
  BY DeciderTypes DEF TypeInv, TypeOK, SocketsOK, ReadFrom, Written, Queue
<1>2. /\ w \in Stages /\ w - 1 \in Stages /\ w # 0 /\ 0 \in Stages
      /\ Target \in Stages /\ Post \in Stages /\ Decider \in Stages
      /\ w = Last \/ w + 1 \in Stages
  BY StageFacts
<1>3. \A x : /\ [pc EXCEPT ![w] = x][Decider] = pc[Decider]
            /\ [cur EXCEPT ![w] = x][Decider] = cur[Decider]
  BY DEF TypeInv, TypeOK
<1>4. ASSUME NEW i \in Stages, Receive(w, i)
      PROVE  UNCHANGED decisionVars
  <2>1. hasPrevXPipeRow' = hasPrevXPipeRow
    BY <1>4 DEF Receive, TypeInv, TypeOK
  <2>2. Queue' = Queue /\ pc'[Decider] = pc[Decider]
    BY <1>1, <1>2, <1>3, <1>4 DEF Receive, Queue
  <2> QED
    BY <1>4, <2>1, <2>2 DEF Receive, decisionVars, rootVars, judgeVars
<1>5. CASE ReadStop(w)
  BY <1>1, <1>2, <1>3, <1>5
  DEF ReadStop, decisionVars, Queue, rootVars, skipVars, deltaVars, judgeVars
<1>6. CASE ReadControlPacket(w)
  <2>1. pc'[Decider] = pc[Decider] /\ cur'[Decider] = cur[Decider]
    BY <1>3, <1>6 DEF ReadControlPacket
  <2>2. UNCHANGED <<hasPrevXPipeRow, skipConsecutiveAccepts>>
    BY <1>6 DEF ReadControlPacket, ResetOnPhaseChange
  <2>3. Queue' = Queue
    BY <1>1, <1>2, <1>6 DEF ReadControlPacket, Queue
  <2> QED
    BY <1>6, <2>1, <2>2, <2>3 DEF ReadControlPacket, decisionVars, rootVars
<1>7. CASE RecvActivation(w)
  BY <1>2, <1>4, <1>7 DEF RecvActivation
<1>8. ASSUME NEW i \in Stages, NEW otherwise, Probe(w, i, otherwise)
      PROVE  UNCHANGED decisionVars
  BY <1>3, <1>4, <1>8
  DEF Probe, decisionVars, Queue, rootVars, skipVars, deltaVars, judgeVars
<1>9. CASE ProbeBypass(w) \/ ProbeNormal(w)
  BY <1>2, <1>8, <1>9 DEF ProbeBypass, ProbeNormal
<1>10. CASE Forward(w)
  BY <1>3, <1>10
  DEF Forward, decisionVars, Queue, rootVars, skipVars, deltaVars, judgeVars
<1>11. CASE EvaluateStageSkipDecision(w)
  BY <1>11 DEF EvaluateStageSkipDecision, OwnPlaces
<1>12. CASE SendMarker(w)
  BY <1>12 DEF SendMarker, Skipping
<1>13. CASE SendBypass(w)
  BY <1>1, <1>2, <1>3, <1>13
  DEF SendBypass, decisionVars, Queue, rootVars, skipVars, deltaVars, judgeVars
<1>14. CASE SendActivation(w)
  BY <1>1, <1>2, <1>3, <1>14
  DEF SendActivation, decisionVars, Queue, rootVars, skipVars, deltaVars, judgeVars
<1>15. CASE SessionEnds(w)
  BY <1>3, <1>15
  DEF SessionEnds, SessionOver, decisionVars, Queue, rootVars, skipVars, deltaVars, judgeVars
<1> QED
  BY <1>5, <1>6, <1>7, <1>9, <1>10, <1>11, <1>12, <1>13, <1>14, <1>15 DEF WorkerStep

\* When a session ends the decision stage keeps what it had decided, and if
\* the session was its own it decides nothing more.
LEMMA DecisionSurvives ==
  ASSUME TypeInv, Decider \in Workers, PacketsInOrder, RunCounted,
         NEW w \in Workers, SessionOver(w)
  PROVE  PacketsInOrder' /\ RunCounted'
<1>1. CASE w # Decider
  <2>1. pc'[Decider] = pc[Decider]
    BY <1>1 DEF SessionOver
  <2>2. UNCHANGED decisionVars
    BY <2>1 DEF SessionOver, decisionVars, Queue, rootVars, skipVars, deltaVars, judgeVars
  <2> QED
    BY <2>2, DecisionSame
<1>2. CASE w = Decider
  <2>1. /\ Queue' = Queue /\ Step' = Step /\ nextPos' = nextPos /\ accepted' = accepted
        /\ pc'[Decider] = "ended"
    BY <1>2 DEF SessionOver, Queue, Step, TypeInv, TypeOK, rootVars, skipVars, judgeVars
  <2>2. NoneInHand => NoneInHand'
    BY <2>1 DEF NoneInHand, Busy
  <2>3. PacketsInOrder'
    BY <2>1, <2>2 DEF PacketsInOrder, Ordered, Below, Above, Packets, Before
  <2> QED
    BY <2>1, <2>3 DEF RunCounted
<1> QED
  BY <1>1, <1>2

\* Only the decision stage comes to a judgement.
LEMMA JudgeStep ==
  ASSUME TypeInv, OwnPlaces, [Next]_vars
  PROVE  OwnPlaces'
<1>1. CASE UNCHANGED pc
  BY <1>1 DEF OwnPlaces
<1>2. ASSUME NEW w \in Workers, NEW x, x # "judge" \/ w = Decider,
             x # "probeNormal" \/ w = Post, pc' = [pc EXCEPT ![w] = x]
      PROVE  OwnPlaces'
  BY <1>2 DEF OwnPlaces, TypeInv, TypeOK
<1>3. ASSUME NEW w \in Workers, NEW i, Receive(w, i)
      PROVE  OwnPlaces'
  <2>1. AfterReceive(w, Head(chan[<<i, w>>])) \notin {"judge", "probeNormal"}
    BY DEF AfterReceive
  <2> QED
    BY <1>2, <1>3, <2>1 DEF Receive
<1>4. ASSUME NEW w \in Workers, WorkerStep(w)
      PROVE  OwnPlaces'
  <2>1. CASE RecvActivation(w) \/ ProbeBypass(w) \/ ProbeNormal(w)
    BY <1>2, <1>3, <2>1
    DEF RecvActivation, ProbeBypass, ProbeNormal, Probe, PollsBothSockets
  <2>2. CASE Forward(w)
    <3>1. CASE w = Decider
      <4>1. pc' = [pc EXCEPT ![w] = "judge"]
        BY <2>2, <3>1 DEF Forward
      <4> QED
        BY <1>2, <3>1, <4>1
    <3>2. CASE w # Decider
      <4>1. pc' = [pc EXCEPT ![w] = "send"]
        BY <2>2, <3>2 DEF Forward
      <4> QED
        BY <1>2, <4>1
    <3> QED
      BY <3>1, <3>2
  <2>3. CASE ReadControlPacket(w)
    BY <1>2, <2>3 DEF ReadControlPacket
  <2>4. CASE ReadStop(w) \/ EvaluateStageSkipDecision(w) \/ SendMarker(w) \/ SendBypass(w)
             \/ SendActivation(w) \/ SessionEnds(w)
    BY <1>2, <2>4
    DEF ReadStop, EvaluateStageSkipDecision, SendMarker, SendBypass, SendActivation,
        SessionEnds, SessionOver
  <2> QED
    BY <1>4, <2>1, <2>2, <2>3, <2>4 DEF WorkerStep
<1>5. CASE RootStart \/ RootStartChunk \/ RootProgress \/ RootFinish
  BY <1>1, <1>5
  DEF RootStart, RootStartChunk, StartStep, RootProgress, RootForward, RootStartDrain,
      RootRecvLogits, RootThrows, RootEnds, RootFinish
<1>6. CASE Fault
  BY <1>1, <1>2, <1>6, FaultKinds DEF RootEnds, SessionOver
<1> QED
  BY <1>1, <1>4, <1>5, <1>6 DEF Next, vars

\* A step that was not accepted ends every run.
LEMMA NotCounted ==
  ASSUME NEW p \in Nat, p \notin accepted
  PROVE  Counted(p + 1)
<1>1. ASSUME NEW a \in 0 .. p PROVE p \in a .. p + 1 - 1
  BY <1>1
<1> QED
  BY <1>1 DEF Counted

\* What the decision stage reads next is a later step.
LEMMA DeciderRead ==
  ASSUME TypeInv, Decider \in Workers, PacketsInOrder, RunCounted, ReadControlPacket(Decider)
  PROVE  PacketsInOrder' /\ RunCounted'
<1> DEFINE packet == Head(Queue)
<1>0. /\ Queue \in Seq(ControlFrames \cup ActFrames) /\ Queue # <<>>
      /\ <<0, Decider>> \in Stages \X Stages
      /\ Step \in Nat /\ nextPos \in Nat /\ accepted \subseteq Nat
      /\ pc[Decider] = "ctrl"
      /\ skipConsecutiveAccepts \in Nat
  BY DeciderTypes DEF ReadControlPacket, Queue
<1>1. Queue' = Tail(Queue) /\ accepted' = accepted /\ nextPos' = nextPos
  BY <1>0 DEF ReadControlPacket, ReadFrom, Queue, TypeInv, TypeOK, SocketsOK, rootVars
<1>2. /\ Ordered(Queue') /\ Below(Queue', nextPos)
      /\ \A p \in Nat : Above(Queue, p) => Above(Queue', p)
  BY <1>0, <1>1, TailPackets DEF PacketsInOrder
<1>3. packet \in ControlFrames \cup ActFrames /\ packet.pos \in Nat
  BY <1>0, FrameKinds
<1>4. CASE packet.kind = "ctrl"
  <2>1. /\ Step' = packet.pos /\ cur'[Decider] = packet /\ pc'[Decider] = "recv"
    BY <1>4 DEF ReadControlPacket, Step, Queue, TypeInv, TypeOK
  <2>2. /\ Above(Queue', packet.pos) /\ packet.pos < nextPos
        /\ \A p \in Nat : Above(Queue, p) => p < packet.pos
    BY <1>0, <1>1, <1>4, TailPackets DEF PacketsInOrder
  <2>3. \A a \in accepted : a < packet.pos /\ Above(Queue', a)
    BY <1>0, <1>2, <2>2 DEF PacketsInOrder
  <2>4. PacketsInOrder'
    BY <1>0, <1>1, <1>2, <1>3, <2>1, <2>2, <2>3 DEF PacketsInOrder
  <2>5. CASE packet.decode # cur[Decider].decode
    <3>1. ~hasPrevXPipeRow'
      BY <1>4, <2>5 DEF ReadControlPacket, ResetOnPhaseChange, Queue
    <3> QED
      BY <2>1, <2>4, <3>1 DEF RunCounted
  <2>6. CASE packet.decode = cur[Decider].decode
    <3>1. skipConsecutiveAccepts' = skipConsecutiveAccepts
      BY <1>4, <2>6 DEF ReadControlPacket, ResetOnPhaseChange, Queue
    <3>2. Counted(packet.pos)
      <4>1. CASE packet.pos = Step + 1
        BY <1>0, <4>1 DEF RunCounted
      <4>2. CASE packet.pos # Step + 1 /\ packet.pos # 0
        <5>1. packet.pos - 1 \in Nat /\ packet.pos - 1 \notin accepted
          BY <1>0, <1>3, <2>2, <4>2 DEF PacketsInOrder, NoneInHand
        <5> QED
          BY <1>3, <5>1, NotCounted
      <4>3. CASE packet.pos = 0
        BY <4>3 DEF Counted
      <4> QED
        BY <4>1, <4>2, <4>3
    <3>3. (Counted(Step))'
      BY <1>1, <2>1, <3>1, <3>2 DEF Counted
    <3> QED
      BY <2>1, <2>4, <3>3 DEF RunCounted
  <2> QED
    BY <2>5, <2>6
<1>5. CASE packet.kind # "ctrl"
  <2>1. Step' = Step /\ pc'[Decider] = "failed"
    BY <1>5 DEF ReadControlPacket, Step, Queue, TypeInv, TypeOK
  <2>2. PacketsInOrder'
    BY <1>0, <1>1, <1>2, <2>1 DEF PacketsInOrder, NoneInHand, Busy, Before
  <2> QED
    BY <2>1, <2>2 DEF RunCounted
<1> QED
  BY <1>4, <1>5

\* The judgement: an accepted step lengthens the run the counter counts, and
\* only below the limit.
LEMMA DeciderJudges ==
  ASSUME TypeInv, Decider \in Workers, PacketsInOrder, RunCounted, SkipWindowBound,
         EvaluateStageSkipDecision(Decider)
  PROVE  PacketsInOrder' /\ RunCounted' /\ SkipWindowBound'
<1>0. /\ Queue' = Queue /\ Step' = Step /\ nextPos' = nextPos
      /\ pc[Decider] = "judge" /\ pc'[Decider] = "send"
      /\ Step \in Nat /\ accepted \subseteq Nat /\ skipConsecutiveAccepts \in Nat
  BY DeciderTypes DEF EvaluateStageSkipDecision, Queue, Step, TypeInv, TypeOK, rootVars
<1>1. \A a \in accepted : a < Step
  BY <1>0 DEF PacketsInOrder, Before
<1>2. Above(Queue, Step) /\ Step < nextPos
  BY <1>0 DEF PacketsInOrder, NoneInHand, Busy
<1>3. CASE accepted' = accepted
  <2>1. PacketsInOrder'
    BY <1>0, <1>1, <1>2, <1>3 DEF PacketsInOrder, Before
  <2>2. (Counted(Step + 1))'
    <3>1. Step \notin accepted'
      BY <1>0, <1>1, <1>3
    <3>2. ASSUME NEW a \in 0 .. Step PROVE Step \in a .. Step + 1 - 1
      BY <1>0, <3>2
    <3> QED
      BY <1>0, <3>1, <3>2 DEF Counted
  <2>3. RunCounted'
    BY <1>0, <2>2 DEF RunCounted
  <2>4. SkipWindowBound'
    BY <1>3 DEF SkipWindowBound
  <2> QED
    BY <2>1, <2>3, <2>4
<1>4. CASE accepted' # accepted
  <2>1. /\ accepted' = accepted \cup {Step}
        /\ skipConsecutiveAccepts < MaxConsecutive
        /\ skipConsecutiveAccepts' = skipConsecutiveAccepts + 1
        /\ DecodeSingle(Decider) /\ hasLastDeltaNorm
    BY <1>4 DEF EvaluateStageSkipDecision, Judged, Step
  <2>2. Counted(Step)
    BY <1>0, <2>1 DEF RunCounted
  <2>3. ASSUME NEW a \in 0 .. Step, a .. Step \subseteq accepted'
        PROVE  Step + 1 - a <= skipConsecutiveAccepts'
    <3>1. CASE a = Step
      BY <1>0, <2>1, <3>1
    <3>2. CASE a < Step
      <4>1. a .. Step - 1 \subseteq accepted
        BY <1>0, <2>1, <2>3
      <4> QED
        BY <1>0, <2>1, <2>2, <3>2, <4>1 DEF Counted
    <3> QED
      BY <1>0, <3>1, <3>2
  <2>4. (Counted(Step + 1))'
    BY <1>0, <2>3 DEF Counted
  <2>5. RunCounted'
    BY <1>0, <2>4 DEF RunCounted
  <2>6. PacketsInOrder'
    BY <1>0, <1>1, <1>2, <2>1 DEF PacketsInOrder, Before
  <2>7. ASSUME NEW p \in 0 .. MaxSteps, p .. p + MaxConsecutive \subseteq accepted'
        PROVE  FALSE
    <3>1. MaxConsecutive \in Nat /\ p \in Nat
      BY <2>7, PipelineAssumption
    <3>2. p .. p + MaxConsecutive \subseteq accepted => FALSE
      BY DEF SkipWindowBound
    <3>3. Step \in p .. p + MaxConsecutive
      BY <2>1, <2>7, <3>2
    <3>4. p + MaxConsecutive \in accepted'
      BY <2>7, <3>1
    <3>5. p + MaxConsecutive = Step
      BY <1>0, <1>1, <2>1, <3>1, <3>3, <3>4
    <3> QED
      BY <1>0, <2>1, <2>3, <2>7, <3>1, <3>5
  <2> QED
    BY <2>5, <2>6, <2>7 DEF SkipWindowBound
<1> QED
  BY <1>3, <1>4

\* The other steps of the decision stage: it takes its activation, computes
\* and sends.
LEMMA DeciderMoves ==
  ASSUME TypeInv, Decider \in Workers, PacketsInOrder, RunCounted,
         \/ ReadStop(Decider) \/ RecvActivation(Decider) \/ Forward(Decider)
         \/ SendMarker(Decider) \/ SendBypass(Decider) \/ SendActivation(Decider)
  PROVE  PacketsInOrder' /\ RunCounted'
<1>0. /\ Queue \in Seq(ControlFrames \cup ActFrames)
      /\ <<0, Decider>> \in Stages \X Stages
      /\ Step \in Nat /\ nextPos \in Nat /\ accepted \subseteq Nat
      /\ Decider # 0 /\ Decider # Target /\ Decider # Post
  BY DeciderTypes, StageFacts
<1>1. /\ UNCHANGED <<nextPos, cur, accepted, skipConsecutiveAccepts>>
      /\ Step' = Step
  BY DEF ReadStop, RecvActivation, Receive, Forward, SendMarker, SendBypass, SendActivation,
         rootVars, skipVars, deltaVars, judgeVars, Step
<1>2. Queue' = Queue \/ (Queue # <<>> /\ Queue' = Tail(Queue))
  <2>1. \A i, j \in Stages : chan' = ReadFrom(i, j) /\ chan[<<i, j>>] # <<>> =>
          Queue' = Queue \/ (Queue # <<>> /\ Queue' = Tail(Queue))
    BY <1>0 DEF ReadFrom, Queue, TypeInv, TypeOK, SocketsOK
  <2>2. \A j \in Stages : \A f : chan' = Written(Decider, j, f) => Queue' = Queue
    BY <1>0, StageFacts DEF Written, Queue, TypeInv, TypeOK, SocketsOK
  <2>3. CASE ReadStop(Decider) \/ RecvActivation(Decider)
    BY <2>1, <2>3, StageFacts DEF ReadStop, RecvActivation, Receive
  <2>4. CASE Forward(Decider)
    BY <2>4 DEF Forward, Queue
  <2>5. CASE SendMarker(Decider) \/ SendBypass(Decider) \/ SendActivation(Decider)
    BY <2>2, <2>5, StageFacts DEF SendMarker, SendBypass, SendActivation
  <2> QED
    BY <2>3, <2>4, <2>5
<1>3. /\ Ordered(Queue') /\ Below(Queue', nextPos)
      /\ \A p \in Nat : Above(Queue, p) => Above(Queue', p)
  BY <1>0, <1>2, TailPackets DEF PacketsInOrder
<1>4. ASSUME NoneInHand => pc'[Decider] \notin Busy,
             pc'[Decider] \in Before => pc[Decider] \in Before
      PROVE  PacketsInOrder'
  BY <1>0, <1>1, <1>3, <1>4 DEF PacketsInOrder, NoneInHand
<1>5. \A p : Counted(p)' <=> Counted(p)
  BY <1>1 DEF Counted
<1>6. CASE ReadStop(Decider)
  <2>1. pc'[Decider] = "stopped"
    BY <1>6 DEF ReadStop, TypeInv, TypeOK
  <2> QED
    BY <1>4, <2>1 DEF RunCounted, Busy, Before
<1>7. CASE RecvActivation(Decider)
  <2> DEFINE frame == Head(chan[<<Decider - 1, Decider>>])
  <2>1. /\ pc[Decider] = "recv" /\ pc'[Decider] \in {"forward", "failed"}
        /\ hasLastDeltaNorm' = (/\ Tracking /\ DecodeSingle(Decider)
                                /\ Usable(Decider, frame) /\ hasPrevXPipeRow)
    BY <1>0, <1>7 DEF RecvActivation, Receive, AfterReceive, TypeInv, TypeOK
  <2>2. PacketsInOrder'
    BY <1>4, <2>1 DEF Busy, Before, NoneInHand
  <2>3. RunCounted'
    BY <1>1, <1>5, <2>1 DEF RunCounted, DecodeSingle
  <2> QED
    BY <2>2, <2>3
<1>8. CASE Forward(Decider)
  <2>1. /\ pc[Decider] = "forward" /\ pc'[Decider] = "judge"
        /\ hasLastDeltaNorm' = hasLastDeltaNorm
    BY <1>8 DEF Forward, TypeInv, TypeOK, skipVars, deltaVars
  <2>2. PacketsInOrder'
    BY <1>4, <2>1 DEF Busy, Before, NoneInHand
  <2>3. RunCounted'
    BY <1>1, <1>5, <2>1 DEF RunCounted, DecodeSingle
  <2> QED
    BY <2>2, <2>3
<1>9. CASE SendMarker(Decider) \/ SendBypass(Decider) \/ SendActivation(Decider)
  <2>1. /\ pc[Decider] \in {"send", "bypass"} /\ pc'[Decider] \in {"bypass", "ctrl"}
    BY <1>9 DEF SendMarker, SendBypass, SendActivation, TypeInv, TypeOK
  <2>2. PacketsInOrder'
    BY <1>4, <2>1 DEF Busy, Before, NoneInHand
  <2>3. (Counted(Step + 1))'
    BY <1>1, <1>5, <2>1 DEF RunCounted
  <2> QED
    BY <2>1, <2>2, <2>3 DEF RunCounted
<1> QED
  BY <1>6, <1>7, <1>8, <1>9

\* The invariant holds at the start and after every step.
LEMMA InvInit == Init => IInv
<1> SUFFICES ASSUME Init PROVE IInv
  OBVIOUS
<1>1. TypeInv
  BY TypeInit
<1>2. OwnPlaces /\ SkipWindowBound
  <2>1. \A p \in 0 .. MaxSteps : p \in p .. p + MaxConsecutive
    BY PipelineAssumption
  <2> QED
    BY <2>1 DEF Init, OwnPlaces, SkipWindowBound
<1>3. ASSUME Decider \in Workers PROVE PacketsInOrder /\ RunCounted
  <2>1. /\ Queue = <<>> /\ Step = 0 /\ nextPos = 0 /\ accepted = {} /\ pc[Decider] = "ctrl"
    BY <1>3, DeciderTypes, <1>1 DEF Init, Queue, Step, Packet
  <2>2. Packets(Queue) = {}
    BY <2>1 DEF Packets
  <2>3. NoneInHand
    BY <2>1 DEF NoneInHand, Busy
  <2> QED
    BY <2>1, <2>2, <2>3, NotCounted
    DEF PacketsInOrder, RunCounted, Ordered, Below, Above
<1> QED
  BY <1>1, <1>2, <1>3 DEF IInv, DecisionInv, Init

LEMMA InvStep == IInv /\ [Next]_vars => IInv'
<1> SUFFICES ASSUME IInv, [Next]_vars PROVE IInv'
  OBVIOUS
<1>0. TypeInv /\ OwnPlaces /\ SkipWindowBound
  BY DEF IInv
<1>1. TypeInv' /\ OwnPlaces'
  BY <1>0, TypeStep, JudgeStep
<1>2. CASE Decider \notin Workers
  <2>1. accepted = {}
    BY <1>2 DEF IInv, DecisionInv
  <2>2. accepted' = accepted
    <3>1. CASE Fault
      BY <3>1, FaultKinds DEF RootEnds, SessionOver, skipVars, judgeVars
    <3>2. CASE ~Fault
      BY <1>0, <1>2, <3>2
      DEF Next, RootStart, RootStartChunk, StartStep, RootProgress, RootForward, RootStartDrain,
          RootRecvLogits, RootThrows, RootEnds, RootFinish, WorkerStep, ReadStop,
          ReadControlPacket, RecvActivation, Receive, ProbeBypass, ProbeNormal, Probe,
          SessionOver, SessionEnds, Forward, EvaluateStageSkipDecision, SendMarker, SendBypass,
          SendActivation, OwnPlaces, vars, skipVars, deltaVars, judgeVars
    <3> QED
      BY <3>1, <3>2
  <2>3. DecisionInv' /\ SkipWindowBound'
    BY <1>0, <1>2, <2>1, <2>2 DEF DecisionInv, SkipWindowBound
  <2> QED
    BY <1>1, <2>3 DEF IInv
<1>3. CASE Decider \in Workers
  <2>0. PacketsInOrder /\ RunCounted
    BY <1>3 DEF IInv, DecisionInv
  <2>1. ASSUME accepted' = accepted PROVE SkipWindowBound'
    BY <1>0, <2>1 DEF SkipWindowBound
  <2>2. CASE UNCHANGED decisionVars
    <3>1. PacketsInOrder' /\ RunCounted'
      BY <2>0, <2>2, DecisionSame
    <3>2. SkipWindowBound'
      BY <2>1, <2>2 DEF decisionVars
    <3> QED
      BY <1>1, <1>3, <3>1, <3>2 DEF IInv, DecisionInv
  <2>3. CASE RootStart \/ RootStartChunk \/ RootProgress \/ RootFinish
    <3>1. PacketsInOrder' /\ RunCounted'
      BY <1>0, <1>3, <2>0, <2>3, RootDecision
    <3>2. accepted' = accepted
      BY <2>3 DEF RootStart, RootStartChunk, StartStep, RootProgress, RootForward,
                  RootStartDrain, RootRecvLogits, RootThrows, RootEnds, RootFinish, skipVars,
                  judgeVars
    <3> QED
      BY <1>1, <1>3, <2>1, <3>1, <3>2 DEF IInv, DecisionInv
  <2>7. ASSUME NEW w \in Workers, SessionOver(w) PROVE IInv'
    BY <1>0, <1>1, <1>3, <2>0, <2>1, <2>7, SessionEnded, DecisionSurvives DEF IInv, DecisionInv
  <2>4. CASE WorkerStep(Decider)
    <3>1. CASE ReadControlPacket(Decider)
      BY <1>0, <1>1, <1>3, <2>0, <2>1, <3>1, DeciderRead
      DEF IInv, DecisionInv, ReadControlPacket
    <3>2. CASE EvaluateStageSkipDecision(Decider)
      BY <1>0, <1>1, <1>3, <2>0, <3>2, DeciderJudges DEF IInv, DecisionInv
    <3>3. CASE \/ ReadStop(Decider) \/ RecvActivation(Decider) \/ Forward(Decider)
               \/ SendMarker(Decider) \/ SendBypass(Decider) \/ SendActivation(Decider)
      <4>1. accepted' = accepted
        BY <3>3 DEF ReadStop, RecvActivation, Receive, Forward, SendMarker, SendBypass,
                    SendActivation, skipVars, judgeVars
      <4>2. PacketsInOrder' /\ RunCounted'
        BY <1>0, <1>3, <2>0, <3>3, DeciderMoves
      <4> QED
        BY <1>1, <1>3, <2>1, <4>1, <4>2 DEF IInv, DecisionInv
    <3>4. CASE ProbeBypass(Decider) \/ ProbeNormal(Decider)
      <4>1. ~PollsBothSockets(Decider)
        BY StageFacts DEF PollsBothSockets
      <4> QED
        BY <1>0, <1>3, <3>4, <4>1, StageFacts DEF ProbeBypass, ProbeNormal, OwnPlaces
    <3>5. CASE SessionEnds(Decider)
      BY <1>3, <2>7, <3>5 DEF SessionEnds
    <3> QED
      BY <2>4, <3>1, <3>2, <3>3, <3>4, <3>5 DEF WorkerStep
  <2>5. ASSUME NEW w \in Workers, w # Decider, WorkerStep(w)
        PROVE  UNCHANGED decisionVars
    BY <1>0, <1>3, <2>5, OtherStage
  <2>6. CASE UNCHANGED vars
    <3>1. UNCHANGED decisionVars
      BY <2>6 DEF vars, rootVars, skipVars, deltaVars, judgeVars, decisionVars, Queue
    <3> QED
      BY <2>2, <3>1
  <2>8. CASE Fault
    BY <1>0, <2>2, <2>7, <2>8, FaultKinds, RootEnded
  <2> QED
    BY <2>2, <2>3, <2>4, <2>5, <2>6, <2>8 DEF Next
<1> QED
  BY <1>2, <1>3

\* README, --pp-stage-skip-max-consecutive: for every number of stages, target
\* and limit, evaluateStageSkipDecision never accepts more than the limit of
\* steps in a row, through every reset of its counter (tryReadControlPacket)
\* and every mixture of prefill, decode and many-row steps.
THEOREM SkipWindow == Spec => []SkipWindowBound
<1>1. IInv => SkipWindowBound
  BY DEF IInv
<1> QED
  BY <1>1, InvInit, InvStep, PTL DEF Spec

-----------------------------------------------------------------------------
(* The account of a run.                                                   *)

\* The passes behind what stage s sends for step p: the full route, or past
\* the target if the step is skipped.
Route(skip, p, s) == {<<x, p>> : x \in {y \in 0 .. s : ~(y = Target /\ p \in skip)}}

\* What stage s writes to its successor, step by step.
Output(skip, s) ==
  [p \in Nat |-> IF s = Decider /\ p \in skip THEN Marker(p) ELSE Activation(p, Route(skip, p, s))]

\* The root writes stage 1 its packets and activations in turn.
Mixed(plan, skip) ==
  [n \in Nat |-> IF n % 2 = 0 THEN plan[n \div 2] ELSE Output(skip, 0)[n \div 2]]

\* The socket holds entries low .. high - 1 of the stream.
Carries(q, low, high, stream) ==
  /\ Len(q) = high - low
  /\ \A i \in 1 .. Len(q) : q[i] = stream[low + i - 1]

\* Control packets the root has written, the last one of finish() included.
ControlWritten == IF rootPc = "stopped" THEN nextPos + 1 ELSE nextPos

Planned(plan) ==
  /\ \A p \in 0 .. nextPos - 1 :
       plan[p].kind = "ctrl" /\ plan[p].pos = p /\ (plan[p].single => plan[p].decode)
  /\ rootPc = "stopped" => plan[nextPos].kind = "stop"

\* The root: a one-row step is alone in the pipeline, the chunks of a wave
\* are prefill steps.
RootPlace(plan, got, out) ==
  /\ answer.pos = got[0] - 1
  /\ got[0] <= nextPos /\ out[0] <= nextPos /\ nextPos <= out[0] + 1
  /\ rootPc \in {"exec", "waveExec"} => nextPos = out[0] + 1
  /\ rootPc \in {"idle", "recv", "wave", "drain", "stopped"} => nextPos = out[0]
  /\ rootPc \in {"idle", "stopped"} => nextPos = got[0]
  /\ rootPc \in {"exec", "recv"} => nextPos = got[0] + 1
  /\ rootPc \in {"wave", "waveExec", "drain"} =>
       /\ nextPos = got[0] + waveChunks
       /\ \A p \in got[0] .. nextPos - 1 : ~plan[p].single
  /\ waveChunks = 0 => nextPos <= got[0] + 1
  /\ \A p \in got[0] .. nextPos - 1 : plan[p].single => p = got[0] /\ nextPos = p + 1

\* A worker stage: how far it is follows from its place in the loop, its
\* packet is the last one it read, and what is in its pipe went the route.
WorkerPlace(w, plan, rd, got, out, skip) ==
  /\ pc[w] # "failed"
  /\ out[w] <= got[w] /\ got[w] <= rd[w] /\ rd[w] <= out[w] + 1
  /\ pc[w] \in {"ctrl", "bypass"} => rd[w] = out[w]
  /\ pc[w] \in {"recv", "probeNormal"} => rd[w] = got[w] + 1
  /\ pc[w] \in {"forward", "judge", "send"} => got[w] = out[w] + 1
  /\ pc[w] # "stopped" => rd[w] <= nextPos
  /\ pc[w] # "stopped" /\ rd[w] > 0 => cur[w] = plan[rd[w] - 1]
  /\ pc[w] = "forward" => xPipe[w] = Route(skip, out[w], w - 1)
  /\ pc[w] \in {"judge", "send"} => xPipe[w] = Route(skip, out[w], w)
  /\ pc[w] = "bypass" => w = Decider /\ xPipe[w] = Route(skip, out[w] - 1, w)

\* No stage is ahead of one before it; only the target may lag behind the
\* stages after it.
InOrder(got, out) ==
  /\ \A i \in Stages \ {Target}, j \in Stages : i < j => got[j] <= out[i]
  /\ \A i \in Stages \ {Target} : got[0] <= out[i]

\* What the sockets hold.
ControlLines(plan, rd) ==
  \A w \in Workers \ {1} : Carries(chan[<<0, w>>], rd[w], ControlWritten, plan)
FirstLine(plan, rd, got, out, skip) ==
  Carries(chan[<<0, 1>>], rd[1] + got[1], ControlWritten + out[0], Mixed(plan, skip))
ChainLines(got, out, skip) ==
  \A w \in Workers \ {1, Post} :
    Carries(chan[<<w - 1, w>>], got[w], out[w - 1], Output(skip, w - 1))
AnswerLine(got, out, skip) ==
  Carries(chan[<<Last, 0>>], got[0], out[Last], Output(skip, Last))

\* The post-target stage takes the skipped steps from the decision stage and
\* the others from the target, and is never offered both.
PostLine(got, out, due, skip) ==
  /\ Carries(chan[<<Target, Post>>], got[Post], due, Output(skip, Target))
  /\ due <= out[Decider]
  /\ \A p \in got[Post] .. due - 1 : p \notin skip
  /\ out[Target] .. due - 1 \subseteq skip
  /\ due .. out[Target] - 1 \subseteq skip
BypassLine(got, out, skip) ==
  Decider \in Workers =>
    /\ chan[<<Decider, Post>>] # <<>> =>
         /\ chan[<<Decider, Post>>] =
              <<BypassActivation(got[Post], Route(skip, got[Post], Decider))>>
         /\ got[Post] \in skip /\ got[Post] < out[Decider]
         /\ pc[Decider] # "bypass"
    /\ pc[Decider] = "bypass" => out[Decider] = got[Post] + 1 /\ got[Post] \in skip

\* Only one-row decode steps are accepted, by the decision stage, in its
\* place of the loop.
Decided(plan, got, out, skip) ==
  /\ skip = IF Execute THEN accepted ELSE {}
  /\ IF Decider \in Workers
     THEN /\ \A a \in accepted : a < got[Decider] /\ plan[a].single
          /\ pc[Decider] \in {"forward", "judge"} => out[Decider] \notin accepted
          /\ pc[Decider] = "send" => (Skipping(Decider) <=> out[Decider] \in skip)
     ELSE accepted = {}

\* Step p is the first one-row step of its decode phase.
Fresh(plan, p) ==
  /\ plan[p].single
  /\ \A r \in 0 .. p - 1 : plan[r].single => \E x \in r .. p : ~plan[x].decode
Phases(plan, rd, got, out) ==
  /\ firstDecode = -1 =>
       \A r \in 0 .. nextPos - 1 : plan[r].single => \E x \in r .. nextPos - 1 : ~plan[x].decode
  /\ firstDecode # -1 =>
       /\ firstDecode < nextPos /\ Fresh(plan, firstDecode)
       /\ \A x \in firstDecode .. nextPos - 1 : plan[x].decode
  /\ \A a \in accepted : ~Fresh(plan, a)
  /\ Decider \in Workers =>
       /\ hasPrevXPipeRow /\ pc[Decider] # "stopped" =>
            \E r \in 0 .. got[Decider] - 1 :
              plan[r].single /\ \A x \in r .. rd[Decider] - 1 : plan[x].decode
       /\ pc[Decider] \in {"forward", "judge"} /\ hasLastDeltaNorm => ~Fresh(plan, out[Decider])

\* What the KV caches and the answer are made of.
Cached(got, out, skip) ==
  /\ \A s \in Stages \ {Target} : 0 .. out[s] - 1 \subseteq kv[s]
  /\ \A w \in Workers : pc[w] \in {"judge", "send"} => out[w] \in kv[w]
  /\ \A p \in kv[Target] : p < got[Target] /\ p \notin skip
  /\ 0 .. out[Target] - 1 \subseteq kv[Target] \cup skip
  /\ pc[Target] \in {"forward", "send"} => out[Target] \notin skip
  /\ answer.pos >= 0 => answer.via = Route(skip, answer.pos, Last)

Accounts(plan, rd, got, out, due, skip) ==
  /\ plan \in [Nat -> ControlFrames]
  /\ rd \in [Workers -> Nat] /\ got \in [Stages -> Nat] /\ out \in [Stages -> Nat]
  /\ due \in Nat
  /\ skip \in SUBSET Nat

Account(plan, rd, got, out, due, skip) ==
  /\ Planned(plan)
  /\ RootPlace(plan, got, out)
  /\ \A w \in Workers : WorkerPlace(w, plan, rd, got, out, skip)
  /\ InOrder(got, out)
  /\ ControlLines(plan, rd)
  /\ FirstLine(plan, rd, got, out, skip)
  /\ ChainLines(got, out, skip)
  /\ AnswerLine(got, out, skip)
  /\ PostLine(got, out, due, skip)
  /\ BypassLine(got, out, skip)
  /\ Decided(plan, got, out, skip)
  /\ Phases(plan, rd, got, out)
  /\ Cached(got, out, skip)

\* Every reachable state has an account.
Accounted ==
  \E plan, rd, got, out, due, skip :
    Accounts(plan, rd, got, out, due, skip) /\ Account(plan, rd, got, out, due, skip)

RouteInv == IInv /\ Accounted

-----------------------------------------------------------------------------
(* Sockets as windows of a stream.                                         *)

\* What is read first is the stream's next entry, and the window moves on.
LEMMA CarriesTail ==
  ASSUME NEW S, NEW q \in Seq(S), q # <<>>, NEW low \in Nat, NEW high \in Nat, NEW f,
         Carries(q, low, high, f)
  PROVE  /\ low < high /\ Head(q) = f[low]
         /\ Carries(Tail(q), low + 1, high, f)
<1>1. Len(q) \in Nat /\ Len(q) >= 1
  OBVIOUS
<1>2. Head(q) = q[1] /\ Tail(q) \in Seq(S) /\ Len(Tail(q)) = Len(q) - 1
      /\ \A i \in 1 .. Len(q) - 1 : Tail(q)[i] = q[i + 1]
  OBVIOUS
<1>3. q[1] = f[low + 1 - 1] /\ low + 1 - 1 = low
  BY <1>1 DEF Carries
<1>4. \A i \in 1 .. Len(q) - 1 : q[i + 1] = f[low + (i + 1) - 1] /\ low + (i + 1) - 1 = (low + 1) + i - 1
  BY <1>1 DEF Carries
<1> QED
  BY <1>1, <1>2, <1>3, <1>4 DEF Carries

\* Writing the stream's next entry widens the window.
LEMMA CarriesAppend ==
  ASSUME NEW S, NEW q \in Seq(S), NEW low \in Nat, NEW high \in Nat, NEW f, NEW x \in S,
         Carries(q, low, high, f), x = f[high]
  PROVE  Carries(Append(q, x), low, high + 1, f)
<1>1. Len(q) \in Nat /\ low + (Len(q) + 1) - 1 = high
  BY DEF Carries
<1>2. Append(q, x) \in Seq(S) /\ Len(Append(q, x)) = Len(q) + 1
      /\ Append(q, x)[Len(q) + 1] = x
      /\ \A i \in 1 .. Len(q) : Append(q, x)[i] = q[i]
  OBVIOUS
<1>3. \A i \in 1 .. Len(q) + 1 : i = Len(q) + 1 \/ i \in 1 .. Len(q)
  BY <1>1
<1> QED
  BY <1>1, <1>2, <1>3 DEF Carries

\* A window does not see what the stream is outside of it.
LEMMA CarriesSame ==
  ASSUME NEW S, NEW q \in Seq(S), NEW low \in Nat, NEW high \in Nat, NEW f, NEW g,
         \A n \in low .. high - 1 : f[n] = g[n],
         Carries(q, low, high, f)
  PROVE  Carries(q, low, high, g)
<1>1. Len(q) \in Nat
  OBVIOUS
<1>2. \A i \in 1 .. Len(q) : low + i - 1 \in low .. high - 1
  BY <1>1 DEF Carries
<1> QED
  BY <1>2 DEF Carries

\* An empty window is an empty socket, and a window is never negative.
LEMMA CarriesNone ==
  ASSUME NEW S, NEW q \in Seq(S), NEW low \in Nat, NEW high \in Nat, NEW f
  PROVE  /\ Carries(q, low, high, f) => low <= high
         /\ Carries(q, low, high, f) /\ q = <<>> => low = high
         /\ Carries(q, low, high, f) /\ low = high => q = <<>>
         /\ q = <<>> /\ low = high => Carries(q, low, high, f)
<1>1. Len(q) \in Nat /\ (Len(q) = 0 <=> q = <<>>)
  OBVIOUS
<1> QED
  BY <1>1 DEF Carries

\* What the writes and reads do to the sockets.
LEMMA SocketWrite ==
  ASSUME SocketsOK(chan), NEW i \in Stages, NEW j \in Stages, NEW f
  PROVE  /\ Written(i, j, f)[<<i, j>>] = Append(chan[<<i, j>>], f)
         /\ ReadFrom(i, j)[<<i, j>>] = Tail(chan[<<i, j>>])
         /\ \A k \in Stages, l \in Stages :
              (k # i \/ l # j) => /\ Written(i, j, f)[<<k, l>>] = chan[<<k, l>>]
                                  /\ ReadFrom(i, j)[<<k, l>>] = chan[<<k, l>>]
<1>1. <<i, j>> \in Stages \X Stages
  OBVIOUS
<1>2. \A k \in Stages, l \in Stages :
        (k # i \/ l # j) => <<k, l>> \in Stages \X Stages /\ <<k, l>> # <<i, j>>
  OBVIOUS
<1> QED
  BY <1>1, <1>2 DEF SocketsOK, Written, ReadFrom

LEMMA SocketBroadcast ==
  ASSUME NEW f
  PROVE  /\ \A w \in Workers : Broadcast(f)[<<0, w>>] = Append(chan[<<0, w>>], f)
         /\ \A i \in Workers, j \in Stages : Broadcast(f)[<<i, j>>] = chan[<<i, j>>]
<1>1. \A w \in Workers : <<0, w>> \in Stages \X Stages
  BY StageFacts
<1>2. \A i \in Workers, j \in Stages : <<i, j>> \in Stages \X Stages /\ i # 0
  BY StageFacts
<1> QED
  BY <1>1, <1>2 DEF Broadcast

-----------------------------------------------------------------------------
(* The streams.                                                            *)

Frames == ControlFrames \cup ActFrames

LEMMA Ranges ==
  /\ PpSize \in Int /\ Target \in Int /\ 1 <= Target /\ Target <= PpSize - 2
  /\ Workers = 1 .. PpSize - 1 /\ Stages = 0 .. PpSize - 1
  /\ Last = PpSize - 1 /\ Decider = Target - 1 /\ Post = Target + 1
BY PipelineAssumption DEF Workers, Stages, Last, Decider, Post

\* What a stage sends is an activation, of its step, that the stages up to it
\* worked on.
LEMMA OutputEntry ==
  ASSUME NEW skip, NEW s \in Stages, NEW p \in Nat
  PROVE  /\ Route(skip, p, s) \in SUBSET Passes
         /\ Output(skip, s)[p] \in ActFrames
         /\ Output(skip, s)[p] = IF s = Decider /\ p \in skip THEN Marker(p)
                                 ELSE Activation(p, Route(skip, p, s))
<1>1. \A x \in 0 .. s : x \in Stages
  BY Ranges
<1>2. Route(skip, p, s) \in SUBSET Passes
  BY <1>1 DEF Route, Passes
<1> QED
  BY <1>2, FramesMade DEF Output

\* The stream of the first socket.
LEMMA MixedEntry ==
  ASSUME NEW plan, NEW skip, NEW p \in Nat, NEW n
  PROVE  /\ n = p + p => Mixed(plan, skip)[n] = plan[p]
         /\ n = p + p + 1 => Mixed(plan, skip)[n] = Output(skip, 0)[p]
<1>1. p + p \in Nat /\ (p + p) % 2 = 0 /\ (p + p) \div 2 = p
  OBVIOUS
<1>2. p + p + 1 \in Nat /\ (p + p + 1) % 2 = 1 /\ (p + p + 1) \div 2 = p
  OBVIOUS
<1> QED
  BY <1>1, <1>2 DEF Mixed

\* Its odd entries are the activations.
LEMMA MixedSent ==
  ASSUME NEW plan, NEW skip, NEW p \in Nat
  PROVE  Mixed(plan, skip)[p + p + 1] = Output(skip, 0)[p]
<1> PICK n : n = p + p + 1
  OBVIOUS
<1>1. Mixed(plan, skip)[n] = Output(skip, 0)[p]
  BY MixedEntry
<1> QED
  BY <1>1

\* A stage that computes adds its pass, and past the target nothing is missing
\* that the full route would have had.
LEMMA RouteStep ==
  ASSUME NEW skip, NEW w \in Workers, NEW p \in Nat
  PROVE  /\ ~(w = Target /\ p \in skip) =>
              Route(skip, p, w - 1) \cup {<<w, p>>} = Route(skip, p, w)
         /\ w = Target /\ p \in skip => Route(skip, p, w - 1) = Route(skip, p, w)
         /\ Route(skip, p, 0) = {<<0, p>>}
<1>1. 0 .. w = (0 .. w - 1) \cup {w} /\ w \notin 0 .. w - 1 /\ 0 .. 0 = {0} /\ Target # 0
  BY Ranges
<1> QED
  BY <1>1 DEF Route

-----------------------------------------------------------------------------
(* What every step below starts from.                                      *)

Explained(plan, rd, got, out, due, skip) ==
  /\ IInv
  /\ Accounts(plan, rd, got, out, due, skip)
  /\ Account(plan, rd, got, out, due, skip)

LEMMA StateTypes ==
  ASSUME IInv
  PROVE  /\ SocketsOK(chan) /\ nextPos \in Nat /\ waveChunks \in Nat
         /\ \A i, j \in Stages : chan[<<i, j>>] \in Seq(Frames)
         /\ pc \in [Workers -> WorkerStates] /\ cur \in [Workers -> ControlFrames]
         /\ xPipe \in [Workers -> SUBSET Passes] /\ kv \in [Stages -> SUBSET Nat]
         /\ rootPc \in RootStates /\ accepted \in SUBSET Nat
         /\ ControlWritten \in Nat /\ firstDecode \in Nat \cup {-1}
         /\ answer.pos \in Nat \cup {-1}
<1>1. TypeOK
  BY DEF IInv, TypeInv
<1>2. nextPos \in Nat /\ waveChunks \in Nat
  BY <1>1, PipelineAssumption DEF TypeOK
<1> QED
  BY <1>1, <1>2 DEF TypeOK, SocketsOK, Frames, ControlWritten

\* The counters of the stages are natural numbers.
LEMMA Counters ==
  ASSUME NEW plan, NEW rd, NEW got, NEW out, NEW due, NEW skip,
         Accounts(plan, rd, got, out, due, skip)
  PROVE  /\ \A w \in Workers : rd[w] \in Nat
         /\ \A s \in Stages : got[s] \in Nat /\ out[s] \in Nat
         /\ \A p \in Nat : plan[p] \in ControlFrames
BY DEF Accounts

-----------------------------------------------------------------------------
(* Steps that leave the account as it is: a process ends, a probe moves on *)
(* to the other socket, the root starts to drain its wave.                 *)

LEMMA PlaceOnly ==
  ASSUME NEW plan, NEW rd, NEW got, NEW out, NEW due, NEW skip,
         Explained(plan, rd, got, out, due, skip),
         NEW w \in Workers, NEW to,
         \/ pc[w] # "stopped" /\ to = "ended"
         \/ pc[w] \in {"recv", "probeNormal"} /\ to \in {"recv", "probeNormal"},
         pc' = [pc EXCEPT ![w] = to],
         UNCHANGED <<mode, rootVars, chan, cur, xPipe, kv, skipVars>>
  PROVE  Account(plan, rd, got, out, due, skip)'
<1>0. /\ pc \in [Workers -> WorkerStates] /\ Decider # 0 => Decider \in Workers
      /\ Target \in Workers
  BY StateTypes, Ranges DEF Explained
<1>1. Planned(plan)' /\ RootPlace(plan, got, out)' /\ InOrder(got, out)'
  BY DEF Explained, Account, Planned, RootPlace, InOrder, rootVars
<1>2. ASSUME NEW v \in Workers
      PROVE  WorkerPlace(v, plan, rd, got, out, skip)'
  <2>1. WorkerPlace(v, plan, rd, got, out, skip)
    BY DEF Explained, Account
  <2> QED
    BY <1>0, <2>1 DEF WorkerPlace, rootVars
<1>3. ControlLines(plan, rd)' /\ FirstLine(plan, rd, got, out, skip)'
      /\ ChainLines(got, out, skip)' /\ AnswerLine(got, out, skip)' /\ PostLine(got, out, due, skip)'
  BY DEF Explained, Account, ControlLines, FirstLine, ChainLines, AnswerLine, PostLine,
         ControlWritten, rootVars
<1>4. BypassLine(got, out, skip)'
  BY <1>0 DEF Explained, Account, BypassLine
<1>5. Decided(plan, got, out, skip)'
  BY <1>0 DEF Explained, Account, Decided, Execute, Skipping, DecodeSingle, skipVars, judgeVars
<1>6. Phases(plan, rd, got, out)'
  BY <1>0 DEF Explained, Account, Phases, rootVars, skipVars, judgeVars, deltaVars
<1>7. Cached(got, out, skip)'
  BY <1>0 DEF Explained, Account, Cached, rootVars
<1> QED
  BY <1>1, <1>2, <1>3, <1>4, <1>5, <1>6, <1>7 DEF Account

LEMMA RootPlaceOnly ==
  ASSUME NEW plan, NEW rd, NEW got, NEW out, NEW due, NEW skip,
         Explained(plan, rd, got, out, due, skip),
         \/ rootPc # "stopped" /\ RootEnds
         \/ RootStartDrain
  PROVE  Account(plan, rd, got, out, due, skip)'
<1>1. /\ UNCHANGED <<mode, nextPos, waveChunks, answer, firstDecode,
                     chan, pc, cur, xPipe, kv, skipVars>>
      /\ rootPc # "stopped" /\ rootPc' # "stopped"
      /\ rootPc' = "ended" \/ (rootPc = "wave" /\ rootPc' = "drain")
  BY DEF RootEnds, RootStartDrain
<1>2. RootPlace(plan, got, out)'
  BY <1>1 DEF Explained, Account, RootPlace
<1>3. Planned(plan)' /\ InOrder(got, out)'
      /\ \A w \in Workers : WorkerPlace(w, plan, rd, got, out, skip)'
  BY <1>1 DEF Explained, Account, Planned, InOrder, WorkerPlace
<1>4. ControlLines(plan, rd)' /\ FirstLine(plan, rd, got, out, skip)'
      /\ ChainLines(got, out, skip)' /\ AnswerLine(got, out, skip)' /\ PostLine(got, out, due, skip)'
      /\ BypassLine(got, out, skip)'
  BY <1>1 DEF Explained, Account, ControlLines, FirstLine, ChainLines, AnswerLine, PostLine,
         BypassLine, ControlWritten
<1>5. Decided(plan, got, out, skip)' /\ Phases(plan, rd, got, out)' /\ Cached(got, out, skip)'
  BY <1>1 DEF Explained, Account, Decided, Execute, Skipping, DecodeSingle, Phases, Cached,
         skipVars, judgeVars, deltaVars
<1> QED
  BY <1>1, <1>2, <1>3, <1>4, <1>5 DEF Account

-----------------------------------------------------------------------------
(* Steps of the root.                                                      *)

\* No stage is ahead of the root.
LEMMA BehindRoot ==
  ASSUME NEW plan, NEW rd, NEW got, NEW out, NEW due, NEW skip,
         Explained(plan, rd, got, out, due, skip)
  PROVE  \A s \in Stages : got[s] <= nextPos /\ out[s] <= nextPos
<1>1. got[0] <= nextPos /\ out[0] <= nextPos
  BY DEF Explained, Account, RootPlace
<1>2. \A w \in Workers : got[w] <= out[0] /\ out[w] <= got[w]
  BY Ranges DEF Explained, Account, InOrder, WorkerPlace
<1> QED
  <2>1. nextPos \in Nat /\ \A s \in Stages : got[s] \in Nat /\ out[s] \in Nat
    BY StateTypes, Counters DEF Explained
  <2>2. 0 \in Stages /\ \A s \in Stages : s = 0 \/ s \in Workers
    BY Ranges
  <2>3. ASSUME NEW w \in Stages, w \in Workers
        PROVE  got[w] <= nextPos /\ out[w] <= nextPos
    <3>1. PICK n, o, g, p \in Nat : n = nextPos /\ o = out[0] /\ g = got[w] /\ p = out[w]
      BY <2>1, <2>2
    <3>2. o <= n /\ g <= o /\ p <= g
      BY <1>1, <1>2, <2>3, <3>1
    <3> QED
      BY ONLY <3>1, <3>2
  <2> QED
    BY <1>1, <2>2, <2>3

\* Whether a step is the first of its phase depends on the packets up to it.
LEMMA FreshSame ==
  ASSUME NEW plan, NEW next, NEW p \in Nat, \A x \in 0 .. p : next[x] = plan[x]
  PROVE  Fresh(next, p) <=> Fresh(plan, p)
<1>1. next[p] = plan[p] /\ \A r \in 0 .. p - 1 : next[r] = plan[r]
  OBVIOUS
<1>2. \A r \in 0 .. p - 1 : (\E x \in r .. p : ~next[x].decode) <=> (\E x \in r .. p : ~plan[x].decode)
  OBVIOUS
<1> QED
  BY <1>1, <1>2 DEF Fresh

\* A control packet widens the windows of the control sockets.
LEMMA BroadcastLines ==
  ASSUME NEW plan, NEW rd, NEW got, NEW out, NEW due, NEW skip,
         Explained(plan, rd, got, out, due, skip),
         NEW packet \in ControlFrames, NEW next, next = [plan EXCEPT ![nextPos] = packet],
         chan' = Broadcast(packet), pc' = pc,
         ControlWritten = nextPos, ControlWritten' = nextPos + 1, out[0] = nextPos
  PROVE  /\ ControlLines(next, rd)' /\ FirstLine(next, rd, got, out, skip)'
         /\ ChainLines(got, out, skip)' /\ AnswerLine(got, out, skip)'
         /\ PostLine(got, out, due, skip)' /\ BypassLine(got, out, skip)'
<1>0. nextPos \in Nat /\ SocketsOK(chan)
  BY StateTypes DEF Explained
<1>1. packet \in Frames
  BY DEF Frames
<1>2. /\ next \in [Nat -> ControlFrames] /\ next[nextPos] = packet
      /\ \A p \in Nat : p # nextPos => next[p] = plan[p]
  BY <1>0 DEF Explained, Accounts
<1>8. ControlLines(next, rd)'
  <2>1. ASSUME NEW w \in Workers \ {1}
        PROVE  Carries(chan'[<<0, w>>], rd[w], nextPos + 1, next)
    <3>1. Carries(chan[<<0, w>>], rd[w], nextPos, plan) /\ rd[w] \in Nat
      BY <1>0, Counters DEF Explained, Account, ControlLines
    <3>2. chan[<<0, w>>] \in Seq(Frames) /\ packet \in Frames
      BY <1>1, StateTypes, StageFacts DEF Explained, Frames
    <3>5. \A n \in rd[w] .. nextPos - 1 : plan[n] = next[n]
      BY <1>0, <1>2, <3>1
    <3>6. nextPos \in Nat
      BY <1>0
    <3>3. Carries(chan[<<0, w>>], rd[w], nextPos, next)
      BY <3>1, <3>2, <3>5, <3>6, CarriesSame
    <3>4. chan'[<<0, w>>] = Append(chan[<<0, w>>], packet)
      BY <1>0, SocketBroadcast
    <3> QED
      <4>1. packet = next[nextPos]
        BY <1>2
      <4>2. Carries(Append(chan[<<0, w>>], packet), rd[w], nextPos + 1, next)
        BY <3>1, <3>2, <3>3, <3>6, <4>1, CarriesAppend
      <4> QED
        BY <3>4, <4>2
  <2> QED
    BY <1>0, <2>1 DEF ControlLines
<1>9. FirstLine(next, rd, got, out, skip)'
  <2> DEFINE low == rd[1] + got[1]
             high == nextPos + nextPos
  <2>1. low \in Nat /\ high \in Nat
    BY <1>0, Counters, StageFacts DEF Explained
  <2>2. Carries(chan[<<0, 1>>], low, high, Mixed(plan, skip))
    BY <1>0 DEF Explained, Account, FirstLine
  <2>3. chan[<<0, 1>>] \in Seq(Frames) /\ packet \in Frames
    BY <1>1, StateTypes, StageFacts DEF Explained, Frames
  <2>4. \A n \in low .. high - 1 : Mixed(plan, skip)[n] = Mixed(next, skip)[n]
    <3>1. \A n \in Nat : n < high => n \div 2 \in Nat /\ n \div 2 < nextPos
      BY <1>0
    <3> QED
      BY <1>2, <2>1, <3>1 DEF Mixed
  <2>5. Mixed(next, skip)[high] = packet
    <3>1. nextPos \in Nat
      BY <1>0
    <3>2. Mixed(next, skip)[nextPos + nextPos] = next[nextPos]
      BY ONLY <3>1, MixedEntry
    <3> QED
      BY <1>2, <3>2
  <2>6. Carries(chan[<<0, 1>>], low, high, Mixed(next, skip))
    <3> HIDE DEF low, high
    <3> QED
      BY <2>1, <2>2, <2>3, <2>4, CarriesSame
  <2>7. chan'[<<0, 1>>] = Append(chan[<<0, 1>>], packet)
    BY <1>0, SocketBroadcast, StageFacts
  <2>8. Carries(chan'[<<0, 1>>], low, high + 1, Mixed(next, skip))
    <3> HIDE DEF low, high
    <3> QED
      BY <2>1, <2>3, <2>5, <2>6, <2>7, CarriesAppend
  <2>9. high + 1 = ControlWritten' + out[0]
    BY <1>0
  <2> QED
    BY <2>8, <2>9 DEF FirstLine
<1>10. ChainLines(got, out, skip)' /\ AnswerLine(got, out, skip)'
       /\ PostLine(got, out, due, skip)' /\ BypassLine(got, out, skip)'
  <2>1. \A i \in Workers, j \in Stages : chan'[<<i, j>>] = chan[<<i, j>>]
    BY <1>0, SocketBroadcast
  <2>2. \A w \in Workers \ {1, Post} : w - 1 \in Workers /\ w \in Stages
    BY Ranges
  <2>3. ChainLines(got, out, skip)'
    BY <2>1, <2>2 DEF Explained, Account, ChainLines
  <2>4. AnswerLine(got, out, skip)' /\ PostLine(got, out, due, skip)'
    BY <2>1, StageFacts DEF Explained, Account, AnswerLine, PostLine
  <2>5. BypassLine(got, out, skip)'
    BY <1>0, <2>1, StageFacts DEF Explained, Account, BypassLine
  <2> QED
    BY <2>3, <2>4, <2>5
<1> QED
  BY <1>8, <1>9, <1>10

\* forward() and forwardPrefillNoWait() write a packet to every stage.
LEMMA StepStarted ==
  ASSUME NEW plan, NEW rd, NEW got, NEW out, NEW due, NEW skip,
         Explained(plan, rd, got, out, due, skip),
         NEW decode \in BOOLEAN, NEW single \in BOOLEAN, single => decode,
         StartStep(decode, single),
         \/ rootPc = "idle" /\ rootPc' = "exec" /\ waveChunks' = waveChunks
         \/ /\ rootPc \in {"idle", "wave"} /\ ~single
            /\ rootPc' = "waveExec" /\ waveChunks' = waveChunks + 1
  PROVE  Accounted'
<1> PICK packet : packet = Packet(nextPos, decode, single)
  OBVIOUS
<1> PICK next : next = [plan EXCEPT ![nextPos] = packet]
  OBVIOUS
<1>0. /\ nextPos \in Nat /\ nextPos' = nextPos + 1 /\ nextPos' \in Nat
      /\ ControlWritten = nextPos /\ ControlWritten' = nextPos + 1
      /\ out[0] = nextPos /\ SocketsOK(chan) /\ chan' = Broadcast(packet)
      /\ UNCHANGED <<mode, answer, pc, cur, xPipe, kv, skipVars>>
  BY StateTypes DEF Explained, Account, RootPlace, StartStep, ControlWritten
<1>1. /\ packet \in ControlFrames /\ packet.kind = "ctrl" /\ packet.pos = nextPos
      /\ packet.decode = decode /\ packet.single = single
  BY <1>0, FramesMade DEF Packet
<1>2. /\ next \in [Nat -> ControlFrames] /\ next[nextPos] = packet
      /\ \A p \in Nat : p # nextPos => next[p] = plan[p]
  BY <1>0, <1>1 DEF Explained, Accounts
<1>3. Accounts(next, rd, got, out, due, skip)
  BY <1>2 DEF Explained, Accounts
<1>4. Planned(next)'
  <2>1. ASSUME NEW p \in 0 .. nextPos
        PROVE  next[p].kind = "ctrl" /\ next[p].pos = p /\ (next[p].single => next[p].decode)
    BY <1>0, <1>1, <1>2 DEF Explained, Account, Planned
  <2> QED
    BY <2>1, <1>0 DEF Planned
<1>5. RootPlace(next, got, out)'
  <2>1. got[0] \in Nat /\ waveChunks \in Nat
    BY Counters, StateTypes, StageFacts DEF Explained
  <2>2. RootPlace(plan, got, out) /\ WaveCounted
    BY DEF Explained, Account, IInv, TypeInv
  <2>3. CASE rootPc = "idle" /\ rootPc' = "exec" /\ waveChunks' = waveChunks
    BY <1>0, <1>2, <2>1, <2>2, <2>3 DEF RootPlace, WaveCounted
  <2>4. CASE /\ rootPc \in {"idle", "wave"} /\ ~single
             /\ rootPc' = "waveExec" /\ waveChunks' = waveChunks + 1
    <3>1. got[0] + waveChunks = nextPos /\ \A p \in got[0] .. nextPos - 1 : ~plan[p].single
      BY <1>0, <2>1, <2>2, <2>4 DEF RootPlace, WaveCounted
    <3>2. \A p \in got[0] .. nextPos : ~next[p].single
      BY <1>0, <1>1, <1>2, <2>1, <2>4, <3>1
    <3> QED
      BY <1>0, <2>1, <2>2, <2>4, <3>1, <3>2 DEF RootPlace
  <2> QED
    BY <2>3, <2>4
<1>6. ASSUME NEW w \in Workers
      PROVE  WorkerPlace(w, next, rd, got, out, skip)'
  <2>1. WorkerPlace(w, plan, rd, got, out, skip) /\ rd[w] \in Nat
    BY Counters DEF Explained, Account
  <2>2. pc[w] # "stopped" /\ rd[w] > 0 => next[rd[w] - 1] = plan[rd[w] - 1]
    BY <1>0, <1>2, <2>1 DEF WorkerPlace
  <2> QED
    BY <1>0, <2>1, <2>2 DEF WorkerPlace
<1>7. InOrder(got, out)'
  BY DEF Explained, Account, InOrder
<1>8. /\ ControlLines(next, rd)' /\ FirstLine(next, rd, got, out, skip)'
      /\ ChainLines(got, out, skip)' /\ AnswerLine(got, out, skip)'
      /\ PostLine(got, out, due, skip)' /\ BypassLine(got, out, skip)'
  BY <1>0, <1>1, BroadcastLines
<1>11. \A a \in accepted : a \in Nat /\ a < nextPos
  <2>1. \A s \in Stages : got[s] \in Nat /\ got[s] <= nextPos
    BY BehindRoot, Counters DEF Explained
  <2>2. Decided(plan, got, out, skip)
    BY DEF Explained, Account
  <2>3. accepted \in SUBSET Nat
    BY StateTypes DEF Explained
  <2>4. \A a \in accepted : Decider \in Stages /\ a < got[Decider]
    BY <2>2, StageFacts DEF Decided
  <2>5. nextPos \in Nat
    BY StateTypes DEF Explained
  <2>6. ASSUME NEW a \in accepted
        PROVE  a \in Nat /\ a < nextPos
    <3>1. PICK g \in Nat : g <= nextPos /\ a < g
      BY <2>1, <2>4
    <3> QED
      BY <2>3, <2>5, <3>1
  <2> QED
    BY <2>6
<1>12. Decided(next, got, out, skip)'
  <2>1. \A a \in accepted : next[a] = plan[a]
    BY <1>0, <1>2, <1>11
  <2> QED
    BY <1>0, <2>1 DEF Explained, Account, Decided, Execute, Skipping, DecodeSingle, skipVars,
       judgeVars
<1>13. Phases(next, rd, got, out)'
  <2>1. \A p \in Nat : p < nextPos => (Fresh(next, p) <=> Fresh(plan, p))
    <3>1. ASSUME NEW p \in Nat, p < nextPos
          PROVE  Fresh(next, p) <=> Fresh(plan, p)
      <4>1. \A x \in 0 .. p : next[x] = plan[x]
        BY <1>0, <1>2, <3>1
      <4> QED
        BY <4>1, FreshSame
    <3> QED
      BY <3>1
  <2>2. Phases(plan, rd, got, out)
    BY DEF Explained, Account
  <2>3. \A a \in accepted' : ~Fresh(next, a)
    BY <1>0, <1>11, <2>1, <2>2 DEF Phases, skipVars, judgeVars
  <2>4. firstDecode' = IF ~decode THEN -1
                       ELSE IF single /\ firstDecode = -1 THEN nextPos ELSE firstDecode
    BY DEF StartStep
  <2>5. firstDecode \in Nat \cup {-1}
    BY StateTypes DEF Explained
  <2>6. ASSUME firstDecode' = -1, NEW r \in 0 .. nextPos, next[r].single
        PROVE  \E x \in r .. nextPos : ~next[x].decode
    <3>1. CASE ~decode
      BY <1>0, <1>1, <1>2, <3>1
    <3>2. CASE decode
      <4>1. firstDecode = -1 /\ ~single
        BY <1>0, <2>4, <2>5, <2>6, <3>2
      <4>2. r \in 0 .. nextPos - 1 /\ plan[r].single
        BY <1>0, <1>1, <1>2, <2>6, <4>1
      <4>3. PICK x \in r .. nextPos - 1 : ~plan[x].decode
        BY <2>2, <4>1, <4>2 DEF Phases
      <4> QED
        BY <1>0, <1>2, <4>2, <4>3
    <3> QED
      BY <3>1, <3>2
  <2>7. ASSUME firstDecode' # -1
        PROVE  /\ firstDecode' < nextPos + 1 /\ Fresh(next, firstDecode')
               /\ \A x \in firstDecode' .. nextPos : next[x].decode
    <3>1. decode
      BY <2>4, <2>7
    <3>2. CASE firstDecode # -1
      <4>1. firstDecode' = firstDecode /\ firstDecode \in Nat /\ firstDecode < nextPos
        BY <2>2, <2>4, <2>5, <3>1, <3>2 DEF Phases
      <4>2. Fresh(next, firstDecode)
        BY <2>1, <2>2, <3>2, <4>1 DEF Phases
      <4>3. \A x \in firstDecode .. nextPos - 1 : plan[x].decode
        BY <2>2, <3>2 DEF Phases
      <4>4. \A x \in firstDecode .. nextPos : next[x].decode
        <5>1. ASSUME NEW x \in firstDecode .. nextPos
              PROVE  next[x].decode
          <6>1. CASE x = nextPos
            BY <1>1, <1>2, <3>1, <6>1
          <6>2. CASE x # nextPos
            <7>1. x \in Nat /\ x \in firstDecode .. nextPos - 1
              BY <1>0, <4>1, <6>2
            <7> QED
              BY <1>2, <4>3, <6>2, <7>1
          <6> QED
            BY <6>1, <6>2
        <5> QED
          BY <5>1
      <4> QED
        BY <1>0, <4>1, <4>2, <4>4
    <3>3. CASE firstDecode = -1
      <4>1. firstDecode' = nextPos /\ single
        BY <2>4, <2>7, <3>1, <3>3
      <4>2. ASSUME NEW r \in 0 .. nextPos - 1, next[r].single
            PROVE  \E x \in r .. nextPos : ~next[x].decode
        <5>1. plan[r].single
          BY <1>0, <1>2, <4>2
        <5>2. PICK x \in r .. nextPos - 1 : ~plan[x].decode
          BY <2>2, <3>3, <5>1 DEF Phases
        <5> QED
          BY <1>0, <1>2, <5>2
      <4>3. Fresh(next, nextPos)
        <5>1. next[nextPos].single
          BY <1>1, <1>2, <4>1
        <5> QED
          BY <4>2, <5>1 DEF Fresh
      <4>4. \A x \in nextPos .. nextPos : x = nextPos
        BY <1>0
      <4>5. next[nextPos].decode
        BY <1>1, <1>2, <3>1
      <4>6. nextPos < nextPos + 1
        BY <1>0
      <4> QED
        BY <4>1, <4>3, <4>4, <4>5, <4>6
    <3> QED
      BY <3>2, <3>3
  <2>8. ASSUME Decider \in Workers
        PROVE  /\ hasPrevXPipeRow /\ pc[Decider] # "stopped" =>
                    \E r \in 0 .. got[Decider] - 1 :
                      next[r].single /\ \A x \in r .. rd[Decider] - 1 : next[x].decode
               /\ pc[Decider] \in {"forward", "judge"} /\ hasLastDeltaNorm =>
                    ~Fresh(next, out[Decider])
    <3>1. /\ rd[Decider] \in Nat /\ got[Decider] \in Nat /\ out[Decider] \in Nat
          /\ got[Decider] <= nextPos
          /\ WorkerPlace(Decider, plan, rd, got, out, skip)
      BY <2>8, Counters, BehindRoot, StageFacts DEF Explained, Account
    <3>2. ASSUME hasPrevXPipeRow, pc[Decider] # "stopped"
          PROVE  \E r \in 0 .. got[Decider] - 1 :
                   next[r].single /\ \A x \in r .. rd[Decider] - 1 : next[x].decode
      <4>1. rd[Decider] <= nextPos
        BY <3>1, <3>2 DEF WorkerPlace
      <4>2. PICK r \in 0 .. got[Decider] - 1 :
              plan[r].single /\ \A x \in r .. rd[Decider] - 1 : plan[x].decode
        BY <2>2, <2>8, <3>2 DEF Phases
      <4>3. next[r] = plan[r] /\ \A x \in r .. rd[Decider] - 1 : next[x] = plan[x]
        BY <1>0, <1>2, <3>1, <4>1, <4>2
      <4> QED
        BY <4>2, <4>3
    <3>3. ASSUME pc[Decider] \in {"forward", "judge"}, hasLastDeltaNorm
          PROVE  ~Fresh(next, out[Decider])
      <4>1. out[Decider] < nextPos
        BY <1>0, <3>1, <3>3 DEF WorkerPlace
      <4> QED
        BY <2>1, <2>2, <2>8, <3>1, <3>3, <4>1 DEF Phases
    <3> QED
      BY <3>2, <3>3
  <2>9. /\ nextPos' - 1 = nextPos /\ pc' = pc
        /\ hasPrevXPipeRow' = hasPrevXPipeRow /\ hasLastDeltaNorm' = hasLastDeltaNorm
    BY <1>0 DEF skipVars, deltaVars
  <2>10. firstDecode' = -1 =>
           \A r \in 0 .. nextPos' - 1 :
             next[r].single => \E x \in r .. nextPos' - 1 : ~next[x].decode
    BY <2>6, <2>9
  <2>11. firstDecode' # -1 =>
           /\ firstDecode' < nextPos' /\ Fresh(next, firstDecode')
           /\ \A x \in firstDecode' .. nextPos' - 1 : next[x].decode
    BY <1>0, <2>7, <2>9
  <2> QED
    BY <2>3, <2>8, <2>9, <2>10, <2>11 DEF Phases
<1>14. Cached(got, out, skip)'
  BY <1>0 DEF Explained, Account, Cached
<1> QED
  BY <1>3, <1>4, <1>5, <1>6, <1>7, <1>8, <1>12, <1>13, <1>14 DEF Account, Accounted

\* finish() writes every stage the packet that stops it.
LEMMA FinishWritten ==
  ASSUME NEW plan, NEW rd, NEW got, NEW out, NEW due, NEW skip,
         Explained(plan, rd, got, out, due, skip), RootFinish
  PROVE  Accounted'
<1> PICK next : next = [plan EXCEPT ![nextPos] = StopPacket]
  OBVIOUS
<1>0. /\ nextPos \in Nat /\ nextPos' = nextPos /\ rootPc = "idle" /\ rootPc' = "stopped"
      /\ ControlWritten = nextPos /\ ControlWritten' = nextPos + 1
      /\ out[0] = nextPos /\ chan' = Broadcast(StopPacket)
      /\ UNCHANGED <<mode, waveChunks, answer, firstDecode, pc, cur, xPipe, kv, skipVars>>
  BY StateTypes DEF Explained, Account, RootPlace, RootFinish, ControlWritten
<1>1. StopPacket \in ControlFrames /\ StopPacket.kind = "stop"
  BY FramesMade DEF StopPacket, ControlFrames
<1>2. /\ next \in [Nat -> ControlFrames] /\ next[nextPos] = StopPacket
      /\ \A p \in Nat : p # nextPos => next[p] = plan[p]
  BY <1>0, <1>1 DEF Explained, Accounts
<1>3. Accounts(next, rd, got, out, due, skip)
  BY <1>2 DEF Explained, Accounts
<1>4. \A p \in 0 .. nextPos - 1 : p \in Nat /\ p < nextPos /\ next[p] = plan[p]
  BY <1>0, <1>2
<1>5. Planned(next)'
  BY <1>0, <1>1, <1>2, <1>4 DEF Explained, Account, Planned
<1>6. RootPlace(next, got, out)'
  <2>1. got[0] \in Nat /\ got[0] = nextPos
    BY <1>0, Counters, StageFacts DEF Explained, Account, RootPlace
  <2>2. \A p \in got[0] .. nextPos - 1 : FALSE
    BY <1>0, <2>1
  <2> QED
    BY <1>0, <2>1, <2>2 DEF Explained, Account, RootPlace
<1>7. ASSUME NEW w \in Workers
      PROVE  WorkerPlace(w, next, rd, got, out, skip)'
  <2>1. WorkerPlace(w, plan, rd, got, out, skip) /\ rd[w] \in Nat
    BY Counters DEF Explained, Account
  <2>2. pc[w] # "stopped" /\ rd[w] > 0 => next[rd[w] - 1] = plan[rd[w] - 1]
    BY <1>0, <1>2, <2>1 DEF WorkerPlace
  <2> QED
    BY <1>0, <2>1, <2>2 DEF WorkerPlace
<1>8. /\ ControlLines(next, rd)' /\ FirstLine(next, rd, got, out, skip)'
      /\ ChainLines(got, out, skip)' /\ AnswerLine(got, out, skip)'
      /\ PostLine(got, out, due, skip)' /\ BypassLine(got, out, skip)'
  BY <1>0, <1>1, BroadcastLines
<1>9. InOrder(got, out)' /\ Cached(got, out, skip)'
  BY <1>0 DEF Explained, Account, InOrder, Cached
<1>10. \A a \in accepted : a \in Nat /\ a < nextPos
  <2>1. \A s \in Stages : got[s] \in Nat /\ got[s] <= nextPos
    BY BehindRoot, Counters DEF Explained
  <2>2. Decided(plan, got, out, skip)
    BY DEF Explained, Account
  <2>3. accepted \in SUBSET Nat
    BY StateTypes DEF Explained
  <2>4. \A a \in accepted : Decider \in Stages /\ a < got[Decider]
    BY <2>2, StageFacts DEF Decided
  <2>5. nextPos \in Nat
    BY StateTypes DEF Explained
  <2>6. ASSUME NEW a \in accepted
        PROVE  a \in Nat /\ a < nextPos
    <3>1. PICK g \in Nat : g <= nextPos /\ a < g
      BY <2>1, <2>4
    <3> QED
      BY <2>3, <2>5, <3>1
  <2> QED
    BY <2>6
<1>11. Decided(next, got, out, skip)'
  <2>1. \A a \in accepted : next[a] = plan[a]
    BY <1>0, <1>2, <1>10
  <2> QED
    BY <1>0, <2>1 DEF Explained, Account, Decided, Execute, Skipping, DecodeSingle, skipVars,
       judgeVars
<1>12. ASSUME NEW p \in Nat, p < nextPos
       PROVE  Fresh(next, p) <=> Fresh(plan, p)
  <2>1. \A x \in 0 .. p : next[x] = plan[x]
    BY <1>0, <1>2, <1>12
  <2> QED
    BY <2>1, FreshSame
<1>13. Phases(next, rd, got, out)'
  <2>1. Phases(plan, rd, got, out)
    BY DEF Explained, Account
  <2>2. /\ UNCHANGED <<nextPos, firstDecode, accepted, pc, hasPrevXPipeRow, hasLastDeltaNorm>>
        /\ firstDecode \in Nat \cup {-1}
    BY <1>0, StateTypes DEF Explained, skipVars, deltaVars, judgeVars
  <2>3. ASSUME firstDecode = -1, NEW r \in 0 .. nextPos - 1, next[r].single
        PROVE  \E x \in r .. nextPos - 1 : ~next[x].decode
    <3>1. PICK x \in r .. nextPos - 1 : ~plan[x].decode
      BY <1>4, <2>1, <2>3 DEF Phases
    <3> QED
      BY <1>4, <3>1
  <2>4. ASSUME firstDecode # -1
        PROVE  /\ firstDecode < nextPos /\ Fresh(next, firstDecode)
               /\ \A x \in firstDecode .. nextPos - 1 : next[x].decode
    <3>1. firstDecode \in Nat /\ firstDecode < nextPos /\ Fresh(plan, firstDecode)
      BY <2>1, <2>2, <2>4 DEF Phases
    <3>2. \A x \in firstDecode .. nextPos - 1 : plan[x].decode /\ x \in 0 .. nextPos - 1
      BY <1>0, <2>1, <2>4, <3>1 DEF Phases
    <3> QED
      BY <1>4, <1>12, <3>1, <3>2
  <2>5. \A a \in accepted : ~Fresh(next, a)
    BY <1>10, <1>12, <2>1 DEF Phases
  <2>6. ASSUME Decider \in Workers
        PROVE  /\ rd[Decider] \in Nat /\ got[Decider] \in Nat /\ out[Decider] \in Nat
               /\ got[Decider] <= nextPos /\ WorkerPlace(Decider, plan, rd, got, out, skip)
    BY <2>6, Counters, BehindRoot, StageFacts DEF Explained, Account
  <2>7. ASSUME Decider \in Workers, hasPrevXPipeRow, pc[Decider] # "stopped"
        PROVE  \E r \in 0 .. got[Decider] - 1 :
                 next[r].single /\ \A x \in r .. rd[Decider] - 1 : next[x].decode
    <3>1. rd[Decider] <= nextPos
      BY <2>6, <2>7 DEF WorkerPlace
    <3>2. PICK r \in 0 .. got[Decider] - 1 :
            plan[r].single /\ \A x \in r .. rd[Decider] - 1 : plan[x].decode
      BY <2>1, <2>7 DEF Phases
    <3>3. next[r] = plan[r] /\ \A x \in r .. rd[Decider] - 1 : next[x] = plan[x]
      BY <1>0, <1>2, <2>6, <2>7, <3>1, <3>2
    <3> QED
      BY <3>2, <3>3
  <2>8. ASSUME Decider \in Workers, pc[Decider] \in {"forward", "judge"}, hasLastDeltaNorm
        PROVE  ~Fresh(next, out[Decider])
    <3>1. out[Decider] < nextPos
      BY <1>0, <2>6, <2>8 DEF WorkerPlace
    <3> QED
      BY <1>12, <2>1, <2>6, <2>8, <3>1 DEF Phases
  <2> QED
    BY <2>2, <2>3, <2>4, <2>5, <2>7, <2>8 DEF Phases
<1> QED
  BY <1>3, <1>5, <1>6, <1>7, <1>8, <1>9, <1>11, <1>13 DEF Account, Accounted

\* One socket read, one socket written.
LEMMA LineRead ==
  ASSUME IInv, NEW i \in Stages, NEW j \in Stages, chan' = ReadFrom(i, j),
         chan[<<i, j>>] # <<>>, NEW low \in Nat, NEW high \in Nat, NEW f,
         Carries(chan[<<i, j>>], low, high, f)
  PROVE  /\ low < high /\ Head(chan[<<i, j>>]) = f[low]
         /\ Carries(chan'[<<i, j>>], low + 1, high, f)
<1>1. chan[<<i, j>>] \in Seq(Frames) /\ SocketsOK(chan)
  BY StateTypes
<1>2. /\ low < high /\ Head(chan[<<i, j>>]) = f[low]
      /\ Carries(Tail(chan[<<i, j>>]), low + 1, high, f)
  BY <1>1, CarriesTail
<1> QED
  BY <1>1, <1>2, SocketWrite

LEMMA LineWritten ==
  ASSUME IInv, NEW i \in Stages, NEW j \in Stages, NEW x \in Frames, chan' = Written(i, j, x),
         NEW low \in Nat, NEW high \in Nat, NEW f, x = f[high],
         Carries(chan[<<i, j>>], low, high, f)
  PROVE  Carries(chan'[<<i, j>>], low, high + 1, f)
<1>1. chan[<<i, j>>] \in Seq(Frames) /\ SocketsOK(chan)
  BY StateTypes
<1>2. Carries(Append(chan[<<i, j>>], x), low, high + 1, f)
  BY <1>1, CarriesAppend
<1>3. Written(i, j, x)[<<i, j>>] = Append(chan[<<i, j>>], x)
  BY <1>1, SocketWrite
<1> QED
  BY <1>2, <1>3

LEMMA WriteElsewhere ==
  ASSUME IInv, NEW i \in Stages, NEW j \in Stages, NEW x, chan' = Written(i, j, x)
  PROVE  \A k \in Stages, l \in Stages : (k # i \/ l # j) => chan'[<<k, l>>] = chan[<<k, l>>]
<1>1. SocketsOK(chan)
  BY StateTypes
<1>2. ASSUME NEW k \in Stages, NEW l \in Stages, k # i \/ l # j
      PROVE  Written(i, j, x)[<<k, l>>] = chan[<<k, l>>]
  <2>1. <<k, l>> \in Stages \X Stages /\ <<k, l>> # <<i, j>>
    BY <1>2
  <2> QED
    BY <1>1, <2>1 DEF SocketsOK, Written
<1> QED
  BY <1>2

LEMMA ReadElsewhere ==
  ASSUME IInv, NEW i \in Stages, NEW j \in Stages, chan' = ReadFrom(i, j)
  PROVE  \A k \in Stages, l \in Stages : (k # i \/ l # j) => chan'[<<k, l>>] = chan[<<k, l>>]
<1>1. SocketsOK(chan)
  BY StateTypes
<1>2. ASSUME NEW k \in Stages, NEW l \in Stages, k # i \/ l # j
      PROVE  ReadFrom(i, j)[<<k, l>>] = chan[<<k, l>>]
  <2>1. <<k, l>> \in Stages \X Stages /\ <<k, l>> # <<i, j>>
    BY <1>2
  <2> QED
    BY <1>1, <2>1 DEF SocketsOK, ReadFrom
<1> QED
  BY <1>2

\* The root's activation follows its control packet into the first socket.
LEMMA RootForwarded ==
  ASSUME NEW plan, NEW rd, NEW got, NEW out, NEW due, NEW skip,
         Explained(plan, rd, got, out, due, skip), RootForward
  PROVE  Accounted'
<1> PICK p : p = out[0]
  OBVIOUS
<1> PICK done : done = [out EXCEPT ![0] = p + 1]
  OBVIOUS
<1>0. /\ p \in Nat /\ nextPos = p + 1 /\ nextPos \in Nat
      /\ rootPc \in {"exec", "waveExec"} /\ rootPc' \in {"recv", "wave"}
      /\ rootPc = "exec" => rootPc' = "recv"
      /\ rootPc = "waveExec" => rootPc' = "wave"
      /\ ControlWritten = nextPos /\ ControlWritten' = nextPos
      /\ UNCHANGED <<mode, nextPos, waveChunks, answer, firstDecode, pc, cur, xPipe, skipVars>>
      /\ kv' = [kv EXCEPT ![0] = @ \cup {p}]
      /\ chan' = Written(0, 1, Activation(p, {<<0, p>>}))
  <2>1. p \in Nat /\ nextPos = p + 1
    BY Counters, StageFacts DEF Explained, Account, RootPlace, RootForward
  <2>2. nextPos - 1 = p
    BY <2>1
  <2> QED
    BY <2>1, <2>2, StateTypes DEF Explained, RootForward, ControlWritten
<1>1. /\ done \in [Stages -> Nat] /\ done[0] = p + 1 /\ out[0] = p
      /\ \A s \in Stages : s # 0 => done[s] = out[s]
      /\ \A s \in Stages : out[s] \in Nat /\ got[s] \in Nat /\ done[s] >= out[s]
  BY <1>0, StageFacts, Counters DEF Explained, Accounts
<1>2. Accounts(plan, rd, got, done, due, skip)
  BY <1>1 DEF Explained, Accounts
<1>3. Planned(plan)'
  BY <1>0 DEF Explained, Account, Planned
<1>4. RootPlace(plan, got, done)'
  BY <1>0, <1>1 DEF Explained, Account, RootPlace
<1>5. ASSUME NEW w \in Workers
      PROVE  WorkerPlace(w, plan, rd, got, done, skip)'
  <2>1. WorkerPlace(w, plan, rd, got, out, skip) /\ done[w] = out[w]
    BY <1>1, StageFacts DEF Explained, Account
  <2> QED
    BY <1>0, <2>1 DEF WorkerPlace
<1>6. InOrder(got, done)'
  <2>1. InOrder(got, out)
    BY DEF Explained, Account
  <2>2. ASSUME NEW i \in Stages \ {Target}, NEW x \in Nat, x <= out[i]
        PROVE  x <= done[i]
    BY <1>1, <2>2
  <2> QED
    BY <1>1, <2>1, <2>2, StageFacts DEF InOrder
<1>7. \A k \in Stages, l \in Stages : (k # 0 \/ l # 1) => chan'[<<k, l>>] = chan[<<k, l>>]
  BY <1>0, WriteElsewhere, StageFacts DEF Explained
<1>8. ControlLines(plan, rd)'
  BY <1>0, <1>7, StageFacts DEF Explained, Account, ControlLines
<1>9. FirstLine(plan, rd, got, done, skip)'
  <2>1. rd[1] + got[1] \in Nat /\ nextPos + p \in Nat /\ nextPos + p + 1 = ControlWritten' + done[0]
        /\ nextPos + p = p + p + 1
    BY <1>0, <1>1, Counters, StageFacts DEF Explained
  <2>2. Carries(chan[<<0, 1>>], rd[1] + got[1], nextPos + p, Mixed(plan, skip))
    BY <1>0, <1>1 DEF Explained, Account, FirstLine
  <2>3. Activation(p, {<<0, p>>}) = Output(skip, 0)[p]
    <3>1. ~(0 = Decider /\ p \in skip)
      BY StageFacts DEF Explained, Account, Decided
    <3> QED
      <4>1. Output(skip, 0)[p] = Activation(p, Route(skip, p, 0))
        BY <1>0, <3>1, OutputEntry, StageFacts
      <4>2. Route(skip, p, 0) = {<<0, p>>}
        BY <1>0, RouteStep, StageFacts
      <4> QED
        BY <4>1, <4>2
  <2>4. Activation(p, {<<0, p>>}) \in Frames
    BY <1>0, <2>3, OutputEntry, StageFacts DEF Frames
  <2>5. Mixed(plan, skip)[nextPos + p] = Output(skip, 0)[p]
    <3>1. p \in Nat
      BY <1>0
    <3>2. Mixed(plan, skip)[p + p + 1] = Output(skip, 0)[p]
      BY ONLY <3>1, MixedSent
    <3> QED
      BY <2>1, <3>2
  <2>6. Carries(chan'[<<0, 1>>], rd[1] + got[1], nextPos + p + 1, Mixed(plan, skip))
    <3>1. IInv /\ 0 \in Stages /\ 1 \in Stages
      BY StageFacts DEF Explained
    <3> QED
      BY <1>0, <2>1, <2>2, <2>3, <2>4, <2>5, <3>1, LineWritten
  <2> QED
    BY <2>1, <2>6 DEF FirstLine
<1>10. ChainLines(got, done, skip)'
  <2>1. \A w \in Workers \ {1, Post} : w - 1 \in Workers /\ w \in Stages /\ w - 1 # 0
    BY Ranges
  <2> QED
    BY ZenonT(60), <1>1, <1>7, <2>1, StageFacts DEF Explained, Account, ChainLines
<1>11. AnswerLine(got, done, skip)'
  BY <1>1, <1>7, StageFacts DEF Explained, Account, AnswerLine
<1>12. PostLine(got, done, due, skip)'
  <2>1. due <= done[Decider]
    BY <1>1, StageFacts DEF Explained, Account, PostLine, Accounts
  <2> QED
    BY <1>1, <1>7, <2>1, StageFacts DEF Explained, Account, PostLine
<1>13. BypassLine(got, done, skip)'
  BY <1>0, <1>1, <1>7, StageFacts DEF Explained, Account, BypassLine
<1>14. Decided(plan, got, done, skip)'
  BY <1>0, <1>1, StageFacts DEF Explained, Account, Decided, Execute, Skipping, DecodeSingle,
     skipVars, judgeVars
<1>15. Phases(plan, rd, got, done)'
  BY <1>0, <1>1, StageFacts DEF Explained, Account, Phases, skipVars, judgeVars, deltaVars
<1>16. Cached(got, done, skip)'
  <2>1. kv \in [Stages -> SUBSET Nat]
    BY StateTypes DEF Explained
  <2>2. /\ kv'[0] = kv[0] \cup {p} /\ \A s \in Stages : s # 0 => kv'[s] = kv[s]
    BY <1>0, <2>1, StageFacts
  <2>3. Target # 0 /\ 0 .. p = (0 .. p - 1) \cup {p}
    BY <1>0, StageFacts
  <2>4. \A s \in Stages \ {Target} : 0 .. done[s] - 1 \subseteq kv'[s]
    <3>1. 0 .. done[0] - 1 \subseteq kv'[0]
      <4>1. done[0] - 1 = p /\ out[0] = p /\ 0 \in Stages \ {Target}
        BY <1>0, <1>1, StageFacts
      <4>2. 0 .. p - 1 \subseteq kv[0]
        BY <4>1 DEF Explained, Account, Cached
      <4> QED
        BY <2>2, <2>3, <4>1, <4>2
    <3> QED
      BY <1>1, <2>2, <3>1 DEF Explained, Account, Cached
  <2>5. \A w \in Workers : kv'[w] = kv[w] /\ done[w] = out[w] /\ w # 0
    BY <1>1, <2>2, StageFacts
  <2>6. Cached(got, out, skip)
    BY DEF Explained, Account
  <2> QED
    BY <1>0, <2>4, <2>5, <2>6, StageFacts DEF Cached
<1> QED
  BY <1>2, <1>3, <1>4, <1>5, <1>6, <1>8, <1>9, <1>10, <1>11, <1>12, <1>13, <1>14, <1>15, <1>16
  DEF Account, Accounted

\* The root takes the logits of the oldest step without an answer.
LEMMA LogitsReceived ==
  ASSUME NEW plan, NEW rd, NEW got, NEW out, NEW due, NEW skip,
         Explained(plan, rd, got, out, due, skip), RootRecvLogits
  PROVE  /\ Accounted'
         /\ got[0] < nextPos
         /\ answer' = [pos |-> got[0], via |-> Route(skip, got[0], Last)]
<1> PICK p : p = got[0]
  OBVIOUS
<1> PICK taken : taken = [got EXCEPT ![0] = p + 1]
  OBVIOUS
<1>0. /\ p \in Nat /\ nextPos \in Nat /\ waveChunks \in Nat /\ IInv
      /\ \A s \in Stages : out[s] \in Nat /\ got[s] \in Nat
  BY Counters, StateTypes, StageFacts DEF Explained
<1>1. /\ taken \in [Stages -> Nat] /\ taken[0] = p + 1 /\ got[0] = p
      /\ \A s \in Stages : s # 0 => taken[s] = got[s]
  BY <1>0, StageFacts DEF Explained, Accounts
<1>2. /\ p < out[Last]
      /\ Head(chan[<<Last, 0>>]) = Output(skip, Last)[p]
      /\ Carries(chan'[<<Last, 0>>], p + 1, out[Last], Output(skip, Last))
  <2>1. Carries(chan[<<Last, 0>>], p, out[Last], Output(skip, Last))
    BY <1>1 DEF Explained, Account, AnswerLine
  <2>2. /\ chan' = ReadFrom(Last, 0) /\ chan[<<Last, 0>>] # <<>>
        /\ Last \in Stages /\ 0 \in Stages
    BY StageFacts DEF RootRecvLogits
  <2>3. out[Last] \in Nat
    BY <1>0, <2>2
  <2> QED
    <3>1. IInv /\ p \in Nat
      BY <1>0
    <3> QED
      BY ONLY SMTT(60), <2>1, <2>2, <2>3, <3>1, LineRead
<1>3. Head(chan[<<Last, 0>>]) = Activation(p, Route(skip, p, Last))
  BY <1>0, <1>2, OutputEntry, Ranges, StageFacts
<1>4. answer' = [pos |-> p, via |-> Route(skip, p, Last)]
  BY <1>3 DEF RootRecvLogits, Activation
<1>5. /\ rootPc \in {"recv", "drain"}
      /\ waveChunks' = IF rootPc = "drain" THEN waveChunks - 1 ELSE waveChunks
      /\ rootPc' = IF waveChunks' = 0 THEN "idle" ELSE rootPc
      /\ UNCHANGED <<mode, nextPos, firstDecode, pc, cur, xPipe, kv, skipVars>>
      /\ ControlWritten' = ControlWritten
  BY DEF RootRecvLogits, ControlWritten
<1>6. Accounts(plan, rd, taken, out, due, skip)
  BY <1>1 DEF Explained, Accounts
<1>7. Planned(plan)'
  BY <1>5 DEF Explained, Account, Planned
<1>8. p < nextPos
  <2>1. out[Last] <= nextPos
    BY BehindRoot, StageFacts
  <2>2. out[Last] \in Nat
    BY <1>0, StageFacts
  <2> QED
    BY <1>0, <1>2, <2>1, <2>2
<1>9. RootPlace(plan, taken, out)'
  <2>1. RootPlace(plan, got, out) /\ WaveCounted
    BY <1>0 DEF Explained, Account, IInv, TypeInv
  <2>2. answer'.pos = taken[0] - 1
    BY <1>0, <1>1, <1>4
  <2>3. \A x \in p + 1 .. nextPos - 1 : x \in p .. nextPos - 1
    BY <1>0
  <2>4. \A x \in p + 1 .. nextPos - 1 : ~plan[x].single
    BY <1>0, <1>1, <2>1, <2>3 DEF RootPlace
  <2>5. CASE rootPc = "recv"
    <3>1. rootPc' = "idle" /\ waveChunks' = 0 /\ nextPos = p + 1 /\ nextPos = out[0]
      BY <1>1, <1>5, <2>1, <2>5 DEF RootPlace, WaveCounted
    <3> QED
      BY <1>0, <1>1, <1>5, <2>2, <2>4, <3>1 DEF RootPlace
  <2>6. CASE rootPc = "drain"
    <3>1. /\ waveChunks' = waveChunks - 1 /\ waveChunks > 0 /\ nextPos = p + waveChunks
          /\ nextPos = out[0]
      BY <1>1, <1>5, <2>1, <2>6 DEF RootPlace, WaveCounted
    <3>2. CASE waveChunks' = 0
      <4>1. rootPc' = "idle" /\ nextPos = p + 1
        BY <1>0, <1>5, <3>1, <3>2
      <4> QED
        BY <1>0, <1>1, <1>5, <2>2, <2>4, <3>1, <3>2, <4>1 DEF RootPlace
    <3>3. CASE waveChunks' # 0
      <4>1. rootPc' = "drain" /\ nextPos = p + 1 + waveChunks'
        BY <1>0, <1>5, <2>6, <3>1, <3>3
      <4> QED
        BY <1>0, <1>1, <1>5, <2>2, <2>4, <3>1, <3>3, <4>1 DEF RootPlace
    <3> QED
      BY <3>2, <3>3
  <2> QED
    BY <1>5, <2>5, <2>6
<1>10. ASSUME NEW w \in Workers
       PROVE  WorkerPlace(w, plan, rd, taken, out, skip)'
  <2>1. WorkerPlace(w, plan, rd, got, out, skip) /\ taken[w] = got[w]
    BY <1>1, StageFacts DEF Explained, Account
  <2> QED
    BY <1>5, <2>1 DEF WorkerPlace
<1>11. InOrder(taken, out)'
  <2>1. InOrder(got, out)
    BY DEF Explained, Account
  <2>2. \A j \in Stages : \A i \in Stages \ {Target} : i < j => taken[j] <= out[i]
    <3>1. \A i, j \in Stages : i < j => j # 0
      BY Ranges
    <3> QED
      BY <1>1, <2>1, <3>1 DEF InOrder
  <2>3. ASSUME NEW i \in Stages \ {Target}
        PROVE  p + 1 <= out[i]
    <3>1. CASE i = Last
      BY <1>0, <1>2, <3>1
    <3>2. CASE i # Last
      <4>1. i < Last /\ Last \in Stages
        BY <3>2, Ranges
      <4>2. got[Last] <= out[i]
        BY <2>1, <4>1 DEF InOrder
      <4>3. out[Last] <= got[Last]
        BY StageFacts DEF Explained, Account, WorkerPlace
      <4> QED
        BY <1>0, <1>2, <4>1, <4>2, <4>3
    <3> QED
      BY <3>1, <3>2
  <2> QED
    BY <1>1, <2>2, <2>3 DEF InOrder
<1>12. \A k \in Stages, l \in Stages : (k # Last \/ l # 0) => chan'[<<k, l>>] = chan[<<k, l>>]
  <2>1. chan' = ReadFrom(Last, 0) /\ Last \in Stages /\ 0 \in Stages
    BY StageFacts DEF RootRecvLogits
  <2> QED
    BY <1>0, <2>1, ReadElsewhere
<1>13. ControlLines(plan, rd)' /\ FirstLine(plan, rd, taken, out, skip)'
  BY <1>1, <1>5, <1>12, StageFacts DEF Explained, Account, ControlLines, FirstLine
<1>14. ChainLines(taken, out, skip)'
  <2>1. \A w \in Workers \ {1, Post} : w - 1 \in Stages /\ w \in Stages /\ w # 0
    BY Ranges
  <2> QED
    BY <1>1, <1>12, <2>1 DEF Explained, Account, ChainLines
<1>15. AnswerLine(taken, out, skip)'
  BY <1>1, <1>2 DEF AnswerLine
<1>16. PostLine(taken, out, due, skip)' /\ BypassLine(taken, out, skip)'
  BY <1>1, <1>5, <1>12, StageFacts DEF Explained, Account, PostLine, BypassLine
<1>17. Decided(plan, taken, out, skip)'
  BY <1>1, <1>5, StageFacts DEF Explained, Account, Decided, Execute, Skipping, DecodeSingle,
     skipVars, judgeVars
<1>18. Phases(plan, rd, taken, out)'
  BY <1>1, <1>5, StageFacts DEF Explained, Account, Phases, skipVars, judgeVars, deltaVars
<1>19. Cached(taken, out, skip)'
  BY <1>1, <1>4, <1>5, StageFacts DEF Explained, Account, Cached
<1> QED
  BY <1>1, <1>4, <1>6, <1>7, <1>8, <1>9, <1>10, <1>11, <1>13, <1>14, <1>15, <1>16, <1>17, <1>18, <1>19
  DEF Account, Accounted

-----------------------------------------------------------------------------
(* Steps of a worker stage.                                                *)

LEMMA WorkerFacts ==
  ASSUME NEW plan, NEW rd, NEW got, NEW out, NEW due, NEW skip,
         Explained(plan, rd, got, out, due, skip), NEW w \in Workers
  PROVE  /\ w \in Stages /\ w # 0 /\ w - 1 \in Stages /\ w \in Int
         /\ rd[w] \in Nat /\ got[w] \in Nat /\ out[w] \in Nat
         /\ WorkerPlace(w, plan, rd, got, out, skip)
         /\ got[w] <= nextPos /\ nextPos \in Nat
         /\ \A s \in Stages : got[s] \in Nat /\ out[s] \in Nat
BY StateTypes, StageFacts, Counters, BehindRoot DEF Explained, Account

\* The step a worker has in hand is the one after those it finished.
LEMMA InHand ==
  ASSUME NEW plan, NEW rd, NEW got, NEW out, NEW due, NEW skip,
         Explained(plan, rd, got, out, due, skip), NEW w \in Workers,
         pc[w] \in {"recv", "probeNormal", "forward", "judge", "send"}
  PROVE  /\ rd[w] = out[w] + 1 /\ out[w] < nextPos
         /\ cur[w] = plan[out[w]] /\ cur[w].pos = out[w] /\ cur[w].kind = "ctrl"
         /\ cur[w].single => cur[w].decode
<1>1. /\ rd[w] \in Nat /\ got[w] \in Nat /\ out[w] \in Nat /\ nextPos \in Nat
      /\ WorkerPlace(w, plan, rd, got, out, skip)
  BY WorkerFacts
<1>2. rd[w] = out[w] + 1 /\ rd[w] <= nextPos /\ rd[w] - 1 = out[w] /\ rd[w] > 0
  BY <1>1 DEF WorkerPlace
<1>3. cur[w] = plan[out[w]]
  BY <1>1, <1>2 DEF WorkerPlace
<1>4. out[w] \in 0 .. nextPos - 1
  BY <1>1, <1>2
<1>5. plan[out[w]].pos = out[w] /\ plan[out[w]].kind = "ctrl"
      /\ (plan[out[w]].single => plan[out[w]].decode)
  BY <1>4 DEF Explained, Account, Planned
<1> QED
  BY <1>1, <1>2, <1>3, <1>5

\* A skipped step without an answer is alone in the pipeline.
LEMMA SkippedAlone ==
  ASSUME NEW plan, NEW rd, NEW got, NEW out, NEW due, NEW skip,
         Explained(plan, rd, got, out, due, skip),
         NEW p \in skip, got[0] <= p, p < nextPos
  PROVE  Decider \in Workers /\ p = got[0] /\ nextPos = p + 1
<1>1. Decider \in Workers /\ p \in accepted /\ plan[p].single /\ p \in Nat
  BY StateTypes DEF Explained, Account, Accounts, Decided
<1>2. p \in got[0] .. nextPos - 1
  BY <1>1, StateTypes, Counters, StageFacts DEF Explained
<1> QED
  BY <1>1, <1>2 DEF Explained, Account, RootPlace

\* The socket a worker takes a control packet from holds the next one.
LEMMA ControlHead ==
  ASSUME NEW plan, NEW rd, NEW got, NEW out, NEW due, NEW skip,
         Explained(plan, rd, got, out, due, skip), NEW w \in Workers,
         pc[w] = "ctrl", chan[<<0, w>>] # <<>>, chan' = ReadFrom(0, w),
         UNCHANGED <<mode, rootVars>>, NEW more, more = [rd EXCEPT ![w] = rd[w] + 1]
  PROVE  /\ Head(chan[<<0, w>>]) = plan[rd[w]] /\ rd[w] < ControlWritten
         /\ ControlLines(plan, more)' /\ FirstLine(plan, more, got, out, skip)'
         /\ ChainLines(got, out, skip)' /\ AnswerLine(got, out, skip)'
         /\ PostLine(got, out, due, skip)'
         /\ Decider \in Workers => chan'[<<Decider, Post>>] = chan[<<Decider, Post>>]
<1>0. /\ IInv /\ 0 \in Stages /\ 1 \in Workers /\ pc \in [Workers -> WorkerStates]
      /\ \A v \in Workers : v \in Stages /\ v # 0 /\ rd[v] \in Nat
      /\ \A s \in Stages : got[s] \in Nat /\ out[s] \in Nat
      /\ ControlWritten \in Nat /\ ControlWritten' = ControlWritten
      /\ rd[w] = got[w]
  <2>1. rd[w] = got[w]
    BY WorkerFacts DEF WorkerPlace
  <2>2. ControlWritten' = ControlWritten
    BY DEF ControlWritten, rootVars
  <2> QED
    BY <2>1, <2>2, StateTypes, Counters, StageFacts DEF Explained
<1>1. /\ more \in [Workers -> Nat] /\ more[w] = rd[w] + 1
      /\ \A v \in Workers : v # w => more[v] = rd[v]
  BY <1>0 DEF Explained, Accounts
<1>2. \A k \in Stages, l \in Stages : (k # 0 \/ l # w) => chan'[<<k, l>>] = chan[<<k, l>>]
  BY <1>0, ReadElsewhere
<1>3. ASSUME w # 1
      PROVE  /\ Head(chan[<<0, w>>]) = plan[rd[w]] /\ rd[w] < ControlWritten
             /\ ControlLines(plan, more)' /\ FirstLine(plan, more, got, out, skip)'
  <2>1. /\ Head(chan[<<0, w>>]) = plan[rd[w]] /\ rd[w] < ControlWritten
        /\ Carries(chan'[<<0, w>>], rd[w] + 1, ControlWritten, plan)
    <3>1. Carries(chan[<<0, w>>], rd[w], ControlWritten, plan)
      BY <1>3 DEF Explained, Account, ControlLines
    <3>2. /\ w \in Stages /\ 0 \in Stages /\ rd[w] \in Nat /\ ControlWritten \in Nat /\ IInv
          /\ chan' = ReadFrom(0, w) /\ chan[<<0, w>>] # <<>>
      BY <1>0
    <3>3. /\ rd[w] < ControlWritten /\ Head(chan[<<0, w>>]) = plan[rd[w]]
          /\ Carries(chan'[<<0, w>>], rd[w] + 1, ControlWritten, plan)
      BY ONLY <3>1, <3>2, LineRead
    <3> QED
      BY <3>3
  <2>2. ControlLines(plan, more)'
    BY <1>0, <1>1, <1>2, <2>1 DEF Explained, Account, ControlLines
  <2>3. FirstLine(plan, more, got, out, skip)'
    BY <1>0, <1>1, <1>2, <1>3 DEF Explained, Account, FirstLine
  <2> QED
    BY <2>1, <2>2, <2>3
<1>4. ASSUME w = 1
      PROVE  /\ Head(chan[<<0, w>>]) = plan[rd[w]] /\ rd[w] < ControlWritten
             /\ ControlLines(plan, more)' /\ FirstLine(plan, more, got, out, skip)'
  <2> PICK low, high : low = rd[1] + got[1] /\ high = ControlWritten + out[0]
    OBVIOUS
  <2>1. low \in Nat /\ high \in Nat /\ low = rd[1] + rd[1] /\ rd[1] \in Nat
    BY <1>0, <1>4
  <2>2. /\ Head(chan[<<0, 1>>]) = Mixed(plan, skip)[low] /\ low < high
        /\ Carries(chan'[<<0, 1>>], low + 1, high, Mixed(plan, skip))
    <3>1. Carries(chan[<<0, 1>>], low, high, Mixed(plan, skip))
      BY DEF Explained, Account, FirstLine
    <3>2. chan[<<0, 1>>] # <<>> /\ chan' = ReadFrom(0, 1) /\ IInv /\ 0 \in Stages /\ 1 \in Stages
      BY <1>0, <1>4
    <3>3. low \in Nat /\ high \in Nat
      BY <2>1
    <3> QED
      BY ONLY <3>1, <3>2, <3>3, LineRead
  <2>3. Head(chan[<<0, 1>>]) = plan[rd[1]]
    <3>1. rd[1] \in Nat
      BY <2>1
    <3>2. Mixed(plan, skip)[rd[1] + rd[1]] = plan[rd[1]]
      BY ONLY <3>1, MixedEntry
    <3> QED
      BY <2>1, <2>2, <3>2
  <2>4. rd[1] < ControlWritten
    <3>1. out[0] <= ControlWritten
      BY BehindRoot, <1>0, StateTypes DEF Explained, ControlWritten
    <3> QED
      BY <1>0, <2>1, <2>2, <3>1
  <2>5. ControlLines(plan, more)'
    BY ZenonT(60), <1>0, <1>1, <1>2, <1>4 DEF Explained, Account, ControlLines
  <2>6. FirstLine(plan, more, got, out, skip)'
    <3>1. more[1] + got[1] = rd[1] + got[1] + 1
      BY <1>0, <1>1, <1>4
    <3> QED
      BY <1>0, <2>2, <3>1 DEF FirstLine
  <2> QED
    BY <1>4, <2>3, <2>4, <2>5, <2>6
<1>5. ChainLines(got, out, skip)'
  <2>1. \A v \in Workers \ {1, Post} : v - 1 \in Stages /\ v \in Stages /\ v - 1 # 0
    BY Ranges
  <2> QED
    BY <1>2, <2>1 DEF Explained, Account, ChainLines
<1>6. AnswerLine(got, out, skip)' /\ PostLine(got, out, due, skip)'
  BY <1>0, <1>2, StageFacts DEF Explained, Account, AnswerLine, PostLine
<1>7. Decider \in Workers => chan'[<<Decider, Post>>] = chan[<<Decider, Post>>]
  BY <1>0, <1>2, StageFacts
<1> QED
  BY <1>3, <1>4, <1>5, <1>6, <1>7

\* tryReadControlPacket takes the packet of the next step, or the one that
\* stops the stage.
LEMMA PacketTaken ==
  ASSUME NEW plan, NEW rd, NEW got, NEW out, NEW due, NEW skip,
         Explained(plan, rd, got, out, due, skip), NEW w \in Workers,
         ReadStop(w) \/ ReadControlPacket(w)
  PROVE  Accounted'
<1> PICK more : more = [rd EXCEPT ![w] = rd[w] + 1]
  OBVIOUS
<1> DEFINE packet == Head(chan[<<0, w>>])
<1>0. /\ w \in Stages /\ w # 0 /\ rd[w] \in Nat /\ got[w] \in Nat /\ out[w] \in Nat
      /\ pc[w] = "ctrl" /\ WorkerPlace(w, plan, rd, got, out, skip)
      /\ rd[w] = out[w] /\ got[w] = out[w] /\ nextPos \in Nat /\ rd[w] <= nextPos
      /\ pc \in [Workers -> WorkerStates] /\ cur \in [Workers -> ControlFrames]
  BY WorkerFacts, StateTypes DEF Explained, ReadStop, ReadControlPacket, WorkerPlace
<1>1. /\ more \in [Workers -> Nat] /\ more[w] = rd[w] + 1
      /\ \A v \in Workers : v # w => more[v] = rd[v]
  BY <1>0 DEF Explained, Accounts
<1>2. /\ chan[<<0, w>>] # <<>> /\ chan' = ReadFrom(0, w) /\ UNCHANGED <<mode, rootVars>>
      /\ UNCHANGED <<xPipe, kv, hasLastDeltaNorm, lastAccept, accepted>>
  BY DEF ReadStop, ReadControlPacket, skipVars, deltaVars, judgeVars
<1>3. /\ packet = plan[rd[w]] /\ rd[w] < ControlWritten
      /\ ControlLines(plan, more)' /\ FirstLine(plan, more, got, out, skip)'
      /\ ChainLines(got, out, skip)' /\ AnswerLine(got, out, skip)'
      /\ PostLine(got, out, due, skip)'
      /\ Decider \in Workers => chan'[<<Decider, Post>>] = chan[<<Decider, Post>>]
  BY <1>0, <1>2, ControlHead
<1>4. /\ UNCHANGED <<nextPos, firstDecode, answer, rootPc, waveChunks>>
  BY <1>2 DEF rootVars
<1>5. \/ /\ rd[w] = nextPos /\ pc' = [pc EXCEPT ![w] = "stopped"]
         /\ UNCHANGED <<cur, hasPrevXPipeRow>>
      \/ /\ rd[w] < nextPos /\ pc' = [pc EXCEPT ![w] = "recv"]
         /\ cur' = [cur EXCEPT ![w] = plan[rd[w]]]
         /\ ResetOnPhaseChange(w, plan[rd[w]])
  <2>1. rd[w] < nextPos => plan[rd[w]].kind = "ctrl"
    BY <1>0 DEF Explained, Account, Planned
  <2>2. rd[w] = nextPos => plan[rd[w]].kind = "stop"
    BY <1>0, <1>3 DEF Explained, Account, Planned, ControlWritten
  <2>3. CASE ReadStop(w)
    BY <1>0, <1>3, <2>1, <2>3 DEF ReadStop, skipVars, deltaVars
  <2>4. CASE ReadControlPacket(w)
    BY <1>0, <1>3, <2>1, <2>2, <2>4 DEF ReadControlPacket
  <2> QED
    BY <2>3, <2>4
<1>6. Accounts(plan, more, got, out, due, skip)
  BY <1>1 DEF Explained, Accounts
<1>7. /\ pc'[w] \in {"recv", "stopped"}
      /\ \A v \in Workers : v # w => pc'[v] = pc[v] /\ cur'[v] = cur[v]
  BY <1>0, <1>5
<1>8. Planned(plan)' /\ RootPlace(plan, got, out)' /\ InOrder(got, out)'
  BY <1>4 DEF Explained, Account, Planned, RootPlace, InOrder
<1>9. ASSUME NEW v \in Workers
      PROVE  WorkerPlace(v, plan, more, got, out, skip)'
  <2>1. CASE v # w
    BY <1>1, <1>2, <1>4, <1>7, <2>1 DEF Explained, Account, WorkerPlace
  <2>2. CASE v = w
    <3>1. more[w] - 1 = rd[w]
      BY <1>0, <1>1
    <3>2. pc'[w] = "recv" => rd[w] < nextPos /\ cur'[w] = plan[rd[w]]
      BY <1>0, <1>5
    <3> QED
      BY <1>0, <1>1, <1>4, <1>7, <2>2, <3>1, <3>2 DEF WorkerPlace
  <2> QED
    BY <2>1, <2>2
<1>10. BypassLine(got, out, skip)'
  <2>1. Decider \in Workers => (pc'[Decider] = "bypass" <=> pc[Decider] = "bypass")
    BY <1>0, <1>7
  <2> QED
    BY <1>3, <2>1 DEF Explained, Account, BypassLine
<1>11. Decided(plan, got, out, skip)'
  <2>1. Decider \in Workers =>
          /\ pc'[Decider] \in {"forward", "judge", "send"} =>
               pc'[Decider] = pc[Decider] /\ cur'[Decider] = cur[Decider]
    BY <1>7
  <2> QED
    BY <1>2, <2>1 DEF Explained, Account, Decided, Execute, Skipping, DecodeSingle
<1>12. Cached(got, out, skip)'
  <2>1. \A v \in Workers : pc'[v] \in {"judge", "send", "forward"} => pc'[v] = pc[v]
    BY <1>7
  <2> QED
    BY <1>2, <1>4, <2>1, StageFacts DEF Explained, Account, Cached
<1>13. Phases(plan, more, got, out)'
  <2>1. CASE Decider \in Workers /\ w = Decider
    <3>1. ASSUME hasPrevXPipeRow', pc'[w] # "stopped"
          PROVE  \E r \in 0 .. got[w] - 1 :
                   plan[r].single /\ \A x \in r .. rd[w] : plan[x].decode
      <4>1. /\ hasPrevXPipeRow /\ plan[rd[w]].decode = cur[w].decode
            /\ rd[w] < nextPos
        BY <1>0, <1>5, <2>1, <3>1 DEF ResetOnPhaseChange
      <4>2. PICK r \in 0 .. got[w] - 1 :
              plan[r].single /\ \A x \in r .. rd[w] - 1 : plan[x].decode
        BY <1>0, <2>1, <4>1 DEF Explained, Account, Phases
      <4>3. rd[w] - 1 \in r .. rd[w] - 1 /\ rd[w] > 0
        BY <1>0, <4>2
      <4>4. cur[w] = plan[rd[w] - 1] /\ plan[rd[w] - 1].decode
        BY <1>0, <4>2, <4>3 DEF WorkerPlace
      <4>5. plan[rd[w]].decode
        BY <4>1, <4>4
      <4>6. \A x \in r .. rd[w] : x = rd[w] \/ x \in r .. rd[w] - 1
        BY <1>0
      <4> QED
        BY <4>2, <4>5, <4>6
    <3>2. more[w] - 1 = rd[w]
      BY <1>0, <1>1
    <3> QED
      BY <1>2, <1>4, <1>7, <2>1, <3>1, <3>2 DEF Explained, Account, Phases
  <2>2. CASE Decider \in Workers /\ w # Decider
    <3>1. hasPrevXPipeRow' = hasPrevXPipeRow
      BY <1>5, <2>2 DEF ResetOnPhaseChange
    <3> QED
      BY <1>1, <1>2, <1>4, <1>7, <2>2, <3>1 DEF Explained, Account, Phases
  <2>3. CASE Decider \notin Workers
    BY <1>2, <1>4, <2>3 DEF Explained, Account, Phases
  <2> QED
    BY <2>1, <2>2, <2>3
<1> QED
  BY <1>3, <1>6, <1>8, <1>9, <1>10, <1>11, <1>12, <1>13 DEF Account, Accounted

\* A counter of one stage goes up by one.
Counts(next, f, w) == next = [f EXCEPT ![w] = f[w] + 1]

\* The socket from its predecessor holds the step a worker waits for.
LEMMA ChainHead ==
  ASSUME NEW plan, NEW rd, NEW got, NEW out, NEW due, NEW skip,
         Explained(plan, rd, got, out, due, skip), NEW w \in Workers, w # Post,
         pc[w] = "recv", chan[<<w - 1, w>>] # <<>>, chan' = ReadFrom(w - 1, w),
         UNCHANGED <<mode, rootVars>>, NEW taken, Counts(taken, got, w)
  PROVE  /\ Head(chan[<<w - 1, w>>]) = Output(skip, w - 1)[got[w]] /\ got[w] < out[w - 1]
         /\ ControlLines(plan, rd)' /\ FirstLine(plan, rd, taken, out, skip)'
         /\ ChainLines(taken, out, skip)' /\ AnswerLine(taken, out, skip)'
         /\ PostLine(taken, out, due, skip)'
         /\ Decider \in Workers => chan'[<<Decider, Post>>] = chan[<<Decider, Post>>]
<1>0. /\ IInv /\ w \in Stages /\ w # 0 /\ w - 1 \in Stages /\ w - 1 # w
      /\ \A v \in Workers : v \in Stages /\ v # 0 /\ rd[v] \in Nat
      /\ \A s \in Stages : got[s] \in Nat /\ out[s] \in Nat
      /\ ControlWritten \in Nat /\ ControlWritten' = ControlWritten
      /\ rd[w] = got[w] + 1 /\ 0 \in Stages
  <2>1. rd[w] = got[w] + 1
    BY WorkerFacts DEF WorkerPlace
  <2>2. ControlWritten' = ControlWritten
    BY DEF ControlWritten, rootVars
  <2> QED
    BY <2>1, <2>2, StateTypes, Counters, Ranges DEF Explained
<1>1. /\ taken[w] = got[w] + 1
      /\ \A v \in Stages : v # w => taken[v] = got[v]
  BY <1>0 DEF Explained, Accounts, Counts
<1>2. \A k \in Stages, l \in Stages : (k # w - 1 \/ l # w) => chan'[<<k, l>>] = chan[<<k, l>>]
  BY <1>0, ReadElsewhere
<1>3. ASSUME w # 1
      PROVE  /\ Head(chan[<<w - 1, w>>]) = Output(skip, w - 1)[got[w]] /\ got[w] < out[w - 1]
             /\ Carries(chan'[<<w - 1, w>>], taken[w], out[w - 1], Output(skip, w - 1))
             /\ ControlLines(plan, rd)' /\ FirstLine(plan, rd, taken, out, skip)'
  <2>1. Carries(chan[<<w - 1, w>>], got[w], out[w - 1], Output(skip, w - 1))
    BY <1>3 DEF Explained, Account, ChainLines
  <2>2. PICK i, f, high : i = w - 1 /\ f = Output(skip, i) /\ high = out[i]
    OBVIOUS
  <2>3. /\ Carries(chan[<<i, w>>], got[w], high, f) /\ high \in Nat /\ got[w] \in Nat
        /\ i \in Stages /\ w \in Stages /\ chan' = ReadFrom(i, w) /\ chan[<<i, w>>] # <<>> /\ IInv
    BY <1>0, <2>1, <2>2
  <2>4. /\ got[w] < high /\ Head(chan[<<i, w>>]) = f[got[w]]
        /\ Carries(chan'[<<i, w>>], got[w] + 1, high, f)
    BY ONLY <2>3, LineRead
  <2>5. w - 1 # 0
    BY <1>0, <1>3, Ranges
  <2>6. ControlLines(plan, rd)'
    BY <1>0, <1>2, <2>5 DEF Explained, Account, ControlLines
  <2>7. FirstLine(plan, rd, taken, out, skip)'
    BY <1>0, <1>1, <1>2, <1>3, <2>5, StageFacts DEF Explained, Account, FirstLine
  <2> QED
    BY <1>1, <2>2, <2>4, <2>6, <2>7
<1>4. ASSUME w = 1
      PROVE  /\ Head(chan[<<0, 1>>]) = Output(skip, 0)[got[1]] /\ got[1] < out[0]
             /\ ControlLines(plan, rd)' /\ FirstLine(plan, rd, taken, out, skip)'
  <2> PICK low, high : low = rd[1] + got[1] /\ high = ControlWritten + out[0]
    OBVIOUS
  <2>1. low \in Nat /\ high \in Nat /\ low = got[1] + got[1] + 1 /\ got[1] \in Nat
    BY <1>0, <1>4
  <2>2. /\ Head(chan[<<0, 1>>]) = Mixed(plan, skip)[low] /\ low < high
        /\ Carries(chan'[<<0, 1>>], low + 1, high, Mixed(plan, skip))
    <3>1. Carries(chan[<<0, 1>>], low, high, Mixed(plan, skip))
      BY DEF Explained, Account, FirstLine
    <3>2. chan[<<0, 1>>] # <<>> /\ chan' = ReadFrom(0, 1) /\ IInv /\ 0 \in Stages /\ 1 \in Stages
      BY <1>0, <1>4
    <3>3. low \in Nat /\ high \in Nat
      BY <2>1
    <3> QED
      BY ONLY <3>1, <3>2, <3>3, LineRead
  <2>3. Head(chan[<<0, 1>>]) = Output(skip, 0)[got[1]]
    <3> PICK p : p = got[1]
      OBVIOUS
    <3>1. p \in Nat
      BY <2>1
    <3>2. Mixed(plan, skip)[p + p + 1] = Output(skip, 0)[p]
      BY ONLY <3>1, MixedSent
    <3> QED
      BY <2>1, <2>2, <3>2
  <2>4. got[1] < out[0]
    <3>1. ControlWritten <= out[0] + 1
      BY <1>0 DEF Explained, Account, RootPlace, ControlWritten
    <3> QED
      BY <1>0, <2>1, <2>2, <3>1
  <2>5. ControlLines(plan, rd)'
    BY <1>0, <1>1, <1>2, <1>4 DEF Explained, Account, ControlLines
  <2>6. FirstLine(plan, rd, taken, out, skip)'
    <3>1. rd[1] + taken[1] = low + 1
      BY <1>0, <1>1, <1>4
    <3> QED
      BY <1>0, <2>2, <3>1 DEF FirstLine
  <2> QED
    BY <1>4, <2>3, <2>4, <2>5, <2>6
<1>5. ChainLines(taken, out, skip)'
  <2>1. \A v \in Workers \ {1, Post} : v - 1 \in Stages /\ v \in Stages
    BY Ranges
  <2>2. ASSUME NEW v \in Workers \ {1, Post}
        PROVE  Carries(chan'[<<v - 1, v>>], taken[v], out[v - 1], Output(skip, v - 1))
    <3>1. CASE v = w
      BY <1>3, <3>1
    <3>2. CASE v # w
      BY <1>1, <1>2, <2>1, <3>2 DEF Explained, Account, ChainLines
    <3> QED
      BY <3>1, <3>2
  <2> QED
    BY <2>2 DEF ChainLines
<1>6. AnswerLine(taken, out, skip)' /\ PostLine(taken, out, due, skip)'
  <2>1. /\ chan'[<<Last, 0>>] = chan[<<Last, 0>>] /\ chan'[<<Target, Post>>] = chan[<<Target, Post>>]
        /\ taken[0] = got[0] /\ taken[Post] = got[Post]
    BY <1>0, <1>1, <1>2, StageFacts
  <2> QED
    BY <2>1 DEF Explained, Account, AnswerLine, PostLine
<1>7. Decider \in Workers => chan'[<<Decider, Post>>] = chan[<<Decider, Post>>]
  BY <1>0, <1>2, StageFacts
<1> QED
  BY <1>0, <1>3, <1>4, <1>5, <1>6, <1>7

\* What the target sent to the post-target stage is a step on the full route.
LEMMA TargetHead ==
  ASSUME NEW plan, NEW rd, NEW got, NEW out, NEW due, NEW skip,
         Explained(plan, rd, got, out, due, skip),
         chan[<<Target, Post>>] # <<>>, chan' = ReadFrom(Target, Post),
         UNCHANGED <<mode, rootVars>>, NEW taken, Counts(taken, got, Post)
  PROVE  /\ Head(chan[<<Target, Post>>]) = Output(skip, Target)[got[Post]]
         /\ got[Post] \notin skip /\ got[Post] < out[Decider]
         /\ ControlLines(plan, rd)' /\ FirstLine(plan, rd, taken, out, skip)'
         /\ ChainLines(taken, out, skip)' /\ AnswerLine(taken, out, skip)'
         /\ PostLine(taken, out, due, skip)'
         /\ Decider \in Workers => chan'[<<Decider, Post>>] = chan[<<Decider, Post>>]
<1>0. /\ IInv /\ Post \in Stages /\ Target \in Stages /\ Post # 0 /\ Target # 0 /\ Post # 1
      /\ 0 \in Stages /\ 1 \in Stages
      /\ got[Post] \in Nat /\ due \in Nat /\ out[Decider] \in Nat
      /\ Post \in Int /\ Target \in Workers /\ Decider # Target /\ Last # 0 /\ Last \in Stages
      /\ ControlWritten' = ControlWritten
  <2>1. ControlWritten' = ControlWritten
    BY DEF ControlWritten, rootVars
  <2>2. IInv /\ due \in Nat /\ \A s \in Stages : got[s] \in Nat /\ out[s] \in Nat
    BY Counters DEF Explained, Accounts
  <2> QED
    BY <2>1, <2>2, Ranges, StageFacts
<1>1. /\ taken[Post] = got[Post] + 1
      /\ \A v \in Stages : v # Post => taken[v] = got[v]
  BY <1>0 DEF Explained, Accounts, Counts
<1>2. \A k \in Stages, l \in Stages : (k # Target \/ l # Post) => chan'[<<k, l>>] = chan[<<k, l>>]
  BY <1>0, ReadElsewhere
<1>3. /\ got[Post] < due /\ Head(chan[<<Target, Post>>]) = Output(skip, Target)[got[Post]]
      /\ Carries(chan'[<<Target, Post>>], got[Post] + 1, due, Output(skip, Target))
  <2>1. Carries(chan[<<Target, Post>>], got[Post], due, Output(skip, Target))
    BY DEF Explained, Account, PostLine
  <2>2. chan[<<Target, Post>>] # <<>> /\ chan' = ReadFrom(Target, Post)
    OBVIOUS
  <2> QED
    BY ONLY <1>0, <2>1, <2>2, LineRead
<1>4. PostLine(taken, out, due, skip)' /\ got[Post] \notin skip /\ got[Post] < out[Decider]
  <2>1. PostLine(got, out, due, skip)
    BY DEF Explained, Account
  <2>2. got[Post] \in got[Post] .. due - 1
    BY <1>0, <1>3
  <2>3. \A x \in got[Post] + 1 .. due - 1 : x \in got[Post] .. due - 1
    BY <1>0
  <2>4. due <= out[Decider] /\ \A x \in got[Post] .. due - 1 : x \notin skip
    BY <2>1 DEF PostLine
  <2>5. got[Post] \notin skip /\ got[Post] < out[Decider]
    BY <1>0, <1>3, <2>2, <2>4
  <2>6. PostLine(taken, out, due, skip)'
    BY <1>1, <1>3, <2>1, <2>3, <2>4 DEF PostLine
  <2> QED
    BY <2>5, <2>6
<1>5. ControlLines(plan, rd)' /\ FirstLine(plan, rd, taken, out, skip)'
  BY <1>0, <1>1, <1>2, StageFacts DEF Explained, Account, ControlLines, FirstLine
<1>6. ChainLines(taken, out, skip)'
  <2>1. \A v \in Workers \ {1, Post} : v - 1 \in Stages /\ v \in Stages
    BY Ranges
  <2> QED
    BY <1>1, <1>2, <2>1 DEF Explained, Account, ChainLines
<1>7. AnswerLine(taken, out, skip)'
  BY <1>0, <1>1, <1>2 DEF Explained, Account, AnswerLine
<1>8. Decider \in Workers => chan'[<<Decider, Post>>] = chan[<<Decider, Post>>]
  BY <1>0, <1>2, StageFacts
<1> QED
  BY <1>3, <1>4, <1>5, <1>6, <1>7, <1>8

\* What the decision stage sent past the target is the skipped step.
LEMMA BypassHead ==
  ASSUME NEW plan, NEW rd, NEW got, NEW out, NEW due, NEW skip,
         Explained(plan, rd, got, out, due, skip), Decider \in Workers,
         chan[<<Decider, Post>>] # <<>>, chan' = ReadFrom(Decider, Post),
         UNCHANGED <<mode, rootVars>>, NEW taken, Counts(taken, got, Post)
  PROVE  /\ Head(chan[<<Decider, Post>>]) =
              BypassActivation(got[Post], Route(skip, got[Post], Decider))
         /\ got[Post] \in skip /\ got[Post] < out[Decider] /\ due = got[Post]
         /\ ControlLines(plan, rd)' /\ FirstLine(plan, rd, taken, out, skip)'
         /\ ChainLines(taken, out, skip)' /\ AnswerLine(taken, out, skip)'
         /\ PostLine(taken, out, due + 1, skip)'
         /\ chan'[<<Decider, Post>>] = <<>> /\ pc[Decider] # "bypass"
<1>0. /\ IInv /\ Post \in Stages /\ Target \in Stages /\ Post # 0 /\ Target # 0 /\ Post # 1
      /\ 0 \in Stages /\ 1 \in Stages /\ Decider \in Stages /\ Decider # 0
      /\ got[Post] \in Nat /\ due \in Nat /\ out[Decider] \in Nat /\ out[Target] \in Nat
      /\ Post \in Int /\ Target \in Workers /\ Decider # Target /\ Last # 0 /\ Last \in Stages
      /\ ControlWritten' = ControlWritten
  <2>1. ControlWritten' = ControlWritten
    BY DEF ControlWritten, rootVars
  <2>2. IInv /\ due \in Nat /\ \A s \in Stages : got[s] \in Nat /\ out[s] \in Nat
    BY Counters DEF Explained, Accounts
  <2> QED
    BY <2>1, <2>2, Ranges, StageFacts
<1>1. /\ taken[Post] = got[Post] + 1
      /\ \A v \in Stages : v # Post => taken[v] = got[v]
  BY <1>0 DEF Explained, Accounts, Counts
<1>2. \A k \in Stages, l \in Stages : (k # Decider \/ l # Post) => chan'[<<k, l>>] = chan[<<k, l>>]
  BY <1>0, ReadElsewhere
<1>3. /\ chan[<<Decider, Post>>] = <<BypassActivation(got[Post], Route(skip, got[Post], Decider))>>
      /\ got[Post] \in skip /\ got[Post] < out[Decider] /\ pc[Decider] # "bypass"
  BY DEF Explained, Account, BypassLine
<1>4. chan'[<<Decider, Post>>] = <<>>
  <2>1. chan'[<<Decider, Post>>] = Tail(chan[<<Decider, Post>>])
    BY <1>0, StateTypes, SocketWrite
  <2> QED
    BY <1>3, <2>1
<1>5. PostLine(got, out, due, skip)
  BY DEF Explained, Account
<1>6. due = got[Post] /\ chan[<<Target, Post>>] = <<>>
  <2>1. Carries(chan[<<Target, Post>>], got[Post], due, Output(skip, Target))
    BY <1>5 DEF PostLine
  <2>2. chan[<<Target, Post>>] \in Seq(Frames) /\ got[Post] \in Nat /\ due \in Nat
    BY <1>0, StateTypes
  <2>3. got[Post] <= due /\ (got[Post] = due => chan[<<Target, Post>>] = <<>>)
    BY ONLY <2>1, <2>2, CarriesNone
  <2>4. ~(got[Post] < due)
    <3>1. got[Post] < due => got[Post] \in got[Post] .. due - 1
      BY <1>0
    <3> QED
      BY <1>3, <1>5, <3>1 DEF PostLine
  <2> QED
    BY <1>0, <2>3, <2>4
<1>7. PostLine(taken, out, due + 1, skip)'
  <2>1. chan'[<<Target, Post>>] = <<>> /\ chan'[<<Target, Post>>] \in Seq(Frames)
    BY <1>0, <1>2, <1>6, StateTypes
  <2>2. Carries(chan'[<<Target, Post>>], taken[Post], due + 1, Output(skip, Target))
    <3>1. taken[Post] = due + 1 /\ due + 1 \in Nat
      BY <1>0, <1>1, <1>6
    <3> QED
      BY ONLY <2>1, <3>1, CarriesNone
  <2>3. due + 1 <= out[Decider]
    BY <1>0, <1>3, <1>6
  <2>4. \A x \in taken[Post] .. (due + 1) - 1 : FALSE
    BY <1>0, <1>1, <1>6
  <2>5. out[Target] .. (due + 1) - 1 \subseteq skip
    <3>1. \A x \in out[Target] .. (due + 1) - 1 : x = due \/ x \in out[Target] .. due - 1
      BY <1>0
    <3> QED
      BY <1>3, <1>5, <1>6, <3>1 DEF PostLine
  <2>6. (due + 1) .. out[Target] - 1 \subseteq skip
    <3>1. \A x \in (due + 1) .. out[Target] - 1 : x \in due .. out[Target] - 1
      BY <1>0
    <3> QED
      BY <1>5, <3>1 DEF PostLine
  <2> QED
    BY <2>2, <2>3, <2>4, <2>5, <2>6 DEF PostLine
<1>8. ControlLines(plan, rd)' /\ FirstLine(plan, rd, taken, out, skip)'
  BY <1>0, <1>1, <1>2, StageFacts DEF Explained, Account, ControlLines, FirstLine
<1>9. ChainLines(taken, out, skip)'
  <2>1. \A v \in Workers \ {1, Post} : v - 1 \in Stages /\ v \in Stages
    BY Ranges
  <2> QED
    BY <1>1, <1>2, <2>1 DEF Explained, Account, ChainLines
<1>10. AnswerLine(taken, out, skip)'
  BY <1>0, <1>1, <1>2 DEF Explained, Account, AnswerLine
<1> QED
  BY <1>3, <1>4, <1>6, <1>7, <1>8, <1>9, <1>10

\* Between packet and activation a worker has taken as many activations as it
\* finished steps.
LEMMA BetweenReads ==
  ASSUME NEW plan, NEW rd, NEW got, NEW out, NEW due, NEW skip,
         Explained(plan, rd, got, out, due, skip), NEW w \in Workers,
         pc[w] \in {"recv", "probeNormal"}
  PROVE  /\ out[w] = got[w] /\ rd[w] = got[w] + 1 /\ got[w] \in Nat /\ got[w] < nextPos
         /\ cur[w] = plan[got[w]] /\ cur[w].pos = got[w] /\ (cur[w].single => cur[w].decode)
<1>1. /\ rd[w] \in Nat /\ got[w] \in Nat /\ out[w] \in Nat
      /\ WorkerPlace(w, plan, rd, got, out, skip)
  BY WorkerFacts
<1>2. /\ rd[w] = out[w] + 1 /\ out[w] < nextPos
      /\ cur[w] = plan[out[w]] /\ cur[w].pos = out[w] /\ (cur[w].single => cur[w].decode)
  BY InHand
<1>3. rd[w] = got[w] + 1
  BY <1>1 DEF WorkerPlace
<1> QED
  BY <1>1, <1>2, <1>3

\* beforeForward takes the activation of the step in hand and goes on to the
\* stage's layers.
LEMMA ActivationTaken ==
  ASSUME NEW plan, NEW rd, NEW got, NEW out, NEW due, NEW skip,
         Explained(plan, rd, got, out, due, skip), NEW w \in Workers,
         pc[w] \in {"recv", "probeNormal"}, NEW i \in Stages, Receive(w, i),
         NEW taken, Counts(taken, got, w), NEW supplied \in Nat,
         NEW frame, frame = Head(chan[<<i, w>>]), frame.kind = "act", ~frame.empty,
         frame.pos = got[w], frame.via = Route(skip, got[w], w - 1),
         ~(w = Target /\ got[w] \in skip),
         \A s \in Stages \ {Target} : s < w => got[w] < out[s],
         ControlLines(plan, rd)', FirstLine(plan, rd, taken, out, skip)',
         ChainLines(taken, out, skip)', AnswerLine(taken, out, skip)',
         PostLine(taken, out, supplied, skip)',
         Decider \in Workers => IF w = Post
                                THEN chan'[<<Decider, Post>>] = <<>> /\ pc[Decider] # "bypass"
                                ELSE chan'[<<Decider, Post>>] = chan[<<Decider, Post>>]
  PROVE  Accounted'
<1> PICK p : p = got[w]
  OBVIOUS
<1>0. /\ w \in Stages /\ w # 0 /\ p \in Nat /\ rd[w] = p + 1 /\ out[w] = p /\ got[w] = p
      /\ \A s \in Stages : got[s] \in Nat /\ out[s] \in Nat
      /\ p < nextPos /\ nextPos \in Nat
      /\ cur[w] = plan[p] /\ cur[w].pos = p /\ (cur[w].single => cur[w].decode)
      /\ pc \in [Workers -> WorkerStates] /\ xPipe \in [Workers -> SUBSET Passes]
  BY WorkerFacts, BetweenReads, StateTypes DEF Explained
<1>1. /\ taken \in [Stages -> Nat] /\ taken[w] = p + 1
      /\ \A s \in Stages : s # w => taken[s] = got[s]
      /\ \A s \in Stages : taken[s] >= got[s]
  BY <1>0 DEF Explained, Accounts, Counts
<1>2. AfterReceive(w, frame) = "forward"
  BY <1>0 DEF AfterReceive, Usable
<1>3. /\ pc' = [pc EXCEPT ![w] = "forward"]
      /\ xPipe' = [xPipe EXCEPT ![w] = Route(skip, p, w - 1)]
      /\ UNCHANGED <<mode, rootVars, cur, kv, judgeVars>>
  BY <1>0, <1>2 DEF Receive
<1>4. /\ pc'[w] = "forward" /\ xPipe'[w] = Route(skip, p, w - 1)
      /\ \A v \in Workers : v # w => pc'[v] = pc[v] /\ xPipe'[v] = xPipe[v]
      /\ UNCHANGED <<mode, nextPos, firstDecode, answer, rootPc, waveChunks, cur, kv>>
      /\ UNCHANGED <<lastAccept, accepted>>
  BY <1>0, <1>3 DEF rootVars, judgeVars
<1>5. /\ w # Decider => UNCHANGED <<hasPrevXPipeRow, hasLastDeltaNorm>>
      /\ hasPrevXPipeRow' => hasPrevXPipeRow \/ (DecodeSingle(w) /\ w = Decider)
      /\ w = Decider /\ hasLastDeltaNorm' => hasPrevXPipeRow
  <2>1. hasPrevXPipeRow \in BOOLEAN
    BY DEF Explained, IInv, TypeInv, TypeOK
  <2> QED
    BY <2>1 DEF Receive
<1>6. Accounts(plan, rd, taken, out, supplied, skip)
  BY <1>1 DEF Explained, Accounts
<1>7. Planned(plan)' /\ RootPlace(plan, taken, out)'
  <2>1. Planned(plan) /\ RootPlace(plan, got, out) /\ taken[0] = got[0]
    BY <1>0, <1>1, StageFacts DEF Explained, Account
  <2> QED
    BY <1>4, <2>1 DEF Planned, RootPlace
<1>8. ASSUME NEW v \in Workers
      PROVE  WorkerPlace(v, plan, rd, taken, out, skip)'
  <2>1. WorkerPlace(v, plan, rd, got, out, skip)
    BY DEF Explained, Account
  <2>2. CASE v = w
    BY <1>0, <1>1, <1>4, <2>1, <2>2 DEF WorkerPlace
  <2>3. CASE v # w
    <3>1. taken[v] = got[v]
      BY <1>1, <2>3, StageFacts
    <3> QED
      BY <1>4, <2>1, <2>3, <3>1 DEF WorkerPlace
  <2> QED
    BY <2>2, <2>3
<1>9. InOrder(taken, out)'
  <2>1. ASSUME NEW u \in Stages \ {Target}, NEW j \in Stages, u < j
        PROVE  taken[j] <= out[u]
    <3>1. CASE j = w
      <4>1. p < out[u] /\ out[u] \in Nat
        BY <1>0, <2>1, <3>1
      <4> QED
        BY <1>0, <1>1, <3>1, <4>1
    <3>2. CASE j # w
      BY <1>1, <2>1, <3>2 DEF Explained, Account, InOrder
    <3> QED
      BY <3>1, <3>2
  <2>2. taken[0] = got[0]
    BY <1>0, <1>1, StageFacts
  <2> QED
    BY <2>1, <2>2 DEF Explained, Account, InOrder
<1>10. BypassLine(taken, out, skip)'
  <2>1. ASSUME Decider \in Workers
        PROVE  pc'[Decider] = "bypass" => pc[Decider] = "bypass"
    BY <1>4, <2>1
  <2>2. CASE w = Post
    BY <1>0, <2>1, <2>2 DEF BypassLine
  <2>3. CASE w # Post
    <3>1. taken[Post] = got[Post]
      BY <1>1, <2>3, StageFacts
    <3> QED
      BY <1>4, <2>1, <2>3, <3>1 DEF Explained, Account, BypassLine
  <2> QED
    BY <2>2, <2>3
<1>11. Decided(plan, taken, out, skip)'
  <2>1. CASE Decider \in Workers /\ w = Decider
    <3>1. \A a \in accepted : a \in Nat /\ a < p /\ plan[a].single
      BY <1>0, <2>1, StateTypes DEF Explained, Account, Decided
    <3>2. /\ \A a \in accepted : a < p + 1
          /\ p \notin accepted
      BY <1>0, <3>1
    <3> QED
      BY <1>0, <1>1, <1>4, <2>1, <3>1, <3>2 DEF Explained, Account, Decided, Execute
  <2>2. CASE Decider \in Workers /\ w # Decider
    <3>1. taken[Decider] = got[Decider] /\ pc'[Decider] = pc[Decider]
      BY <1>1, <1>4, <2>2, StageFacts
    <3> QED
      BY <1>4, <2>2, <3>1 DEF Explained, Account, Decided, Execute, Skipping, DecodeSingle
  <2>3. CASE Decider \notin Workers
    BY <1>4, <2>3 DEF Explained, Account, Decided, Execute
  <2> QED
    BY <2>1, <2>2, <2>3
<1>12. Phases(plan, rd, taken, out)'
  <2>1. CASE Decider \in Workers /\ w = Decider
    <3>1. rd[w] - 1 = p /\ taken[w] - 1 = p /\ 0 .. got[w] - 1 = 0 .. p - 1
      BY <1>0, <1>1
    <3>2. hasPrevXPipeRow => \E r \in 0 .. p - 1 :
                               plan[r].single /\ \A x \in r .. p : plan[x].decode
      <4>1. pc[w] # "stopped"
        OBVIOUS
      <4> QED
        BY <2>1, <3>1, <4>1 DEF Explained, Account, Phases
    <3>3. ASSUME hasPrevXPipeRow'
          PROVE  \E r \in 0 .. p : plan[r].single /\ \A x \in r .. p : plan[x].decode
      <4>1. CASE hasPrevXPipeRow
        <5>1. \A r \in 0 .. p - 1 : r \in 0 .. p
          BY <1>0
        <5> QED
          BY <3>2, <4>1, <5>1
      <4>2. CASE DecodeSingle(w)
        <5>1. plan[p].single /\ plan[p].decode
          BY <1>0, <4>2 DEF DecodeSingle
        <5>2. p \in 0 .. p /\ \A x \in p .. p : x = p
          BY <1>0
        <5> QED
          BY <5>1, <5>2
      <4> QED
        BY <1>5, <3>3, <4>1, <4>2
    <3>4. ASSUME hasLastDeltaNorm'
          PROVE  ~Fresh(plan, p)
      <4>1. PICK r \in 0 .. p - 1 : plan[r].single /\ \A x \in r .. p : plan[x].decode
        BY <1>5, <2>1, <3>2, <3>4
      <4> QED
        BY <4>1 DEF Fresh
    <3> QED
      BY <1>0, <1>4, <2>1, <3>1, <3>3, <3>4 DEF Explained, Account, Phases
  <2>2. CASE Decider \in Workers /\ w # Decider
    <3>1. taken[Decider] = got[Decider] /\ pc'[Decider] = pc[Decider]
      BY <1>1, <1>4, <2>2, StageFacts
    <3> QED
      BY <1>4, <1>5, <2>2, <3>1 DEF Explained, Account, Phases
  <2>3. CASE Decider \notin Workers
    BY <1>4, <2>3 DEF Explained, Account, Phases
  <2> QED
    BY <2>1, <2>2, <2>3
<1>13. Cached(taken, out, skip)'
  <2>1. Cached(got, out, skip)
    BY DEF Explained, Account
  <2>2. \A v \in Workers : pc'[v] \in {"judge", "send"} => pc[v] = pc'[v]
    BY <1>4
  <2>3. \A x \in kv[Target] : x < taken[Target]
    <3>1. got[Target] \in Nat /\ taken[Target] \in Nat /\ taken[Target] >= got[Target]
      BY <1>0, <1>1, StageFacts
    <3>2. kv[Target] \in SUBSET Nat
      BY StateTypes, StageFacts DEF Explained
    <3> QED
      BY <2>1, <3>1, <3>2 DEF Cached
  <2>4. pc'[Target] \in {"forward", "send"} => out[Target] \notin skip
    <3>1. CASE w = Target
      BY <1>0, <3>1
    <3>2. CASE w # Target
      BY <1>4, <2>1, <3>2, StageFacts DEF Cached
    <3> QED
      BY <3>1, <3>2
  <2> QED
    BY <1>4, <2>1, <2>2, <2>3, <2>4 DEF Cached
<1> QED
  BY <1>6, <1>7, <1>8, <1>9, <1>10, <1>11, <1>12, <1>13 DEF Account, Accounted

\* The bypassed stage takes its marker, and is done with the step.
LEMMA MarkerTaken ==
  ASSUME NEW plan, NEW rd, NEW got, NEW out, NEW due, NEW skip,
         Explained(plan, rd, got, out, due, skip), NEW w \in Workers, w = Target,
         pc[w] \in {"recv", "probeNormal"}, NEW i \in Stages, Receive(w, i),
         NEW taken, Counts(taken, got, w),
         Head(chan[<<i, w>>]) = Marker(got[w]), got[w] \in skip,
         \A s \in Stages \ {Target} : s < w => got[w] < out[s],
         ControlLines(plan, rd)', FirstLine(plan, rd, taken, out, skip)',
         ChainLines(taken, out, skip)', AnswerLine(taken, out, skip)',
         PostLine(taken, out, due, skip)',
         Decider \in Workers => chan'[<<Decider, Post>>] = chan[<<Decider, Post>>]
  PROVE  Accounted'
<1> PICK p : p = got[w]
  OBVIOUS
<1> PICK done : done = [out EXCEPT ![w] = p + 1]
  OBVIOUS
<1>0. /\ w \in Stages /\ w # 0 /\ p \in Nat /\ rd[w] = p + 1 /\ out[w] = p /\ got[w] = p
      /\ w # Post /\ w # Decider /\ w # Last
      /\ \A s \in Stages : got[s] \in Nat /\ out[s] \in Nat
      /\ p < nextPos /\ nextPos \in Nat
      /\ cur[w] = plan[p] /\ cur[w].pos = p /\ (cur[w].single => cur[w].decode)
      /\ pc \in [Workers -> WorkerStates] /\ xPipe \in [Workers -> SUBSET Passes]
  <2>1. w # Post /\ w # Decider /\ w # Last
    BY Ranges
  <2> QED
    BY <2>1, WorkerFacts, BetweenReads, StateTypes DEF Explained
<1>1. /\ taken \in [Stages -> Nat] /\ taken[w] = p + 1
      /\ \A s \in Stages : s # w => taken[s] = got[s]
      /\ done \in [Stages -> Nat] /\ done[w] = p + 1
      /\ \A s \in Stages : s # w => done[s] = out[s]
  BY <1>0 DEF Explained, Accounts, Counts
<1>2. AfterReceive(w, Marker(p)) = "ctrl" /\ Marker(p).kind = "act" /\ Marker(p).empty
  <2>1. Execute /\ p \in accepted /\ (Decider \in Workers => plan[p].single) /\ Decider \in Workers
    BY <1>0, StateTypes DEF Explained, Account, Decided
  <2> QED
    BY <1>0, <2>1 DEF AfterReceive, Marker, DecodeSingle
<1>3. /\ pc' = [pc EXCEPT ![w] = "ctrl"] /\ xPipe' = xPipe
      /\ UNCHANGED <<mode, rootVars, cur, kv, judgeVars>>
  BY <1>0, <1>2 DEF Receive
<1>4. /\ pc'[w] = "ctrl" /\ xPipe' = xPipe
      /\ \A v \in Workers : v # w => pc'[v] = pc[v]
      /\ UNCHANGED <<mode, nextPos, firstDecode, answer, rootPc, waveChunks, cur, kv>>
      /\ UNCHANGED <<lastAccept, accepted>>
  BY <1>0, <1>3 DEF rootVars, judgeVars
<1>5. UNCHANGED <<hasPrevXPipeRow, hasLastDeltaNorm>>
  <2>1. hasPrevXPipeRow \in BOOLEAN
    BY DEF Explained, IInv, TypeInv, TypeOK
  <2> QED
    BY <1>0, <2>1 DEF Receive
<1>6. Accounts(plan, rd, taken, done, due, skip)
  BY <1>1 DEF Explained, Accounts
<1>7. Planned(plan)' /\ RootPlace(plan, taken, done)'
  BY <1>0, <1>1, <1>4, StageFacts DEF Explained, Account, Planned, RootPlace
<1>8. ASSUME NEW v \in Workers
      PROVE  WorkerPlace(v, plan, rd, taken, done, skip)'
  <2>1. WorkerPlace(v, plan, rd, got, out, skip)
    BY DEF Explained, Account
  <2>2. CASE v = w
    BY <1>0, <1>1, <1>4, <2>1, <2>2 DEF WorkerPlace
  <2>3. CASE v # w
    <3>1. taken[v] = got[v] /\ done[v] = out[v]
      BY <1>1, <2>3, StageFacts
    <3> QED
      BY <1>4, <2>1, <2>3, <3>1 DEF WorkerPlace
  <2> QED
    BY <2>2, <2>3
<1>9. InOrder(taken, done)'
  <2>1. ASSUME NEW u \in Stages \ {Target}, NEW j \in Stages, u < j
        PROVE  taken[j] <= done[u]
    <3>1. CASE j = w
      <4>1. p < out[u] /\ out[u] \in Nat
        BY <1>0, <2>1, <3>1
      <4> QED
        BY <1>0, <1>1, <3>1, <4>1
    <3>2. CASE j # w
      BY <1>1, <2>1, <3>2 DEF Explained, Account, InOrder
    <3> QED
      BY <3>1, <3>2
  <2>2. taken[0] = got[0] /\ \A u \in Stages \ {Target} : done[u] = out[u]
    BY <1>0, <1>1, StageFacts
  <2> QED
    BY <2>1, <2>2 DEF Explained, Account, InOrder
<1>10. FirstLine(plan, rd, taken, done, skip)' /\ AnswerLine(taken, done, skip)'
  <2>1. done[0] = out[0] /\ done[Last] = out[Last]
    BY <1>0, <1>1, StageFacts
  <2> QED
    BY <2>1 DEF FirstLine, AnswerLine
<1>11. ChainLines(taken, done, skip)'
  <2>1. \A v \in Workers \ {1, Post} : done[v - 1] = out[v - 1]
    <3>1. \A v \in Workers \ {1, Post} : v - 1 \in Stages /\ v - 1 # Target
      BY Ranges
    <3> QED
      BY <1>1, <3>1
  <2> QED
    BY <2>1 DEF ChainLines
<1>12. PostLine(taken, done, due, skip)'
  <2>1. due \in Nat /\ done[Decider] = out[Decider] /\ done[Target] = p + 1 /\ out[Target] = p
    BY <1>0, <1>1, StageFacts DEF Explained, Accounts
  <2>2. \A x \in done[Target] .. due - 1 : x \in out[Target] .. due - 1
    BY <1>0, <2>1
  <2>3. \A x \in due .. done[Target] - 1 : x = p \/ x \in due .. out[Target] - 1
    BY <1>0, <2>1
  <2> QED
    BY <1>0, <2>1, <2>2, <2>3 DEF PostLine
<1>13. BypassLine(taken, done, skip)'
  <2>1. /\ taken[Post] = got[Post] /\ done[Decider] = out[Decider]
        /\ Decider \in Workers => pc'[Decider] = pc[Decider]
    BY <1>0, <1>1, <1>4, StageFacts
  <2> QED
    BY <2>1 DEF Explained, Account, BypassLine
<1>14. Decided(plan, taken, done, skip)'
  <2>1. /\ taken[Decider] = got[Decider] /\ done[Decider] = out[Decider]
        /\ Decider \in Workers => pc'[Decider] = pc[Decider]
    BY <1>0, <1>1, <1>4, StageFacts
  <2> QED
    BY <1>4, <2>1 DEF Explained, Account, Decided, Execute, Skipping, DecodeSingle
<1>15. Phases(plan, rd, taken, done)'
  <2>1. /\ taken[Decider] = got[Decider] /\ done[Decider] = out[Decider]
        /\ Decider \in Workers => pc'[Decider] = pc[Decider]
    BY <1>0, <1>1, <1>4, StageFacts
  <2> QED
    BY <1>4, <1>5, <2>1 DEF Explained, Account, Phases
<1>16. Cached(taken, done, skip)'
  <2>1. Cached(got, out, skip)
    BY DEF Explained, Account
  <2>2. \A v \in Workers : pc'[v] \in {"judge", "send"} => pc[v] = pc'[v] /\ done[v] = out[v]
    BY <1>1, <1>4, StageFacts
  <2>3. \A x \in kv[Target] : x < taken[Target]
    <3>1. kv[Target] \in SUBSET Nat
      BY StateTypes, StageFacts DEF Explained
    <3> QED
      BY <1>0, <1>1, <2>1, <3>1 DEF Cached
  <2>4. 0 .. done[Target] - 1 \subseteq kv[Target] \cup skip
    <3>1. \A x \in 0 .. done[Target] - 1 : x = p \/ x \in 0 .. out[Target] - 1
      BY <1>0, <1>1
    <3> QED
      BY <1>0, <2>1, <3>1 DEF Cached
  <2>5. \A s \in Stages \ {Target} : done[s] = out[s]
    BY <1>0, <1>1
  <2> QED
    BY <1>0, <1>4, <2>1, <2>2, <2>3, <2>4, <2>5 DEF Cached
<1> QED
  BY <1>4, <1>6, <1>7, <1>8, <1>9, <1>10, <1>11, <1>12, <1>13, <1>14, <1>15, <1>16
  DEF Account, Accounted

\* What a stage has finished, the stages before it have, the target excepted.
LEMMA FinishedBefore ==
  ASSUME NEW plan, NEW rd, NEW got, NEW out, NEW due, NEW skip,
         Explained(plan, rd, got, out, due, skip), NEW u \in Stages, u # Target,
         NEW p \in Nat, p < out[u], NEW s \in Stages, s # Target, s <= u
  PROVE  p < out[s]
<1>1. CASE s = u
  BY <1>1
<1>2. CASE s # u
  <2>1. s < u /\ u \in Workers
    BY <1>2, Ranges
  <2>2. out[u] <= got[u] /\ got[u] <= out[s]
    BY <2>1 DEF Explained, Account, InOrder, WorkerPlace
  <2>3. out[u] \in Nat /\ got[u] \in Nat /\ out[s] \in Nat
    BY Counters DEF Explained
  <2> QED
    BY <2>2, <2>3
<1> QED
  BY <1>1, <1>2

\* An activation or a marker comes from the stage before.
LEMMA ReceivedInChain ==
  ASSUME NEW plan, NEW rd, NEW got, NEW out, NEW due, NEW skip,
         Explained(plan, rd, got, out, due, skip), NEW w \in Workers, w # Post,
         pc[w] = "recv", chan[<<w - 1, w>>] # <<>>, Receive(w, w - 1)
  PROVE  Accounted'
<1> PICK taken : Counts(taken, got, w)
  BY DEF Counts
<1> PICK p : p = got[w]
  OBVIOUS
<1> PICK frame : frame = Head(chan[<<w - 1, w>>])
  OBVIOUS
<1>0. chan' = ReadFrom(w - 1, w) /\ UNCHANGED <<mode, rootVars>>
  BY DEF Receive
<1>1. /\ frame = Output(skip, w - 1)[p] /\ p < out[w - 1]
      /\ ControlLines(plan, rd)' /\ FirstLine(plan, rd, taken, out, skip)'
      /\ ChainLines(taken, out, skip)' /\ AnswerLine(taken, out, skip)'
      /\ PostLine(taken, out, due, skip)'
      /\ Decider \in Workers => chan'[<<Decider, Post>>] = chan[<<Decider, Post>>]
  BY <1>0, ChainHead
<1>2. p \in Nat /\ p = got[w] /\ w - 1 \in Stages /\ w - 1 # Target /\ due \in Nat
      /\ (w = Target <=> w - 1 = Decider) /\ w \in Int
  <2>1. w - 1 # Target /\ (w = Target <=> w - 1 = Decider) /\ w \in Int /\ w - 1 \in Stages
    BY Ranges
  <2>2. p \in Nat
    BY WorkerFacts
  <2> QED
    BY <2>1, <2>2 DEF Explained, Accounts
<1>3. \A s \in Stages \ {Target} : s < w => p < out[s]
  <2>1. ASSUME NEW s \in Stages, s # Target, s < w
        PROVE  p < out[s]
    <3>1. s <= w - 1
      BY <1>2, <2>1, Ranges
    <3> QED
      BY <1>1, <1>2, <2>1, <3>1, FinishedBefore
  <2> QED
    BY <2>1
<1>4. frame = IF w = Target /\ p \in skip THEN Marker(p) ELSE Activation(p, Route(skip, p, w - 1))
  BY <1>1, <1>2, OutputEntry
<1>5. CASE w = Target /\ p \in skip
  <2>1. Head(chan[<<w - 1, w>>]) = Marker(got[w]) /\ got[w] \in skip
    BY <1>2, <1>4, <1>5
  <2> QED
    BY <1>1, <1>2, <1>3, <1>5, <2>1, MarkerTaken
<1>6. CASE ~(w = Target /\ p \in skip)
  <2>1. /\ frame.kind = "act" /\ ~frame.empty /\ frame.pos = got[w]
        /\ frame.via = Route(skip, got[w], w - 1)
    BY <1>2, <1>4, <1>6 DEF Activation
  <2> QED
    BY <1>1, <1>2, <1>3, <1>6, <2>1, ActivationTaken
<1> QED
  BY <1>5, <1>6

\* On the full route the post-target stage takes the target's activation.
LEMMA ReceivedFromTarget ==
  ASSUME NEW plan, NEW rd, NEW got, NEW out, NEW due, NEW skip,
         Explained(plan, rd, got, out, due, skip), NEW w \in Workers, w = Post,
         pc[w] \in {"recv", "probeNormal"}, chan[<<Target, w>>] # <<>>, Receive(w, Target)
  PROVE  Accounted'
<1> PICK taken : Counts(taken, got, w)
  BY DEF Counts
<1> PICK p : p = got[w]
  OBVIOUS
<1> PICK frame : frame = Head(chan[<<Target, w>>])
  OBVIOUS
<1>0. chan' = ReadFrom(Target, Post) /\ UNCHANGED <<mode, rootVars>>
  BY DEF Receive
<1>1. /\ frame = Output(skip, Target)[p] /\ p \notin skip /\ p < out[Decider]
      /\ ControlLines(plan, rd)' /\ FirstLine(plan, rd, taken, out, skip)'
      /\ ChainLines(taken, out, skip)' /\ AnswerLine(taken, out, skip)'
      /\ PostLine(taken, out, due, skip)'
      /\ Decider \in Workers => chan'[<<Decider, Post>>] = chan[<<Decider, Post>>]
  BY <1>0, TargetHead
<1>2. /\ p \in Nat /\ p = got[w] /\ Target \in Stages /\ Decider \in Stages /\ Decider # Target
      /\ w - 1 = Target /\ w # Target /\ due \in Nat
      /\ \A s \in Stages : s # Target /\ s < w => s <= Decider
  <2>1. /\ Target \in Stages /\ Decider \in Stages /\ Decider # Target
        /\ w - 1 = Target /\ w # Target
        /\ \A s \in Stages : s # Target /\ s < w => s <= Decider
    BY Ranges
  <2>2. p \in Nat
    BY WorkerFacts
  <2> QED
    BY <2>1, <2>2 DEF Explained, Accounts
<1>3. \A s \in Stages \ {Target} : s < w => p < out[s]
  <2>1. ASSUME NEW s \in Stages, s # Target, s < w
        PROVE  p < out[s]
    <3>1. s <= Decider
      BY <1>2, <2>1
    <3> QED
      BY <1>1, <1>2, <2>1, <3>1, FinishedBefore
  <2> QED
    BY <2>1
<1>4. frame = Activation(p, Route(skip, p, Target))
  BY <1>1, <1>2, OutputEntry
<1>5. /\ frame.kind = "act" /\ ~frame.empty /\ frame.pos = got[w]
      /\ frame.via = Route(skip, got[w], w - 1)
  BY <1>2, <1>4 DEF Activation
<1>6. Decider \in Workers => chan'[<<Decider, Post>>] = <<>> /\ pc[Decider] # "bypass"
  <2>1. BypassLine(got, out, skip)
    BY DEF Explained, Account
  <2> QED
    BY <1>1, <1>2, <2>1 DEF BypassLine
<1>7. Decider \in Workers => IF w = Post
                             THEN chan'[<<Decider, Post>>] = <<>> /\ pc[Decider] # "bypass"
                             ELSE chan'[<<Decider, Post>>] = chan[<<Decider, Post>>]
  BY <1>6
<1> QED
  BY <1>1, <1>2, <1>3, <1>5, <1>7, ActivationTaken

\* On a skipped step it takes the decision stage's.
LEMMA ReceivedFromDecider ==
  ASSUME NEW plan, NEW rd, NEW got, NEW out, NEW due, NEW skip,
         Explained(plan, rd, got, out, due, skip), NEW w \in Workers, w = Post,
         Decider \in Workers,
         pc[w] \in {"recv", "probeNormal"}, chan[<<Decider, w>>] # <<>>, Receive(w, Decider)
  PROVE  Accounted'
<1> PICK taken : Counts(taken, got, w)
  BY DEF Counts
<1> PICK p : p = got[w]
  OBVIOUS
<1> PICK frame : frame = Head(chan[<<Decider, w>>])
  OBVIOUS
<1> PICK supplied : supplied = due + 1
  OBVIOUS
<1>0. chan' = ReadFrom(Decider, Post) /\ UNCHANGED <<mode, rootVars>>
  BY DEF Receive
<1>1. /\ frame = BypassActivation(p, Route(skip, p, Decider))
      /\ p \in skip /\ p < out[Decider]
      /\ ControlLines(plan, rd)' /\ FirstLine(plan, rd, taken, out, skip)'
      /\ ChainLines(taken, out, skip)' /\ AnswerLine(taken, out, skip)'
      /\ PostLine(taken, out, supplied, skip)'
      /\ chan'[<<Decider, Post>>] = <<>> /\ pc[Decider] # "bypass"
  BY <1>0, BypassHead
<1>2. /\ p \in Nat /\ p = got[w] /\ Target \in Workers /\ Decider \in Stages /\ Decider # Target
      /\ w - 1 = Target /\ w # Target /\ Target - 1 = Decider /\ supplied \in Nat
      /\ \A s \in Stages : s # Target /\ s < w => s <= Decider
  <2>1. /\ Target \in Workers /\ Decider \in Stages /\ Decider # Target
        /\ w - 1 = Target /\ w # Target /\ Target - 1 = Decider
        /\ \A s \in Stages : s # Target /\ s < w => s <= Decider
    BY Ranges
  <2>2. p \in Nat
    BY WorkerFacts
  <2> QED
    BY <2>1, <2>2 DEF Explained, Accounts
<1>3. \A s \in Stages \ {Target} : s < w => p < out[s]
  <2>1. ASSUME NEW s \in Stages, s # Target, s < w
        PROVE  p < out[s]
    <3>1. s <= Decider
      BY <1>2, <2>1
    <3> QED
      BY <1>1, <1>2, <2>1, <3>1, FinishedBefore
  <2> QED
    BY <2>1
<1>4. Route(skip, p, Decider) = Route(skip, p, Target)
  <2>1. Target \in Workers /\ p \in Nat /\ p \in skip
    BY <1>1, <1>2
  <2>2. Route(skip, p, Target - 1) = Route(skip, p, Target)
    BY ONLY <2>1, RouteStep
  <2>3. Target - 1 = Decider
    BY <1>2
  <2> QED
    BY <2>2, <2>3
<1>5. /\ frame.kind = "act" /\ ~frame.empty /\ frame.pos = got[w]
      /\ frame.via = Route(skip, got[w], w - 1)
  BY <1>1, <1>2, <1>4 DEF BypassActivation
<1>6. Decider \in Workers => IF w = Post
                             THEN chan'[<<Decider, Post>>] = <<>> /\ pc[Decider] # "bypass"
                             ELSE chan'[<<Decider, Post>>] = chan[<<Decider, Post>>]
  BY <1>1
<1> QED
  BY <1>1, <1>2, <1>3, <1>5, <1>6, ActivationTaken

\* beforeForward, whichever socket the frame comes from: no stage fails.
LEMMA FrameTaken ==
  ASSUME NEW plan, NEW rd, NEW got, NEW out, NEW due, NEW skip,
         Explained(plan, rd, got, out, due, skip), NEW w \in Workers, RecvActivation(w)
  PROVE  Accounted'
<1>1. pc[w] = "recv" /\ chan[<<w - 1, w>>] # <<>> /\ Receive(w, w - 1)
  BY DEF RecvActivation
<1>2. CASE w # Post
  BY <1>1, <1>2, ReceivedInChain
<1>3. CASE w = Post
  <2>1. w - 1 = Target
    BY <1>3, Ranges
  <2> QED
    BY <1>1, <1>3, <2>1, ReceivedFromTarget
<1> QED
  BY <1>2, <1>3

\* With the target next to the root there is nothing to read from the root
\* while a one-row step is in hand: the root waits for its answer.
LEMMA RootSilent ==
  ASSUME NEW plan, NEW rd, NEW got, NEW out, NEW due, NEW skip,
         Explained(plan, rd, got, out, due, skip), NEW w \in Workers, w = Post,
         pc[w] = "recv", cur[w].single
  PROVE  chan[<<0, w>>] = <<>>
<1> PICK p : p = got[w]
  OBVIOUS
<1>1. /\ p \in Nat /\ rd[w] = p + 1 /\ p < nextPos /\ nextPos \in Nat /\ plan[p].single
      /\ out[w] = p /\ w \in Stages /\ got[0] \in Nat
  BY BetweenReads, WorkerFacts, StageFacts
<1>2. got[0] <= p
  <2>1. w # Target
    BY Ranges
  <2> QED
    BY <1>1, <2>1 DEF Explained, Account, InOrder
<1>3. nextPos = p + 1 /\ p = got[0]
  <2>1. p \in got[0] .. nextPos - 1
    BY <1>1, <1>2
  <2> QED
    BY <1>1, <2>1 DEF Explained, Account, RootPlace
<1>4. ControlWritten = nextPos
  BY <1>1, <1>3 DEF Explained, Account, RootPlace, ControlWritten
<1>5. Carries(chan[<<0, w>>], p + 1, p + 1, plan)
  <2>1. w # 1
    BY Ranges
  <2> QED
    BY <1>1, <1>3, <1>4, <2>1 DEF Explained, Account, ControlLines
<1>6. chan[<<0, w>>] \in Seq(Frames) /\ p + 1 \in Nat
  BY SMTT(60), <1>1, StateTypes, StageFacts DEF Explained
<1> QED
  BY ONLY <1>5, <1>6, CarriesNone

\* The two probes of the post-target stage.
LEMMA Probed ==
  ASSUME NEW plan, NEW rd, NEW got, NEW out, NEW due, NEW skip,
         Explained(plan, rd, got, out, due, skip), NEW w \in Workers,
         ProbeBypass(w) \/ ProbeNormal(w)
  PROVE  Accounted'
<1>0. w = Post /\ pc[w] \in {"recv", "probeNormal"} /\ pc[w] # "stopped"
  BY DEF ProbeBypass, ProbeNormal, PollsBothSockets, Explained, IInv, OwnPlaces
<1>1. ASSUME NEW to, to \in {"recv", "probeNormal"}, pc' = [pc EXCEPT ![w] = to],
             UNCHANGED <<mode, rootVars, chan, cur, xPipe, kv, skipVars>>
      PROVE  Accounted'
  <2>1. Account(plan, rd, got, out, due, skip)'
    BY <1>0, <1>1, PlaceOnly
  <2> QED
    BY <2>1 DEF Accounted, Explained
<1>2. CASE ProbeBypass(w)
  <2>1. pc[w] = "recv" /\ cur[w].single /\ Probe(w, Decider, "probeNormal")
    BY <1>2 DEF ProbeBypass, PollsBothSockets, DecodeSingle
  <2>2. CASE chan[<<Decider, w>>] # <<>> /\ Receive(w, Decider)
    <3>1. Decider \in Workers
      <4>1. chan[<<0, w>>] = <<>>
        BY <1>0, <2>1, RootSilent
      <4>2. Decider # 0
        BY <2>2, <4>1
      <4> QED
        BY <4>2, Ranges
    <3> QED
      BY <1>0, <2>2, <3>1, ReceivedFromDecider
  <2> QED
    BY <1>1, <2>1, <2>2 DEF Probe
<1>3. CASE ProbeNormal(w)
  <2>1. Probe(w, Target, "recv")
    BY <1>3 DEF ProbeNormal
  <2>2. CASE chan[<<Target, w>>] # <<>> /\ Receive(w, Target)
    BY <1>0, <2>2, ReceivedFromTarget
  <2> QED
    BY <1>1, <2>1, <2>2 DEF Probe
<1> QED
  BY <1>2, <1>3

\* executor.forward(): the stage's rows of the step in hand are in its cache,
\* and what it will send went the route up to it.
LEMMA LayersRun ==
  ASSUME NEW plan, NEW rd, NEW got, NEW out, NEW due, NEW skip,
         Explained(plan, rd, got, out, due, skip), NEW w \in Workers, Forward(w)
  PROVE  Accounted'
<1> PICK p : p = out[w]
  OBVIOUS
<1>0. /\ pc[w] = "forward" /\ p \in Nat /\ out[w] = p /\ w \in Stages
      /\ cur[w].pos = p /\ got[w] = p + 1 /\ xPipe[w] = Route(skip, p, w - 1)
      /\ pc \in [Workers -> WorkerStates] /\ xPipe \in [Workers -> SUBSET Passes]
      /\ kv \in [Stages -> SUBSET Nat]
  <2>1. pc[w] = "forward"
    BY DEF Forward
  <2>2. cur[w].pos = p
    BY <2>1, InHand
  <2>3. p \in Nat /\ w \in Stages /\ WorkerPlace(w, plan, rd, got, out, skip)
    BY WorkerFacts
  <2> QED
    BY <2>1, <2>2, <2>3, StateTypes DEF Explained, WorkerPlace
<1>1. ~(w = Target /\ p \in skip)
  BY <1>0 DEF Explained, Account, Cached
<1>2. xPipe[w] \cup {<<w, p>>} = Route(skip, p, w)
  <2>1. p \in Nat /\ xPipe[w] = Route(skip, p, w - 1)
    BY <1>0
  <2>2. Route(skip, p, w - 1) \cup {<<w, p>>} = Route(skip, p, w)
    BY ONLY <2>1, <1>1, w \in Workers, RouteStep
  <2> QED
    BY <2>1, <2>2
<1>3. /\ pc'[w] \in {"judge", "send"} /\ (pc'[w] = "judge" <=> w = Decider)
      /\ xPipe'[w] = Route(skip, p, w)
      /\ \A v \in Workers : v # w => pc'[v] = pc[v] /\ xPipe'[v] = xPipe[v]
      /\ kv'[w] = kv[w] \cup {p} /\ \A s \in Stages : s # w => kv'[s] = kv[s]
      /\ UNCHANGED <<mode, rootVars, chan, cur, skipVars>>
  BY <1>0, <1>2 DEF Forward
<1>4. /\ UNCHANGED <<mode, nextPos, firstDecode, answer, rootPc, waveChunks, chan, cur>>
      /\ UNCHANGED <<lastAccept, accepted, hasPrevXPipeRow, hasLastDeltaNorm>>
  BY <1>3 DEF rootVars, skipVars, deltaVars, judgeVars
<1>5. /\ Planned(plan)' /\ RootPlace(plan, got, out)' /\ InOrder(got, out)'
      /\ ControlLines(plan, rd)' /\ FirstLine(plan, rd, got, out, skip)'
      /\ ChainLines(got, out, skip)' /\ AnswerLine(got, out, skip)' /\ PostLine(got, out, due, skip)'
  BY <1>4 DEF Explained, Account, Planned, RootPlace, InOrder, ControlLines, FirstLine, ChainLines,
     AnswerLine, PostLine, ControlWritten
<1>6. ASSUME NEW v \in Workers
      PROVE  WorkerPlace(v, plan, rd, got, out, skip)'
  <2>1. WorkerPlace(v, plan, rd, got, out, skip)
    BY DEF Explained, Account
  <2>2. CASE v = w
    <3>1. pc'[w] = "judge" \/ pc'[w] = "send"
      BY <1>3
    <3> QED
      BY <1>0, <1>3, <1>4, <2>1, <2>2, <3>1 DEF WorkerPlace
  <2>3. CASE v # w
    BY <1>3, <1>4, <2>1, <2>3 DEF WorkerPlace
  <2> QED
    BY <2>2, <2>3
<1>7. BypassLine(got, out, skip)'
  <2>1. Decider \in Workers => (pc'[Decider] = "bypass" <=> pc[Decider] = "bypass")
    BY <1>0, <1>3
  <2> QED
    BY <1>4, <2>1 DEF Explained, Account, BypassLine
<1>8. Decided(plan, got, out, skip)'
  <2>1. CASE Decider \in Workers /\ w = Decider
    BY <1>0, <1>3, <1>4, <2>1 DEF Explained, Account, Decided, Execute
  <2>2. CASE Decider \in Workers /\ w # Decider
    BY <1>3, <1>4, <2>2 DEF Explained, Account, Decided, Execute, Skipping, DecodeSingle
  <2>3. CASE Decider \notin Workers
    BY <1>4, <2>3 DEF Explained, Account, Decided, Execute
  <2> QED
    BY <2>1, <2>2, <2>3
<1>9. Phases(plan, rd, got, out)'
  <2>1. Decider \in Workers =>
          /\ pc'[Decider] \in {"forward", "judge"} => pc[Decider] \in {"forward", "judge"}
          /\ pc'[Decider] # "stopped" => pc[Decider] # "stopped"
    BY <1>0, <1>3
  <2> QED
    BY <1>4, <2>1 DEF Explained, Account, Phases
<1>10. Cached(got, out, skip)'
  <2>1. Cached(got, out, skip)
    BY DEF Explained, Account
  <2>2. \A s \in Stages : kv[s] \subseteq kv'[s]
    BY <1>3
  <2>3. \A s \in Stages \ {Target} : 0 .. out[s] - 1 \subseteq kv'[s]
    BY <2>1, <2>2 DEF Cached
  <2>4. \A v \in Workers : pc'[v] \in {"judge", "send"} => out[v] \in kv'[v]
    BY <1>0, <1>3, <2>1, StageFacts DEF Cached
  <2>5. \A x \in kv'[Target] : x < got[Target] /\ x \notin skip
    BY <1>0, <1>1, <1>3, <2>1, StageFacts DEF Cached
  <2>6. 0 .. out[Target] - 1 \subseteq kv'[Target] \cup skip
    BY <2>1, <2>2, StageFacts DEF Cached
  <2>7. pc'[Target] \in {"forward", "send"} => out[Target] \notin skip
    BY <1>0, <1>1, <1>3, <2>1, StageFacts DEF Cached
  <2> QED
    BY <1>4, <2>1, <2>3, <2>4, <2>5, <2>6, <2>7 DEF Cached
<1>11. Accounts(plan, rd, got, out, due, skip)
  BY DEF Explained
<1> QED
  BY <1>5, <1>6, <1>7, <1>8, <1>9, <1>10, <1>11 DEF Account, Accounted

\* Two sets of steps differ at most in step p.
SameBut(more, skip, p) == \A n \in Nat : n # p => (n \in more <=> n \in skip)

\* Whether step p is skipped shows only in what is sent for step p, from the
\* decision stage on.
LEMMA SkipShows ==
  ASSUME NEW skip, NEW more, NEW p \in Nat, SameBut(more, skip, p)
  PROVE  /\ \A s \in Stages, n \in Nat : n # p \/ s <= Decider => Route(more, n, s) = Route(skip, n, s)
         /\ \A s \in Stages, n \in Nat : n # p \/ s < Decider => Output(more, s)[n] = Output(skip, s)[n]
<1>1. ASSUME NEW s \in Stages, NEW n \in Nat, n # p \/ s <= Decider
      PROVE  Route(more, n, s) = Route(skip, n, s)
  <2>1. s <= Decider => Target \notin 0 .. s
    BY Ranges
  <2> QED
    BY <1>1, <2>1 DEF Route, SameBut
<1>2. ASSUME NEW s \in Stages, NEW n \in Nat, n # p \/ s < Decider
      PROVE  Output(more, s)[n] = Output(skip, s)[n]
  <2>1. Route(more, n, s) = Route(skip, n, s)
    <3>1. n # p \/ s <= Decider
      BY <1>2, Ranges
    <3> QED
      BY <1>1, <3>1
  <2>2. (s = Decider /\ n \in more) <=> (s = Decider /\ n \in skip)
    BY <1>2, Ranges DEF SameBut
  <2> QED
    BY <2>1, <2>2, OutputEntry
<1> QED
  BY <1>1, <1>2

\* The sockets hold nothing of the step the decision stage evaluates that
\* the decision could change.
LEMMA LinesUndecided ==
  ASSUME NEW plan, NEW rd, NEW got, NEW out, NEW due, NEW skip,
         Explained(plan, rd, got, out, due, skip), Decider \in Workers, pc[Decider] = "judge",
         NEW more, skip \subseteq more, more \subseteq Nat,
         SameBut(more, skip, out[Decider])
  PROVE  /\ FirstLine(plan, rd, got, out, more) /\ ChainLines(got, out, more)
         /\ AnswerLine(got, out, more) /\ PostLine(got, out, due, more)
<1> PICK p : p = out[Decider]
  OBVIOUS
<1>0. /\ p \in Nat /\ Decider > 0 /\ Decider < Target /\ due \in Nat /\ due <= p
      /\ \A s \in Stages : got[s] \in Nat /\ out[s] \in Nat
      /\ \A i, j \in Stages : chan[<<i, j>>] \in Seq(Frames)
  <2>1. Decider > 0 /\ Decider < Target /\ Decider \in Stages
    BY Ranges
  <2>2. \A s \in Stages : got[s] \in Nat /\ out[s] \in Nat
    BY Counters DEF Explained
  <2>3. due \in Nat /\ due <= p
    BY DEF Explained, Account, Accounts, PostLine
  <2> QED
    BY <2>1, <2>2, <2>3, StateTypes DEF Explained
<1>1. \A s \in Stages, n \in Nat : n # p \/ s < Decider => Output(more, s)[n] = Output(skip, s)[n]
  <2>1. SameBut(more, skip, p)
    OBVIOUS
  <2>2. p \in Nat
    BY <1>0
  <2> QED
    BY ONLY <2>1, <2>2, SkipShows
<1>2. \A s \in Stages : s >= Decider /\ s # Target => out[s] <= p
  <2>1. ASSUME NEW s \in Stages, s > Decider, s # Target
        PROVE  out[s] <= p
    <3>1. s \in Workers /\ Decider \in Stages /\ Decider # Target
      BY <2>1, Ranges
    <3>2. out[s] <= got[s] /\ got[s] <= p
      BY <2>1, <3>1 DEF Explained, Account, InOrder, WorkerPlace
    <3> QED
      BY <1>0, <3>2
  <2> QED
    BY <1>0, <2>1, Ranges
<1>3. FirstLine(plan, rd, got, out, more)
  <2>1. 0 \in Stages /\ 0 < Decider
    BY <1>0, StageFacts
  <2>2. \A n \in Nat : n \div 2 \in Nat
    OBVIOUS
  <2>3. Mixed(plan, more) = Mixed(plan, skip)
    BY <1>1, <2>1, <2>2 DEF Mixed
  <2> QED
    BY <2>3 DEF Explained, Account, FirstLine
<1>4. ChainLines(got, out, more)
  <2>1. ASSUME NEW w \in Workers \ {1, Post}
        PROVE  Carries(chan[<<w - 1, w>>], got[w], out[w - 1], Output(more, w - 1))
    <3> PICK i, low, high, f, g, q : /\ i = w - 1 /\ low = got[w] /\ high = out[i]
                                     /\ f = Output(skip, i) /\ g = Output(more, i)
                                     /\ q = chan[<<i, w>>]
      OBVIOUS
    <3>1. /\ i \in Stages /\ i # Target /\ w \in Stages /\ low \in Nat /\ high \in Nat
          /\ q \in Seq(Frames) /\ (i < Decider \/ i >= Decider)
      <4>1. w - 1 \in Stages /\ w - 1 # Target /\ w \in Stages /\ (w - 1 < Decider \/ w - 1 >= Decider)
        BY Ranges
      <4> QED
        BY <1>0, <4>1
    <3>2. Carries(q, low, high, f)
      BY DEF Explained, Account, ChainLines
    <3>3. \A n \in low .. high - 1 : f[n] = g[n]
      <4>1. i >= Decider => high <= p
        BY <1>2, <3>1
      <4>2. ASSUME NEW n \in low .. high - 1
            PROVE  n \in Nat /\ (n # p \/ i < Decider)
        BY <1>0, <3>1, <4>1
      <4> QED
        BY <1>1, <3>1, <4>2
    <3>4. Carries(q, low, high, g)
      BY ONLY <3>1, <3>2, <3>3, CarriesSame
    <3> QED
      BY <3>4
  <2> QED
    BY <2>1 DEF ChainLines
<1>5. AnswerLine(got, out, more)
  <2> PICK low, high, f, g, q : /\ low = got[0] /\ high = out[Last] /\ q = chan[<<Last, 0>>]
                                /\ f = Output(skip, Last) /\ g = Output(more, Last)
    OBVIOUS
  <2>1. Last \in Stages /\ Last # Target /\ Last >= Decider /\ 0 \in Stages
    BY Ranges
  <2>2. low \in Nat /\ high \in Nat /\ high <= p /\ q \in Seq(Frames)
    BY <1>0, <1>2, <2>1
  <2>3. Carries(q, low, high, f)
    BY DEF Explained, Account, AnswerLine
  <2>4. \A n \in low .. high - 1 : f[n] = g[n]
    <3>1. \A n \in low .. high - 1 : n \in Nat /\ n # p
      BY <1>0, <2>2
    <3> QED
      BY <1>1, <2>1, <3>1
  <2>5. Carries(q, low, high, g)
    BY ONLY <2>2, <2>3, <2>4, CarriesSame
  <2> QED
    BY <2>5 DEF AnswerLine
<1>6. PostLine(got, out, due, more)
  <2> PICK low, f, g, q : /\ low = got[Post] /\ q = chan[<<Target, Post>>]
                          /\ f = Output(skip, Target) /\ g = Output(more, Target)
    OBVIOUS
  <2>1. Target \in Stages /\ Post \in Stages
    BY Ranges
  <2>2. low \in Nat /\ due \in Nat /\ q \in Seq(Frames)
    BY <1>0, <2>1
  <2>3. PostLine(got, out, due, skip)
    BY DEF Explained, Account
  <2>4. Carries(q, low, due, f)
    BY <2>3 DEF PostLine
  <2>5. \A n \in low .. due - 1 : n \in Nat /\ n # p
    BY <1>0, <2>2
  <2>6. \A n \in low .. due - 1 : f[n] = g[n]
    BY <1>1, <2>1, <2>5
  <2>7. Carries(q, low, due, g)
    BY ONLY <2>2, <2>4, <2>6, CarriesSame
  <2>8. \A n \in got[Post] .. due - 1 : n \notin more
    BY <2>3, <2>5 DEF PostLine, SameBut
  <2>9. /\ due <= out[Decider] /\ out[Target] .. due - 1 \subseteq more
        /\ due .. out[Target] - 1 \subseteq more
    BY <2>3 DEF PostLine
  <2> QED
    BY <2>7, <2>8, <2>9 DEF PostLine
<1> QED
  BY <1>3, <1>4, <1>5, <1>6

\* evaluateStageSkipDecision: the step in hand joins the skipped ones, or it
\* does not, before anything of it was sent.
LEMMA StepJudged ==
  ASSUME NEW plan, NEW rd, NEW got, NEW out, NEW due, NEW skip,
         Explained(plan, rd, got, out, due, skip), NEW w \in Workers,
         EvaluateStageSkipDecision(w)
  PROVE  Accounted'
<1> PICK p : p = out[w]
  OBVIOUS
<1> PICK more : more = IF Execute THEN accepted' ELSE {}
  OBVIOUS
<1>0. /\ pc[w] = "judge" /\ w = Decider /\ Decider \in Workers /\ w \in Stages
      /\ p \in Nat /\ out[w] = p /\ got[w] = p + 1 /\ p < nextPos
      /\ cur[w] = plan[p] /\ cur[w].pos = p /\ (cur[w].single => cur[w].decode)
      /\ xPipe[w] = Route(skip, p, w)
      /\ pc \in [Workers -> WorkerStates] /\ accepted \in SUBSET Nat
  <2>1. pc[w] = "judge"
    BY DEF EvaluateStageSkipDecision
  <2>2. w = Decider
    BY <2>1 DEF Explained, IInv, OwnPlaces
  <2>3. cur[w] = plan[p] /\ cur[w].pos = p /\ (cur[w].single => cur[w].decode) /\ p < nextPos
    BY <2>1, InHand
  <2>4. p \in Nat /\ w \in Stages /\ WorkerPlace(w, plan, rd, got, out, skip)
    BY WorkerFacts
  <2> QED
    BY <2>1, <2>2, <2>3, <2>4, StateTypes DEF Explained, WorkerPlace
<1>1. /\ pc'[w] = "send"
      /\ \A v \in Workers : v # w => pc'[v] = pc[v]
      /\ UNCHANGED <<mode, rootVars, chan, cur, xPipe, kv, deltaVars>>
  BY <1>0 DEF EvaluateStageSkipDecision
<1>2. /\ UNCHANGED <<mode, nextPos, firstDecode, answer, rootPc, waveChunks, chan, cur, xPipe, kv>>
      /\ UNCHANGED <<hasPrevXPipeRow, hasLastDeltaNorm>>
  BY <1>1 DEF rootVars, deltaVars
<1>3. \/ accepted' = accepted /\ lastAccept' = FALSE
      \/ /\ accepted' = accepted \cup {p} /\ lastAccept' = TRUE
         /\ DecodeSingle(w) /\ hasLastDeltaNorm
  BY <1>0 DEF EvaluateStageSkipDecision, Judged
<1>4. Decided(plan, got, out, skip) /\ p \notin accepted
  BY <1>0 DEF Explained, Account, Decided
<1>5. more \subseteq Nat /\ skip \subseteq more /\ SameBut(more, skip, p) /\ skip \in SUBSET Nat
  BY <1>0, <1>3, <1>4 DEF Decided, SameBut, Explained, Accounts
<1>6. /\ \A s \in Stages, n \in Nat : n # p \/ s <= Decider => Route(more, n, s) = Route(skip, n, s)
      /\ \A s \in Stages, n \in Nat : n # p \/ s < Decider => Output(more, s)[n] = Output(skip, s)[n]
  <2>1. p \in Nat /\ SameBut(more, skip, p)
    BY <1>0, <1>5
  <2> QED
    BY ONLY <2>1, SkipShows
<1>7. \A s \in Stages : got[s] \in Nat /\ out[s] \in Nat
  BY Counters DEF Explained
<1>8. \A v \in Workers : v > Decider => got[v] <= p /\ out[v] <= got[v]
  <2>1. ASSUME NEW v \in Workers, v > Decider
        PROVE  got[v] <= p /\ out[v] <= got[v]
    <3>1. v \in Stages /\ Decider \in Stages \ {Target}
      BY StageFacts
    <3> QED
      BY <1>0, <2>1, <3>1 DEF Explained, Account, InOrder, WorkerPlace
  <2> QED
    BY <2>1
<1>9. Accounts(plan, rd, got, out, due, more)
  BY <1>5 DEF Explained, Accounts
<1>10. Planned(plan)' /\ RootPlace(plan, got, out)' /\ InOrder(got, out)' /\ ControlLines(plan, rd)'
  BY <1>2 DEF Explained, Account, Planned, RootPlace, InOrder, ControlLines, ControlWritten
<1>11. /\ FirstLine(plan, rd, got, out, more)' /\ ChainLines(got, out, more)'
       /\ AnswerLine(got, out, more)' /\ PostLine(got, out, due, more)'
  <2>1. SameBut(more, skip, out[Decider]) /\ pc[Decider] = "judge"
    BY <1>0, <1>5
  <2>2. /\ FirstLine(plan, rd, got, out, more) /\ ChainLines(got, out, more)
        /\ AnswerLine(got, out, more) /\ PostLine(got, out, due, more)
    BY <1>0, <1>5, <2>1, LinesUndecided
  <2> QED
    BY <1>2, <2>2 DEF FirstLine, ChainLines, AnswerLine, PostLine, ControlWritten
<1>12. ASSUME NEW v \in Workers
       PROVE  WorkerPlace(v, plan, rd, got, out, more)'
  <2>1. WorkerPlace(v, plan, rd, got, out, skip) /\ v \in Stages /\ v - 1 \in Stages
        /\ out[v] \in Nat /\ got[v] \in Nat
    BY <1>7, StageFacts DEF Explained, Account
  <2>2. CASE v = w
    <3>1. Route(more, p, w) = Route(skip, p, w)
      <4>1. w <= Decider
        BY <1>0, Ranges
      <4> QED
        BY <1>0, <1>6, <4>1
    <3> QED
      BY <1>0, <1>1, <1>2, <2>1, <2>2, <3>1 DEF WorkerPlace
  <2>3. CASE v # w
    <3>1. ASSUME pc[v] \in {"forward", "judge", "send"}
          PROVE  /\ Route(more, out[v], v) = Route(skip, out[v], v)
                 /\ Route(more, out[v], v - 1) = Route(skip, out[v], v - 1)
      <4>1. CASE v < Decider
        <5>1. v <= Decider /\ v - 1 <= Decider
          BY <4>1, Ranges
        <5> QED
          BY <1>6, <2>1, <5>1
      <4>2. CASE v > Decider
        <5>1. out[v] # p
          BY <1>0, <1>8, <2>1, <3>1, <4>2 DEF WorkerPlace
        <5> QED
          BY <1>6, <2>1, <5>1
      <4> QED
        BY <1>0, <2>3, <4>1, <4>2, Ranges
    <3>2. pc[v] # "bypass"
      BY <1>0, <2>1, <2>3 DEF WorkerPlace
    <3> QED
      BY <1>1, <1>2, <2>1, <2>3, <3>1, <3>2 DEF WorkerPlace
  <2> QED
    BY <2>2, <2>3
<1>13. BypassLine(got, out, more)'
  <2>1. BypassLine(got, out, skip)
    BY DEF Explained, Account
  <2>2. got[Post] \in Nat /\ Decider \in Stages /\ Decider <= Decider
    BY <1>7, Ranges
  <2>3. Route(more, got[Post], Decider) = Route(skip, got[Post], Decider)
    BY <1>6, <2>2
  <2> QED
    BY <1>0, <1>1, <1>2, <1>5, <2>1, <2>3 DEF BypassLine
<1>14. Decided(plan, got, out, more)'
  <2>1. more = IF Execute' THEN accepted' ELSE {}
    BY <1>2 DEF Execute
  <2>2. \A a \in accepted' : a < got[Decider] /\ plan[a].single
    BY <1>0, <1>3, <1>4 DEF Decided, DecodeSingle
  <2>3. Skipping(Decider)' <=> p \in more
    BY <1>0, <1>2, <1>3, <1>4, <2>1 DEF Skipping, DecodeSingle
  <2> QED
    BY <1>0, <1>1, <2>1, <2>2, <2>3 DEF Decided
<1>15. Phases(plan, rd, got, out)'
  <2>1. Phases(plan, rd, got, out)
    BY DEF Explained, Account
  <2>2. hasLastDeltaNorm => ~Fresh(plan, p)
    BY <1>0, <2>1 DEF Phases
  <2>3. \A a \in accepted' : ~Fresh(plan, a)
    BY <1>3, <2>1, <2>2 DEF Phases
  <2> QED
    BY <1>0, <1>1, <1>2, <2>1, <2>3 DEF Phases
<1>16. Cached(got, out, more)'
  <2>1. Cached(got, out, skip)
    BY DEF Explained, Account
  <2>2. /\ got[Target] <= p /\ out[Target] <= got[Target] /\ Target \in Workers
        /\ WorkerPlace(Target, plan, rd, got, out, skip) /\ w # Target
        /\ out[Target] \in Nat /\ got[Target] \in Nat
    <3>1. Target \in Workers /\ Target > Decider
      BY Ranges
    <3> QED
      BY <1>0, <1>7, <1>8, <3>1, StageFacts DEF Explained, Account
  <2>3. \A x \in kv[Target] : x < got[Target] /\ x \notin more
    <3>1. kv[Target] \in SUBSET Nat
      BY <2>2, StageFacts, StateTypes DEF Explained
    <3> QED
      BY <1>0, <1>5, <2>1, <2>2, <3>1 DEF Cached, SameBut
  <2>4. pc[Target] \in {"forward", "send"} => out[Target] \notin more
    BY <1>0, <1>5, <2>1, <2>2 DEF Cached, SameBut, WorkerPlace
  <2>5. answer.pos >= 0 => answer.via = Route(more, answer.pos, Last)
    <3>1. got[0] <= p /\ answer.pos = got[0] - 1 /\ got[0] \in Nat
      BY <1>0, <1>7, StageFacts DEF Explained, Account, InOrder, RootPlace
    <3>2. answer.pos >= 0 => answer.pos \in Nat /\ answer.pos # p
      BY <1>0, <3>1
    <3>3. Last \in Stages
      BY Ranges
    <3> QED
      BY <1>6, <2>1, <3>2, <3>3 DEF Cached
  <2>6. \A v \in Workers : pc'[v] \in {"judge", "send"} => out[v] \in kv[v]
    BY <1>0, <1>1, <2>1 DEF Cached
  <2>7. 0 .. out[Target] - 1 \subseteq kv[Target] \cup more
    BY <1>5, <2>1 DEF Cached
  <2> QED
    BY <1>1, <1>2, <2>1, <2>2, <2>3, <2>4, <2>5, <2>6, <2>7 DEF Cached
<1> QED
  BY <1>9, <1>10, <1>11, <1>12, <1>13, <1>14, <1>15, <1>16 DEF Account, Accounted

\* A stage with a result to send has read as many packets as it took
\* activations, and sends what the stream of its step says.
LEMMA ToSend ==
  ASSUME NEW plan, NEW rd, NEW got, NEW out, NEW due, NEW skip,
         Explained(plan, rd, got, out, due, skip), NEW w \in Workers, pc[w] = "send"
  PROVE  /\ out[w] \in Nat /\ out[w] < nextPos /\ rd[w] = out[w] + 1 /\ got[w] = out[w] + 1
         /\ cur[w].pos = out[w] /\ xPipe[w] = Route(skip, out[w], w)
         /\ w = Decider => (Skipping(w) <=> out[w] \in skip)
         /\ Output(skip, w)[out[w]] = IF Skipping(w) THEN Marker(cur[w].pos)
                                      ELSE Activation(cur[w].pos, xPipe[w])
         /\ Output(skip, w)[out[w]] \in Frames
<1>1. out[w] \in Nat /\ w \in Stages /\ WorkerPlace(w, plan, rd, got, out, skip)
  BY WorkerFacts
<1>2. rd[w] = out[w] + 1 /\ out[w] < nextPos /\ cur[w].pos = out[w]
  BY InHand
<1>3. got[w] = out[w] + 1 /\ xPipe[w] = Route(skip, out[w], w)
  BY <1>1 DEF WorkerPlace
<1>4. w = Decider => (Skipping(w) <=> out[w] \in skip)
  BY DEF Explained, Account, Decided
<1>5. Skipping(w) => w = Decider
  BY DEF Skipping
<1>6. /\ Output(skip, w)[out[w]] \in ActFrames
      /\ Output(skip, w)[out[w]] = IF w = Decider /\ out[w] \in skip THEN Marker(out[w])
                                   ELSE Activation(out[w], Route(skip, out[w], w))
  BY <1>1, OutputEntry
<1> QED
  BY <1>1, <1>2, <1>3, <1>4, <1>5, <1>6 DEF Frames

\* A stage that sent its result is done with the step, or the decision stage
\* with its marker.
LEMMA StepSent ==
  ASSUME NEW plan, NEW rd, NEW got, NEW out, NEW due, NEW skip,
         Explained(plan, rd, got, out, due, skip), NEW w \in Workers, pc[w] = "send",
         NEW to, to = "ctrl" \/ (to = "bypass" /\ w = Decider), pc' = [pc EXCEPT ![w] = to],
         UNCHANGED <<mode, rootVars, cur, xPipe, kv, skipVars>>,
         NEW done, Counts(done, out, w), NEW supplied \in Nat,
         ControlLines(plan, rd)', FirstLine(plan, rd, got, done, skip)',
         ChainLines(got, done, skip)', AnswerLine(got, done, skip)',
         PostLine(got, done, supplied, skip)', BypassLine(got, done, skip)'
  PROVE  Accounted'
<1> PICK p : p = out[w]
  OBVIOUS
<1>0. /\ p \in Nat /\ out[w] = p /\ rd[w] = p + 1 /\ got[w] = p + 1 /\ w \in Stages
      /\ xPipe[w] = Route(skip, p, w) /\ pc \in [Workers -> WorkerStates]
      /\ \A s \in Stages : got[s] \in Nat /\ out[s] \in Nat
  BY ToSend, WorkerFacts, StateTypes DEF Explained
<1>1. /\ done \in [Stages -> Nat] /\ done[w] = p + 1
      /\ \A s \in Stages : s # w => done[s] = out[s]
      /\ \A s \in Stages : out[s] <= done[s]
  BY <1>0 DEF Explained, Accounts, Counts
<1>2. /\ pc'[w] = to /\ \A v \in Workers : v # w => pc'[v] = pc[v]
      /\ UNCHANGED <<mode, nextPos, firstDecode, answer, rootPc, waveChunks, cur, xPipe, kv>>
      /\ UNCHANGED <<lastAccept, accepted, hasPrevXPipeRow, hasLastDeltaNorm>>
  BY <1>0 DEF rootVars, skipVars, deltaVars, judgeVars
<1>3. Accounts(plan, rd, got, done, supplied, skip)
  BY <1>1 DEF Explained, Accounts
<1>4. Planned(plan)' /\ RootPlace(plan, got, done)'
  <2>1. Planned(plan) /\ RootPlace(plan, got, out) /\ done[0] = out[0]
    BY <1>1, StageFacts DEF Explained, Account
  <2> QED
    BY <1>2, <2>1 DEF Planned, RootPlace
<1>5. ASSUME NEW v \in Workers
      PROVE  WorkerPlace(v, plan, rd, got, done, skip)'
  <2>1. WorkerPlace(v, plan, rd, got, out, skip)
    BY DEF Explained, Account
  <2>2. CASE v = w
    <3>1. done[w] - 1 = p
      BY <1>0, <1>1
    <3> QED
      BY <1>0, <1>1, <1>2, <2>1, <2>2, <3>1 DEF WorkerPlace
  <2>3. CASE v # w
    <3>1. done[v] = out[v]
      BY <1>1, <2>3, StageFacts
    <3> QED
      BY <1>2, <2>1, <2>3, <3>1 DEF WorkerPlace
  <2> QED
    BY <2>2, <2>3
<1>6. InOrder(got, done)'
  <2>1. InOrder(got, out)
    BY DEF Explained, Account
  <2>2. ASSUME NEW i \in Stages, NEW x \in Nat, x <= out[i]
        PROVE  x <= done[i]
    <3>1. done[i] \in Nat /\ out[i] \in Nat /\ out[i] <= done[i]
      BY <1>0, <1>1
    <3> QED
      BY <2>2, <3>1
  <2> QED
    BY <1>0, <2>1, <2>2, StageFacts DEF InOrder
<1>7. Decided(plan, got, done, skip)'
  <2>1. CASE Decider \in Workers /\ w = Decider
    BY <1>2, <2>1 DEF Explained, Account, Decided, Execute
  <2>2. CASE Decider \in Workers /\ w # Decider
    <3>1. done[Decider] = out[Decider]
      BY <1>1, <2>2, StageFacts
    <3> QED
      BY <1>2, <2>2, <3>1 DEF Explained, Account, Decided, Execute, Skipping, DecodeSingle
  <2>3. CASE Decider \notin Workers
    BY <1>2, <2>3 DEF Explained, Account, Decided, Execute
  <2> QED
    BY <2>1, <2>2, <2>3
<1>8. Phases(plan, rd, got, done)'
  <2>1. CASE Decider \in Workers /\ w = Decider
    BY <1>2, <2>1 DEF Explained, Account, Phases
  <2>2. CASE Decider \in Workers /\ w # Decider
    <3>1. done[Decider] = out[Decider]
      BY <1>1, <2>2, StageFacts
    <3> QED
      BY <1>2, <2>2, <3>1 DEF Explained, Account, Phases
  <2>3. CASE Decider \notin Workers
    BY <1>2, <2>3 DEF Explained, Account, Phases
  <2> QED
    BY <2>1, <2>2, <2>3
<1>9. Cached(got, done, skip)'
  <2>1. Cached(got, out, skip)
    BY DEF Explained, Account
  <2>2. p \in kv[w] /\ 0 .. done[w] - 1 = (0 .. p - 1) \cup {p}
    BY <1>0, <1>1, <2>1 DEF Cached
  <2>3. \A s \in Stages \ {Target} : 0 .. done[s] - 1 \subseteq kv[s]
    <3>1. ASSUME NEW s \in Stages \ {Target}
          PROVE  0 .. done[s] - 1 \subseteq kv[s]
      BY <1>0, <1>1, <2>1, <2>2 DEF Cached
    <3> QED
      BY <3>1
  <2>4. 0 .. done[Target] - 1 \subseteq kv[Target] \cup skip
    <3>1. CASE w = Target
      BY <1>0, <2>1, <2>2, <3>1 DEF Cached
    <3>2. CASE w # Target
      BY <1>1, <2>1, <3>2, StageFacts DEF Cached
    <3> QED
      BY <3>1, <3>2
  <2>5. \A v \in Workers : pc'[v] \in {"judge", "send"} => done[v] \in kv[v]
    BY <1>1, <1>2, <2>1, StageFacts DEF Cached
  <2>6. pc'[Target] \in {"forward", "send"} => done[Target] \notin skip
    BY <1>1, <1>2, <2>1, StageFacts DEF Cached
  <2> QED
    BY <1>2, <2>1, <2>3, <2>4, <2>5, <2>6 DEF Cached
<1> QED
  BY <1>3, <1>4, <1>5, <1>6, <1>7, <1>8, <1>9 DEF Account, Accounted

\* Sending to the next stage of the chain widens that window.
LEMMA ChainWritten ==
  ASSUME NEW plan, NEW rd, NEW got, NEW out, NEW due, NEW skip,
         Explained(plan, rd, got, out, due, skip), NEW w \in Workers, w # Last, w # Target,
         NEW x \in Frames, chan' = Written(w, w + 1, x), x = Output(skip, w)[out[w]],
         UNCHANGED <<mode, rootVars>>, NEW done, Counts(done, out, w)
  PROVE  /\ ControlLines(plan, rd)' /\ FirstLine(plan, rd, got, done, skip)'
         /\ ChainLines(got, done, skip)' /\ AnswerLine(got, done, skip)'
         /\ PostLine(got, done, due, skip)'
         /\ Decider \in Workers => chan'[<<Decider, Post>>] = chan[<<Decider, Post>>]
<1>0. /\ IInv /\ w \in Stages /\ w # 0 /\ w + 1 \in Stages /\ w + 1 # 0 /\ w + 1 # 1 /\ w + 1 # Post
      /\ w + 1 \in Workers /\ (w + 1) - 1 = w
      /\ Last \in Stages /\ Target \in Stages /\ Post \in Stages /\ Decider \in Stages /\ 0 \in Stages
      /\ \A v \in Workers : v \in Stages /\ v - 1 \in Stages /\ (v - 1 = w => v = w + 1) /\ v # 0
      /\ 1 \in Stages
  BY Ranges DEF Explained
<1>1. /\ \A s \in Stages : got[s] \in Nat /\ out[s] \in Nat
      /\ ControlWritten' = ControlWritten /\ due \in Nat
  BY Counters DEF Explained, Accounts, ControlWritten, rootVars
<1>2. /\ done[w] = out[w] + 1
      /\ \A s \in Stages : s # w => done[s] = out[s]
  BY <1>0 DEF Explained, Accounts, Counts
<1>3. \A k \in Stages, l \in Stages : (k # w \/ l # w + 1) => chan'[<<k, l>>] = chan[<<k, l>>]
  BY <1>0, WriteElsewhere
<1>4. ControlLines(plan, rd)' /\ FirstLine(plan, rd, got, done, skip)'
  <2>1. done[0] = out[0] /\ chan'[<<0, 1>>] = chan[<<0, 1>>]
    BY <1>0, <1>2, <1>3
  <2> QED
    BY <1>0, <1>1, <1>3, <2>1 DEF Explained, Account, ControlLines, FirstLine
<1>5. ChainLines(got, done, skip)'
  <2>1. Carries(chan'[<<w, w + 1>>], got[w + 1], out[w] + 1, Output(skip, w))
    <3> PICK j, low, high, f : j = w + 1 /\ low = got[j] /\ high = out[w] /\ f = Output(skip, w)
      OBVIOUS
    <3>1. Carries(chan[<<w, j>>], low, high, f)
      BY <1>0 DEF Explained, Account, ChainLines
    <3>2. /\ IInv /\ w \in Stages /\ j \in Stages /\ x \in Frames /\ chan' = Written(w, j, x)
          /\ low \in Nat /\ high \in Nat /\ x = f[high]
      BY <1>0, <1>1
    <3>3. Carries(chan'[<<w, j>>], low, high + 1, f)
      BY ONLY <3>1, <3>2, LineWritten
    <3> QED
      BY <3>3
  <2>2. ASSUME NEW v \in Workers \ {1, Post}
        PROVE  Carries(chan'[<<v - 1, v>>], got[v], done[v - 1], Output(skip, v - 1))
    <3>1. CASE v - 1 = w
      BY <1>0, <1>2, <2>1, <3>1
    <3>2. CASE v - 1 # w
      BY <1>0, <1>2, <1>3, <3>2 DEF Explained, Account, ChainLines
    <3> QED
      BY <3>1, <3>2
  <2> QED
    BY <2>2 DEF ChainLines
<1>6. AnswerLine(got, done, skip)'
  BY <1>0, <1>2, <1>3 DEF Explained, Account, AnswerLine
<1>7. PostLine(got, done, due, skip)'
  <2>1. PostLine(got, out, due, skip)
    BY DEF Explained, Account
  <2>2. due <= done[Decider]
    <3>1. out[Decider] \in Nat /\ (done[Decider] = out[Decider] \/ done[Decider] = out[Decider] + 1)
      BY <1>0, <1>1, <1>2
    <3> QED
      BY <1>1, <2>1, <3>1 DEF PostLine
  <2>3. done[Target] = out[Target] /\ chan'[<<Target, Post>>] = chan[<<Target, Post>>]
    BY <1>0, <1>2, <1>3
  <2> QED
    BY <2>1, <2>2, <2>3 DEF PostLine
<1>8. Decider \in Workers => chan'[<<Decider, Post>>] = chan[<<Decider, Post>>]
  BY <1>0, <1>3
<1> QED
  BY <1>4, <1>5, <1>6, <1>7, <1>8

\* afterForward on an accepted step: the marker goes to the bypassed stage
\* while the step is alone in the pipeline.
LEMMA MarkerSent ==
  ASSUME NEW plan, NEW rd, NEW got, NEW out, NEW due, NEW skip,
         Explained(plan, rd, got, out, due, skip), NEW w \in Workers, SendMarker(w)
  PROVE  Accounted'
<1> PICK p : p = out[w]
  OBVIOUS
<1> PICK done : Counts(done, out, w)
  BY DEF Counts
<1> PICK x : x = Output(skip, w)[p]
  OBVIOUS
<1>0. pc[w] = "send" /\ Skipping(w) /\ w = Decider /\ Decider \in Workers
  BY DEF SendMarker, Skipping
<1>1. /\ p \in Nat /\ p < nextPos /\ p \in skip /\ x = Marker(cur[w].pos) /\ x \in Frames
  BY <1>0, ToSend
<1>2. w # Last /\ w # Target /\ w + 1 = Target /\ w \in Stages
  BY <1>0, Ranges
<1>3. chan' = Written(w, w + 1, x) /\ UNCHANGED <<mode, rootVars>>
  BY <1>1, <1>2 DEF SendMarker
<1>4. /\ ControlLines(plan, rd)' /\ FirstLine(plan, rd, got, done, skip)'
      /\ ChainLines(got, done, skip)' /\ AnswerLine(got, done, skip)'
      /\ PostLine(got, done, due, skip)'
      /\ Decider \in Workers => chan'[<<Decider, Post>>] = chan[<<Decider, Post>>]
  BY <1>1, <1>2, <1>3, ChainWritten
<1>5. got[Post] = p
  <2>1. /\ Post \in Stages \ {Target} /\ Post \in Workers /\ Decider < Post /\ 0 \in Stages
        /\ Decider \in Stages \ {Target}
    BY Ranges
  <2>2. got[0] <= out[Post] /\ got[Post] <= p /\ out[Post] <= got[Post] /\ got[0] <= p
    BY <1>0, <2>1 DEF Explained, Account, InOrder, WorkerPlace
  <2>3. p = got[0]
    BY <1>1, <2>2, SkippedAlone
  <2>4. out[Post] \in Nat /\ got[Post] \in Nat
    BY <2>1, Counters DEF Explained
  <2> QED
    BY <1>1, <2>2, <2>3, <2>4
<1>6. BypassLine(got, done, skip)'
  <2>1. chan[<<Decider, Post>>] = <<>>
    BY <1>0, <1>1, <1>5 DEF Explained, Account, BypassLine
  <2>2. done[w] = p + 1
    BY <1>2 DEF Explained, Accounts, Counts
  <2> QED
    BY <1>0, <1>1, <1>4, <1>5, <2>1, <2>2 DEF BypassLine
<1>7. due \in Nat
  BY DEF Explained, Accounts
<1>8. /\ pc' = [pc EXCEPT ![w] = "bypass"]
      /\ UNCHANGED <<mode, rootVars, cur, xPipe, kv, skipVars>>
  BY DEF SendMarker
<1> QED
  BY <1>0, <1>4, <1>6, <1>7, <1>8, StepSent

\* ... and its activation past it: the post-target stage waits for this step.
LEMMA BypassSent ==
  ASSUME NEW plan, NEW rd, NEW got, NEW out, NEW due, NEW skip,
         Explained(plan, rd, got, out, due, skip), NEW w \in Workers, SendBypass(w)
  PROVE  Accounted'
<1> PICK p : p = got[Post]
  OBVIOUS
<1>0. /\ pc[w] = "bypass" /\ pc' = [pc EXCEPT ![w] = "ctrl"]
      /\ chan' = Written(w, Post, BypassActivation(cur[w].pos, xPipe[w]))
      /\ UNCHANGED <<mode, rootVars, cur, xPipe, kv, skipVars>>
  BY DEF SendBypass
<1>1. /\ WorkerPlace(w, plan, rd, got, out, skip) /\ rd[w] \in Nat /\ p \in Nat
      /\ w \in Stages /\ Post \in Stages /\ nextPos \in Nat
  BY WorkerFacts, StageFacts
<1>2. /\ w = Decider /\ Decider \in Workers /\ xPipe[w] = Route(skip, out[w] - 1, w) /\ rd[w] = out[w]
      /\ rd[w] <= nextPos
  BY <1>0, <1>1 DEF WorkerPlace
<1>3. out[w] = p + 1 /\ p \in skip /\ chan[<<Decider, Post>>] = <<>>
  BY <1>0, <1>2 DEF Explained, Account, BypassLine
<1>4. out[w] - 1 = p /\ p \in 0 .. nextPos - 1 /\ rd[w] - 1 = p
  BY <1>1, <1>2, <1>3
<1>5. cur[w].pos = p
  <2>1. cur[w] = plan[p]
    BY <1>0, <1>1, <1>2, <1>3, <1>4 DEF WorkerPlace
  <2> QED
    BY <1>4, <2>1 DEF Explained, Account, Planned
<1>6. /\ pc'[w] = "ctrl" /\ \A v \in Workers : v # w => pc'[v] = pc[v]
      /\ UNCHANGED <<mode, nextPos, firstDecode, answer, rootPc, waveChunks, cur, xPipe, kv>>
      /\ UNCHANGED <<lastAccept, accepted, hasPrevXPipeRow, hasLastDeltaNorm>>
  <2>1. pc \in [Workers -> WorkerStates]
    BY StateTypes DEF Explained
  <2> QED
    BY <1>0, <2>1 DEF rootVars, skipVars, deltaVars, judgeVars
<1>7. /\ chan'[<<w, Post>>] = <<BypassActivation(p, Route(skip, p, w))>>
      /\ \A k \in Stages, l \in Stages : (k # w \/ l # Post) => chan'[<<k, l>>] = chan[<<k, l>>]
  <2>1. SocketsOK(chan) /\ IInv
    BY StateTypes DEF Explained
  <2>2. chan'[<<w, Post>>] = Append(chan[<<w, Post>>], BypassActivation(p, Route(skip, p, w)))
    BY <1>0, <1>1, <1>2, <1>4, <1>5, <2>1, SocketWrite
  <2>3. \A k \in Stages, l \in Stages : (k # w \/ l # Post) => chan'[<<k, l>>] = chan[<<k, l>>]
    BY <1>0, <1>1, <2>1, WriteElsewhere
  <2>4. chan[<<w, Post>>] = <<>>
    BY <1>2, <1>3
  <2>5. \A x : Append(<<>>, x) = <<x>>
    OBVIOUS
  <2>6. chan'[<<w, Post>>] = <<BypassActivation(p, Route(skip, p, w))>>
    BY <2>2, <2>4, <2>5
  <2> QED
    BY <2>3, <2>6
<1>8. Accounts(plan, rd, got, out, due, skip)
  BY DEF Explained
<1>9. Planned(plan)' /\ RootPlace(plan, got, out)' /\ InOrder(got, out)'
  BY <1>6 DEF Explained, Account, Planned, RootPlace, InOrder
<1>10. ASSUME NEW v \in Workers
       PROVE  WorkerPlace(v, plan, rd, got, out, skip)'
  <2>1. WorkerPlace(v, plan, rd, got, out, skip)
    BY DEF Explained, Account
  <2> QED
    BY <1>0, <1>6, <2>1 DEF WorkerPlace
<1>11. /\ ControlLines(plan, rd)' /\ FirstLine(plan, rd, got, out, skip)'
       /\ ChainLines(got, out, skip)' /\ AnswerLine(got, out, skip)'
       /\ PostLine(got, out, due, skip)'
  <2>1. /\ 0 \in Stages /\ 1 \in Stages /\ Last \in Stages /\ Target \in Stages
        /\ w # 0 /\ w # Target /\ Post # 0
        /\ \A v \in Workers : v \in Stages /\ v - 1 \in Stages /\ (v - 1 = w => v # Post)
    BY <1>2, Ranges
  <2>2. /\ \A v \in Workers : chan'[<<0, v>>] = chan[<<0, v>>]
        /\ \A v \in Workers : chan'[<<v - 1, v>>] = chan[<<v - 1, v>>]
        /\ chan'[<<Last, 0>>] = chan[<<Last, 0>>] /\ chan'[<<Target, Post>>] = chan[<<Target, Post>>]
        /\ chan'[<<0, 1>>] = chan[<<0, 1>>]
    BY <1>1, <1>7, <2>1
  <2>3. ControlWritten' = ControlWritten
    BY <1>6 DEF ControlWritten
  <2> QED
    BY <2>2, <2>3 DEF Explained, Account, ControlLines, FirstLine, ChainLines, AnswerLine, PostLine
<1>12. BypassLine(got, out, skip)'
  <2>1. p < out[w]
    BY <1>1, <1>3
  <2> QED
    BY <1>2, <1>3, <1>6, <1>7, <2>1 DEF BypassLine
<1>13. Decided(plan, got, out, skip)' /\ Phases(plan, rd, got, out)'
  BY <1>0, <1>2, <1>6 DEF Explained, Account, Decided, Execute, Phases
<1>14. Cached(got, out, skip)'
  <2>1. w # Target
    BY <1>2, Ranges
  <2> QED
    BY <1>6, <2>1, StageFacts DEF Explained, Account, Cached
<1> QED
  BY <1>8, <1>9, <1>10, <1>11, <1>12, <1>13, <1>14 DEF Account, Accounted

\* The target sends on the full route what the post-target stage is due.
LEMMA TargetWritten ==
  ASSUME NEW plan, NEW rd, NEW got, NEW out, NEW due, NEW skip,
         Explained(plan, rd, got, out, due, skip), NEW w \in Workers, w = Target, pc[w] = "send",
         NEW x \in Frames, chan' = Written(w, w + 1, x), x = Output(skip, w)[out[w]],
         UNCHANGED <<mode, rootVars>>, NEW done, Counts(done, out, w)
  PROVE  /\ ControlLines(plan, rd)' /\ FirstLine(plan, rd, got, done, skip)'
         /\ ChainLines(got, done, skip)' /\ AnswerLine(got, done, skip)'
         /\ PostLine(got, done, due + 1, skip)'
         /\ Decider \in Workers => chan'[<<Decider, Post>>] = chan[<<Decider, Post>>]
<1> PICK p : p = out[w]
  OBVIOUS
<1>0. /\ IInv /\ w \in Stages /\ w # 0 /\ w + 1 = Post /\ Post # 0 /\ Post # 1 /\ Post # Target
      /\ Last \in Stages /\ Target \in Stages /\ Post \in Stages /\ Decider \in Stages /\ 0 \in Stages
      /\ Post \in Workers /\ Last # Target /\ Decider # Target /\ Decider < Target
      /\ \A v \in Workers : v \in Stages /\ v - 1 \in Stages /\ (v - 1 = w => v = Post)
      /\ 1 \in Stages
  BY Ranges DEF Explained
<1>1. /\ \A s \in Stages : got[s] \in Nat /\ out[s] \in Nat
      /\ ControlWritten' = ControlWritten /\ due \in Nat
  BY Counters DEF Explained, Accounts, ControlWritten, rootVars
<1>2. /\ done[w] = p + 1
      /\ \A s \in Stages : s # w => done[s] = out[s]
  BY <1>0 DEF Explained, Accounts, Counts
<1>3. \A k \in Stages, l \in Stages : (k # w \/ l # Post) => chan'[<<k, l>>] = chan[<<k, l>>]
  BY <1>0, WriteElsewhere
<1>4. /\ p \in Nat /\ p < nextPos /\ nextPos \in Nat /\ got[w] = p + 1 /\ p \notin skip
  <2>1. p \notin skip
    BY DEF Explained, Account, Cached
  <2> QED
    BY <2>1, ToSend, StateTypes DEF Explained
<1>5. PostLine(got, out, due, skip)
  BY DEF Explained, Account
<1>6. due = p
  <2>1. due <= p
    <3>1. due > p => p \in out[Target] .. due - 1
      BY <1>1, <1>4
    <3> QED
      BY <1>1, <1>4, <1>5, <3>1 DEF PostLine
  <2>2. got[0] <= due
    <3>1. Carries(chan[<<Target, Post>>], got[Post], due, Output(skip, Target))
      BY <1>5 DEF PostLine
    <3>2. chan[<<Target, Post>>] \in Seq(Frames) /\ got[Post] \in Nat /\ due \in Nat
      BY <1>0, <1>1, StateTypes
    <3>3. got[Post] <= due
      BY ONLY <3>1, <3>2, CarriesNone
    <3>4. got[0] <= out[Post] /\ out[Post] <= got[Post]
      BY <1>0 DEF Explained, Account, InOrder, WorkerPlace
    <3> QED
      BY <1>0, <1>1, <3>3, <3>4
  <2>3. ASSUME due < p
        PROVE  FALSE
    <3>1. due \in skip
      <4>1. due \in due .. out[Target] - 1
        BY <1>1, <1>4, <2>3
      <4> QED
        BY <1>5, <4>1 DEF PostLine
    <3>2. due < nextPos
      BY <1>1, <1>4, <2>3
    <3>3. nextPos = due + 1
      BY <2>2, <3>1, <3>2, SkippedAlone
    <3> QED
      BY <1>1, <1>4, <2>3, <3>3
  <2> QED
    BY <1>1, <1>4, <2>1, <2>3
<1>7. PostLine(got, done, due + 1, skip)'
  <2>1. Carries(chan'[<<Target, Post>>], got[Post], due + 1, Output(skip, Target))
    <3> PICK i, j, low, high, f : /\ i = Target /\ j = Post /\ low = got[j] /\ high = due
                                  /\ f = Output(skip, Target)
      OBVIOUS
    <3>1. Carries(chan[<<i, j>>], low, high, f)
      BY <1>5 DEF PostLine
    <3>2. /\ IInv /\ i \in Stages /\ j \in Stages /\ x \in Frames /\ chan' = Written(i, j, x)
          /\ low \in Nat /\ high \in Nat /\ x = f[high]
      BY <1>0, <1>1, <1>6
    <3>3. Carries(chan'[<<i, j>>], low, high + 1, f)
      BY ONLY <3>1, <3>2, LineWritten
    <3> QED
      BY <3>3
  <2>2. due + 1 <= done[Decider]
    <3>1. got[w] <= out[Decider]
      BY <1>0 DEF Explained, Account, InOrder
    <3> QED
      BY <1>0, <1>2, <1>4, <1>6, <3>1
  <2>3. \A n \in got[Post] .. (due + 1) - 1 : n \notin skip
    <3>1. \A n \in got[Post] .. (due + 1) - 1 : n = p \/ n \in got[Post] .. due - 1
      BY <1>0, <1>1, <1>6
    <3> QED
      BY <1>4, <1>5, <3>1 DEF PostLine
  <2>4. /\ \A n \in done[Target] .. (due + 1) - 1 : FALSE
        /\ \A n \in (due + 1) .. done[Target] - 1 : FALSE
    BY <1>2, <1>4, <1>6
  <2> QED
    BY <2>1, <2>2, <2>3, <2>4 DEF PostLine
<1>8. ControlLines(plan, rd)' /\ FirstLine(plan, rd, got, done, skip)'
  <2>1. done[0] = out[0] /\ chan'[<<0, 1>>] = chan[<<0, 1>>]
    BY <1>0, <1>2, <1>3
  <2> QED
    BY <1>0, <1>1, <1>3, <2>1 DEF Explained, Account, ControlLines, FirstLine
<1>9. ChainLines(got, done, skip)' /\ AnswerLine(got, done, skip)'
  <2>1. \A v \in Workers \ {1, Post} :
          chan'[<<v - 1, v>>] = chan[<<v - 1, v>>] /\ done[v - 1] = out[v - 1]
    BY <1>0, <1>2, <1>3
  <2>2. chan'[<<Last, 0>>] = chan[<<Last, 0>>] /\ done[Last] = out[Last]
    BY <1>0, <1>2, <1>3
  <2> QED
    BY <2>1, <2>2 DEF Explained, Account, ChainLines, AnswerLine
<1>10. Decider \in Workers => chan'[<<Decider, Post>>] = chan[<<Decider, Post>>]
  BY <1>0, <1>3
<1> QED
  BY <1>7, <1>8, <1>9, <1>10

\* The last stage sends its logits to the root.
LEMMA LogitsWritten ==
  ASSUME NEW plan, NEW rd, NEW got, NEW out, NEW due, NEW skip,
         Explained(plan, rd, got, out, due, skip), NEW w \in Workers, w = Last,
         NEW x \in Frames, chan' = Written(w, 0, x), x = Output(skip, w)[out[w]],
         UNCHANGED <<mode, rootVars>>, NEW done, Counts(done, out, w)
  PROVE  /\ ControlLines(plan, rd)' /\ FirstLine(plan, rd, got, done, skip)'
         /\ ChainLines(got, done, skip)' /\ AnswerLine(got, done, skip)'
         /\ PostLine(got, done, due, skip)'
         /\ Decider \in Workers => chan'[<<Decider, Post>>] = chan[<<Decider, Post>>]
<1>0. /\ IInv /\ w \in Stages /\ w # 0 /\ Post # 0 /\ w # Target /\ w # Decider
      /\ Last \in Stages /\ Target \in Stages /\ Post \in Stages /\ Decider \in Stages /\ 0 \in Stages
      /\ \A v \in Workers : v \in Stages /\ v - 1 \in Stages /\ v - 1 # w /\ v # 0
      /\ 1 \in Stages
  BY Ranges DEF Explained
<1>1. /\ \A s \in Stages : got[s] \in Nat /\ out[s] \in Nat
      /\ ControlWritten' = ControlWritten
  BY Counters DEF Explained, Accounts, ControlWritten, rootVars
<1>2. /\ done[w] = out[w] + 1
      /\ \A s \in Stages : s # w => done[s] = out[s]
  BY <1>0 DEF Explained, Accounts, Counts
<1>3. \A k \in Stages, l \in Stages : (k # w \/ l # 0) => chan'[<<k, l>>] = chan[<<k, l>>]
  BY <1>0, WriteElsewhere
<1>4. ControlLines(plan, rd)' /\ FirstLine(plan, rd, got, done, skip)'
  <2>1. done[0] = out[0] /\ chan'[<<0, 1>>] = chan[<<0, 1>>]
    BY <1>0, <1>2, <1>3
  <2> QED
    BY <1>0, <1>1, <1>3, <2>1 DEF Explained, Account, ControlLines, FirstLine
<1>5. ChainLines(got, done, skip)'
  BY ZenonT(60), <1>0, <1>2, <1>3 DEF Explained, Account, ChainLines
<1>6. AnswerLine(got, done, skip)'
  <2> PICK i, j, low, high, f : /\ i = Last /\ j = 0 /\ low = got[j] /\ high = out[i]
                                /\ f = Output(skip, Last)
    OBVIOUS
  <2>1. Carries(chan[<<i, j>>], low, high, f)
    BY DEF Explained, Account, AnswerLine
  <2>2. /\ IInv /\ i \in Stages /\ j \in Stages /\ x \in Frames /\ chan' = Written(i, j, x)
        /\ low \in Nat /\ high \in Nat /\ x = f[high]
    BY <1>0, <1>1
  <2>3. Carries(chan'[<<i, j>>], low, high + 1, f)
    BY ONLY <2>1, <2>2, LineWritten
  <2> QED
    BY <1>2, <2>3 DEF AnswerLine
<1>7. PostLine(got, done, due, skip)'
  <2>1. /\ done[Target] = out[Target] /\ done[Decider] = out[Decider]
        /\ chan'[<<Target, Post>>] = chan[<<Target, Post>>]
    BY <1>0, <1>2, <1>3
  <2> QED
    BY <2>1 DEF Explained, Account, PostLine
<1>8. Decider \in Workers => chan'[<<Decider, Post>>] = chan[<<Decider, Post>>]
  BY <1>0, <1>3
<1> QED
  BY <1>4, <1>5, <1>6, <1>7, <1>8

\* afterForward on the full route.
LEMMA ResultSent ==
  ASSUME NEW plan, NEW rd, NEW got, NEW out, NEW due, NEW skip,
         Explained(plan, rd, got, out, due, skip), NEW w \in Workers, SendActivation(w)
  PROVE  Accounted'
<1> PICK done : Counts(done, out, w)
  BY DEF Counts
<1> PICK x : x = Output(skip, w)[out[w]]
  OBVIOUS
<1>0. /\ pc[w] = "send" /\ ~Skipping(w) /\ pc' = [pc EXCEPT ![w] = "ctrl"]
      /\ UNCHANGED <<mode, rootVars, cur, xPipe, kv, skipVars>>
      /\ chan' = Written(w, IF w = Last THEN 0 ELSE w + 1, Activation(cur[w].pos, xPipe[w]))
  BY DEF SendActivation
<1>1. x = Activation(cur[w].pos, xPipe[w]) /\ x \in Frames /\ due \in Nat
  BY <1>0, ToSend DEF Explained, Accounts
<1>2. BypassLine(got, done, skip)' \/ ~(Decider \in Workers => chan'[<<Decider, Post>>] = chan[<<Decider, Post>>])
  <2>1. ASSUME Decider \in Workers, chan'[<<Decider, Post>>] = chan[<<Decider, Post>>]
        PROVE  BypassLine(got, done, skip)'
    <3>1. /\ out[Decider] \in Nat /\ out[w] \in Nat /\ got[Post] \in Nat /\ w \in Stages
          /\ pc \in [Workers -> WorkerStates] /\ Decider \in Stages
      BY WorkerFacts, StageFacts, StateTypes DEF Explained
    <3>2. BypassLine(got, out, skip)
      BY DEF Explained, Account
    <3>3. CASE w = Decider
      <4>1. done[Decider] = out[Decider] + 1
        BY <3>1, <3>3 DEF Explained, Accounts, Counts
      <4>2. got[Post] < out[Decider] => got[Post] < done[Decider]
        BY <3>1, <4>1
      <4> QED
        BY <1>0, <2>1, <3>1, <3>2, <3>3, <4>2 DEF BypassLine
    <3>4. CASE w # Decider
      <4>1. done[Decider] = out[Decider]
        BY <3>1, <3>4 DEF Explained, Accounts, Counts
      <4> QED
        BY <1>0, <2>1, <3>1, <3>2, <3>4, <4>1 DEF BypassLine
    <3> QED
      BY <3>3, <3>4
  <2>2. Decider \notin Workers => BypassLine(got, done, skip)'
    BY DEF BypassLine
  <2> QED
    BY <2>1, <2>2
<1>3. CASE w = Last
  <2>1. chan' = Written(w, 0, x)
    BY <1>0, <1>1, <1>3
  <2>2. /\ ControlLines(plan, rd)' /\ FirstLine(plan, rd, got, done, skip)'
        /\ ChainLines(got, done, skip)' /\ AnswerLine(got, done, skip)'
        /\ PostLine(got, done, due, skip)'
        /\ Decider \in Workers => chan'[<<Decider, Post>>] = chan[<<Decider, Post>>]
    BY <1>0, <1>1, <1>3, <2>1, LogitsWritten
  <2> QED
    BY <1>0, <1>1, <1>2, <2>2, StepSent
<1>4. CASE w = Target
  <2>1. w # Last
    BY <1>4, Ranges
  <2>2. chan' = Written(w, w + 1, x)
    BY <1>0, <1>1, <2>1
  <2>3. /\ ControlLines(plan, rd)' /\ FirstLine(plan, rd, got, done, skip)'
        /\ ChainLines(got, done, skip)' /\ AnswerLine(got, done, skip)'
        /\ PostLine(got, done, due + 1, skip)'
        /\ Decider \in Workers => chan'[<<Decider, Post>>] = chan[<<Decider, Post>>]
    BY <1>0, <1>1, <1>4, <2>2, TargetWritten
  <2>4. due + 1 \in Nat
    BY <1>1
  <2> QED
    BY <1>0, <1>2, <2>3, <2>4, StepSent
<1>5. CASE w # Last /\ w # Target
  <2>1. chan' = Written(w, w + 1, x)
    BY <1>0, <1>1, <1>5
  <2>2. /\ ControlLines(plan, rd)' /\ FirstLine(plan, rd, got, done, skip)'
        /\ ChainLines(got, done, skip)' /\ AnswerLine(got, done, skip)'
        /\ PostLine(got, done, due, skip)'
        /\ Decider \in Workers => chan'[<<Decider, Post>>] = chan[<<Decider, Post>>]
    BY <1>0, <1>1, <1>5, <2>1, ChainWritten
  <2> QED
    BY <1>0, <1>1, <1>2, <2>2, StepSent
<1> QED
  BY <1>3, <1>4, <1>5

-----------------------------------------------------------------------------
(* Every step has an account.                                              *)

\* A session or the root that ends leaves the account as it is.
LEMMA ProcessEnded ==
  ASSUME NEW plan, NEW rd, NEW got, NEW out, NEW due, NEW skip,
         Explained(plan, rd, got, out, due, skip),
         \/ RootThrows \/ BroadcastThrows \/ RootKilled \/ RootStartDrain
         \/ \E w \in Workers : SessionEnds(w) \/ PollTimeout(w) \/ WorkerKilled(w)
  PROVE  Accounted'
<1>1. CASE RootThrows \/ BroadcastThrows \/ RootKilled \/ RootStartDrain
  <2>1. (rootPc # "stopped" /\ RootEnds) \/ RootStartDrain
    BY <1>1 DEF RootThrows, BroadcastThrows, RootKilled
  <2>2. Account(plan, rd, got, out, due, skip)'
    BY <2>1, RootPlaceOnly
  <2> QED
    BY <2>2 DEF Accounted, Explained
<1>2. ASSUME NEW w \in Workers, SessionEnds(w) \/ PollTimeout(w) \/ WorkerKilled(w)
      PROVE  Accounted'
  <2>1. pc[w] # "stopped" /\ SessionOver(w)
    BY <1>2 DEF SessionEnds, PollTimeout, WorkerKilled
  <2>2. Account(plan, rd, got, out, due, skip)'
    BY <2>1, PlaceOnly DEF SessionOver
  <2> QED
    BY <2>2 DEF Accounted, Explained
<1> QED
  BY <1>1, <1>2

LEMMA RouteInit == Init => RouteInv
<1> SUFFICES ASSUME Init
             PROVE  Accounted
  BY InvInit DEF RouteInv
<1> PICK plan, rd, got, out, skip :
      /\ plan = [p \in Nat |-> Packet(0, FALSE, FALSE)]
      /\ rd = [w \in Workers |-> 0] /\ got = [s \in Stages |-> 0] /\ out = [s \in Stages |-> 0]
      /\ skip = {}
  OBVIOUS
<1>0. /\ \A w \in Workers : rd[w] = 0 /\ w \in Stages
      /\ \A s \in Stages : got[s] = 0 /\ out[s] = 0
      /\ 0 \in Stages /\ Last \in Stages /\ Target \in Stages /\ Post \in Stages /\ Decider \in Stages
      /\ \A w \in Workers : w - 1 \in Stages
      /\ 1 \in Workers /\ Target \in Workers
  BY StageFacts
<1>1. Accounts(plan, rd, got, out, 0, skip)
  <2>1. Packet(0, FALSE, FALSE) \in ControlFrames
    BY FramesMade
  <2> QED
    BY <2>1 DEF Accounts
<1>2. Planned(plan) /\ RootPlace(plan, got, out)
  BY <1>0 DEF Init, Planned, RootPlace
<1>3. \A w \in Workers : WorkerPlace(w, plan, rd, got, out, skip)
  BY <1>0 DEF Init, WorkerPlace
<1>4. InOrder(got, out)
  BY <1>0 DEF InOrder
<1>5. \A k \in Stages, l \in Stages : chan[<<k, l>>] = <<>>
  BY DEF Init
<1>6. \A f : Carries(<<>>, 0, 0, f)
  BY DEF Carries
<1>7. ControlLines(plan, rd) /\ FirstLine(plan, rd, got, out, skip)
  <2>1. ControlWritten = 0
    BY DEF Init, ControlWritten
  <2> QED
    BY <1>0, <1>5, <1>6, <2>1 DEF ControlLines, FirstLine
<1>8. ChainLines(got, out, skip) /\ AnswerLine(got, out, skip)
  BY <1>0, <1>5, <1>6 DEF ChainLines, AnswerLine
<1>9. PostLine(got, out, 0, skip)
  BY <1>0, <1>5, <1>6 DEF PostLine
<1>10. BypassLine(got, out, skip)
  BY <1>0, <1>5 DEF BypassLine, Init
<1>11. Decided(plan, got, out, skip) /\ Phases(plan, rd, got, out)
  BY <1>0 DEF Init, Decided, Phases
<1>12. Cached(got, out, skip)
  BY <1>0 DEF Init, Cached
<1>13. Account(plan, rd, got, out, 0, skip)
  BY <1>2, <1>3, <1>4, <1>7, <1>8, <1>9, <1>10, <1>11, <1>12 DEF Account
<1>14. 0 \in Nat
  OBVIOUS
<1> QED
  BY <1>1, <1>13, <1>14 DEF Accounted

LEMMA RouteNext == RouteInv /\ [Next]_vars => RouteInv'
<1> SUFFICES ASSUME RouteInv, [Next]_vars
             PROVE  Accounted'
  BY InvStep DEF RouteInv
<1> PICK plan, rd, got, out, due, skip : Explained(plan, rd, got, out, due, skip)
  BY DEF RouteInv, Accounted, Explained
<1>1. CASE RootStart
  <2>1. PICK decode \in BOOLEAN, single \in BOOLEAN : (single => decode) /\ StartStep(decode, single)
    BY <1>1 DEF RootStart
  <2>2. rootPc = "idle" /\ rootPc' = "exec" /\ waveChunks' = waveChunks
    BY <1>1 DEF RootStart
  <2> QED
    BY <2>1, <2>2, StepStarted
<1>2. CASE RootStartChunk
  <2>1. StartStep(FALSE, FALSE)
    BY <1>2 DEF RootStartChunk
  <2>2. rootPc \in {"idle", "wave"} /\ rootPc' = "waveExec" /\ waveChunks' = waveChunks + 1
    BY <1>2 DEF RootStartChunk
  <2> QED
    BY <2>1, <2>2, StepStarted
<1>3. CASE RootProgress
  BY <1>3, RootForwarded, LogitsReceived, ProcessEnded DEF RootProgress
<1>4. CASE RootFinish
  BY <1>4, FinishWritten
<1>5. ASSUME NEW w \in Workers, WorkerStep(w)
      PROVE  Accounted'
  <2>1. CASE ReadStop(w) \/ ReadControlPacket(w)
    BY <2>1, PacketTaken
  <2>2. CASE RecvActivation(w)
    BY <2>2, FrameTaken
  <2>3. CASE ProbeBypass(w) \/ ProbeNormal(w)
    BY <2>3, Probed
  <2>4. CASE Forward(w)
    BY <2>4, LayersRun
  <2>5. CASE EvaluateStageSkipDecision(w)
    BY <2>5, StepJudged
  <2>6. CASE SendMarker(w)
    BY <2>6, MarkerSent
  <2>7. CASE SendBypass(w)
    BY <2>7, BypassSent
  <2>8. CASE SendActivation(w)
    BY <2>8, ResultSent
  <2>9. CASE SessionEnds(w)
    BY <2>9, ProcessEnded
  <2> QED
    BY <1>5, <2>1, <2>2, <2>3, <2>4, <2>5, <2>6, <2>7, <2>8, <2>9 DEF WorkerStep
<1>6. CASE Fault
  BY <1>6, ProcessEnded DEF Fault
<1>7. CASE UNCHANGED vars
  <2>1. Account(plan, rd, got, out, due, skip)'
    BY <1>7 DEF Explained, Account, vars, rootVars, skipVars, deltaVars, judgeVars,
       Planned, RootPlace, WorkerPlace, InOrder, ControlLines, FirstLine, ChainLines, AnswerLine,
       PostLine, BypassLine, Decided, Phases, Cached, ControlWritten, Execute, Skipping, DecodeSingle
  <2> QED
    BY <2>1 DEF Accounted, Explained
<1> QED
  BY <1>1, <1>2, <1>3, <1>4, <1>5, <1>6, <1>7 DEF Next

\* Every reachable state has an account: what each stage has read, taken and
\* sent explains every socket, every place in the loops, every cache and the
\* answer.
THEOREM RunExplained == Spec => []RouteInv
BY RouteInit, RouteNext, PTL DEF Spec

-----------------------------------------------------------------------------
(* What the account says of the run.                                       *)

\* No stage ever finds an activation of another step than its control packet
\* (beforeForward, "Unexpected activation position") or reads the bytes of
\* one for a packet: the control packets and the activations stay in step
\* through every interleaving, bypass and fault.
THEOREM StagesStayInStep == Spec => []NoStageFails
<1>1. RouteInv => NoStageFails
  BY DEF RouteInv, Accounted, Account, WorkerPlace, NoStageFails
<1> QED
  BY <1>1, RunExplained, PTL

\* A skipped step is a bypassed one.
LEMMA SkippedBypassed ==
  ASSUME NEW plan, NEW rd, NEW got, NEW out, NEW due, NEW skip,
         Explained(plan, rd, got, out, due, skip)
  PROVE  \A p : p \in skip <=> Bypassed(p)
BY DEF Explained, Account, Decided, Bypassed, Execute

LEMMA RouteStages ==
  ASSUME NEW skip, NEW p
  PROVE  Route(skip, p, Last) =
           {<<s, p>> : s \in IF p \in skip THEN Stages \ {Target} ELSE Stages}
<1>1. 0 .. Last = Stages
  BY Ranges
<1>2. {y \in 0 .. Last : ~(y = Target /\ p \in skip)} =
        IF p \in skip THEN Stages \ {Target} ELSE Stages
  BY <1>1
<1> QED
  BY <1>2 DEF Route

\* forward() returns the logits of its own step, and exactly the stages of
\* the route the decision stage chose worked on them.
THEOREM AnswersAreOfTheStep == Spec => []AnswerFollowsRoute
<1>1. RouteInv => AnswerFollowsRoute
  <2> SUFFICES ASSUME RouteInv, rootPc = "idle"
               PROVE  /\ answer.pos = nextPos - 1
                      /\ answer.pos >= 0 =>
                           answer.via = {<<s, answer.pos>> : s \in IF Bypassed(answer.pos)
                                                                   THEN Stages \ {Target} ELSE Stages}
    BY DEF AnswerFollowsRoute
  <2> PICK plan, rd, got, out, due, skip : Explained(plan, rd, got, out, due, skip)
    BY DEF RouteInv, Accounted, Explained
  <2>1. answer.pos = nextPos - 1
    BY DEF Explained, Account, RootPlace
  <2>2. answer.pos >= 0 => answer.via = Route(skip, answer.pos, Last)
    BY DEF Explained, Account, Cached
  <2> QED
    BY <2>1, <2>2, RouteStages, SkippedBypassed
<1> QED
  BY <1>1, RunExplained, PTL

\* Every answered step left its rows in every stage's KV cache, the target's
\* excepted if and only if the step was bypassed.
THEOREM CachesMatchRoutes == Spec => []KvMatchesDecisions
<1>1. RouteInv => KvMatchesDecisions
  <2> SUFFICES ASSUME RouteInv, NEW p \in Answered
               PROVE  /\ \A s \in Stages \ {Target} : p \in kv[s]
                      /\ p \in kv[Target] <=> ~Bypassed(p)
    BY DEF KvMatchesDecisions
  <2> PICK plan, rd, got, out, due, skip : Explained(plan, rd, got, out, due, skip)
    BY DEF RouteInv, Accounted, Explained
  <2>1. /\ \A s \in Stages : got[s] \in Nat /\ out[s] \in Nat
        /\ due \in Nat /\ 0 \in Stages /\ Post \in Stages /\ Post \in Workers /\ Post # Target
        /\ Target \in Stages
    BY Counters, Ranges DEF Explained, Accounts
  <2>2. p \in Nat /\ p < got[0]
    <3>1. answer.pos = got[0] - 1
      BY DEF Explained, Account, RootPlace
    <3> QED
      BY <2>1, <3>1 DEF Answered
  <2>3. Cached(got, out, skip) /\ InOrder(got, out) /\ PostLine(got, out, due, skip)
        /\ WorkerPlace(Post, plan, rd, got, out, skip)
    BY <2>1 DEF Explained, Account
  <2>4. \A s \in Stages \ {Target} : p \in kv[s]
    <3>1. ASSUME NEW s \in Stages \ {Target}
          PROVE  p \in kv[s]
      <4>1. p \in 0 .. out[s] - 1
        BY <2>1, <2>2, <2>3 DEF InOrder
      <4> QED
        BY <2>3, <4>1 DEF Cached
    <3> QED
      BY <3>1
  <2>5. p < due
    <3>1. Carries(chan[<<Target, Post>>], got[Post], due, Output(skip, Target))
      BY <2>3 DEF PostLine
    <3>2. chan[<<Target, Post>>] \in Seq(Frames) /\ got[Post] \in Nat /\ due \in Nat
      BY <2>1, StateTypes DEF Explained
    <3>3. got[Post] <= due
      BY ONLY <3>1, <3>2, CarriesNone
    <3>4. got[0] <= out[Post] /\ out[Post] <= got[Post]
      BY <2>1, <2>3 DEF InOrder, WorkerPlace
    <3> QED
      BY <2>1, <2>2, <3>3, <3>4
  <2>6. p \notin skip => p \in kv[Target]
    <3>1. p \in out[Target] .. due - 1 \/ p \in 0 .. out[Target] - 1
      BY <2>1, <2>2, <2>5
    <3> QED
      BY <2>3, <3>1 DEF Cached, PostLine
  <2>7. p \in kv[Target] => p \notin skip
    BY <2>3 DEF Cached
  <2> QED
    BY <2>4, <2>6, <2>7, SkippedBypassed
<1> QED
  BY <1>1, RunExplained, PTL

\* The first one-row step of a decode phase is never bypassed: what
\* tryReadControlPacket forgets at the phase change is enough.
THEOREM NewPhaseIsFull == Spec => []FreshDecodeIsFull
<1>1. RouteInv => FreshDecodeIsFull
  <2> SUFFICES ASSUME RouteInv, firstDecode \in accepted
               PROVE  FALSE
    BY DEF FreshDecodeIsFull
  <2> PICK plan, rd, got, out, due, skip : Explained(plan, rd, got, out, due, skip)
    BY DEF RouteInv, Accounted, Explained
  <2>1. Phases(plan, rd, got, out)
    BY DEF Explained, Account
  <2>2. firstDecode # -1
    BY StateTypes DEF Explained
  <2> QED
    BY <2>1, <2>2 DEF Phases
<1> QED
  BY <1>1, RunExplained, PTL

\* The control packets the root is ahead of a stage: one, and of the bypassed
\* stage those of a run of skipped steps besides.
LEMMA Ahead ==
  ASSUME NEW plan, NEW rd, NEW got, NEW out, NEW due, NEW skip,
         Explained(plan, rd, got, out, due, skip), waveChunks = 0, NEW w \in Workers
  PROVE  ControlWritten <= rd[w] + (IF w = Target THEN MaxConsecutive + 1 ELSE 1)
<1>1. /\ \A s \in Stages : got[s] \in Nat /\ out[s] \in Nat
      /\ nextPos \in Nat /\ rd[w] \in Nat /\ w \in Stages /\ 0 \in Stages /\ due \in Nat
      /\ Post \in Stages /\ Post \in Workers /\ Post # Target /\ Target \in Stages
      /\ MaxConsecutive \in Nat
  <2>1. MaxConsecutive \in Nat
    BY PipelineAssumption
  <2>2. 0 \in Stages /\ Post \in Stages /\ Post \in Workers /\ Post # Target /\ Target \in Stages
    BY Ranges
  <2>3. due \in Nat /\ \A s \in Stages : got[s] \in Nat /\ out[s] \in Nat
    BY Counters DEF Explained, Accounts
  <2> QED
    BY <2>1, <2>2, <2>3, WorkerFacts
<1>2. ControlWritten <= got[0] + 1
  <2>1. RootPlace(plan, got, out)
    BY DEF Explained, Account
  <2> QED
    BY <1>1, <2>1 DEF RootPlace, ControlWritten
<1>3. out[w] <= rd[w]
  <2>1. WorkerPlace(w, plan, rd, got, out, skip)
    BY DEF Explained, Account
  <2> QED
    BY <1>1, <2>1 DEF WorkerPlace
<1>4. CASE w # Target
  <2>1. got[0] <= out[w]
    BY <1>1, <1>4 DEF Explained, Account, InOrder
  <2> PICK c, a, o, r : c = ControlWritten /\ a = got[0] /\ o = out[w] /\ r = rd[w]
    OBVIOUS
  <2>2. c \in Nat /\ a \in Nat /\ o \in Nat /\ r \in Nat /\ c <= a + 1 /\ a <= o /\ o <= r
    BY <1>1, <1>2, <1>3, <2>1, StateTypes DEF Explained
  <2>3. c <= r + 1
    BY ONLY <2>2
  <2> QED
    BY <1>4, <2>3
<1>5. CASE w = Target
  <2> PICK a, o, M : a = got[0] /\ o = out[Target] /\ M = MaxConsecutive
    OBVIOUS
  <2>1. a <= due
    <3>1. Carries(chan[<<Target, Post>>], got[Post], due, Output(skip, Target))
      BY DEF Explained, Account, PostLine
    <3>2. chan[<<Target, Post>>] \in Seq(Frames) /\ got[Post] \in Nat /\ due \in Nat
      BY <1>1, StateTypes DEF Explained
    <3>3. got[Post] <= due
      BY ONLY <3>1, <3>2, CarriesNone
    <3>4. got[0] <= out[Post] /\ out[Post] <= got[Post]
      BY <1>1 DEF Explained, Account, InOrder, WorkerPlace
    <3> QED
      BY <1>1, <3>3, <3>4
  <2>2. o .. due - 1 \subseteq accepted
    BY DEF Explained, Account, PostLine, Decided
  <2>3. o \in 0 .. MaxSteps /\ a \in Nat /\ o \in Nat /\ M \in Nat
    <3>1. out[Target] <= nextPos
      BY <1>1, BehindRoot
    <3>2. nextPos <= MaxSteps /\ MaxSteps \in Nat
      BY PipelineAssumption DEF Explained, IInv, TypeInv, TypeOK
    <3> QED
      BY <1>1, <3>1, <3>2
  <2>4. ~(o .. o + M \subseteq accepted)
    BY <2>3 DEF Explained, IInv, SkipWindowBound
  <2>5. a <= o + M
    <3>1. a > o + M => \A x \in o .. o + M : x \in o .. due - 1
      BY <1>1, <2>1, <2>3
    <3> QED
      BY <2>2, <2>3, <2>4, <3>1
  <2> PICK c, r : c = ControlWritten /\ r = rd[w]
    OBVIOUS
  <2>6. c \in Nat /\ r \in Nat /\ c <= a + 1 /\ o <= r /\ a <= o + M
    BY <1>1, <1>2, <1>3, <1>5, <2>5, StateTypes DEF Explained
  <2>7. c <= r + (M + 1)
    BY ONLY <2>3, <2>6
  <2> QED
    BY <1>5, <2>7
<1> QED
  BY <1>4, <1>5

\* A number is even or odd.
LEMMA Halves ==
  ASSUME NEW m \in Nat
  PROVE  \E k \in Nat : m = k + k \/ m = k + k + 1
<1>1. m \div 2 \in Nat /\ (m = (m \div 2) + (m \div 2) \/ m = (m \div 2) + (m \div 2) + 1)
  OBVIOUS
<1> QED
  BY <1>1

\* The unread packets of a stage are among those it has not read.
LEMMA UnreadCount ==
  ASSUME NEW plan, NEW rd, NEW got, NEW out, NEW due, NEW skip,
         Explained(plan, rd, got, out, due, skip), NEW w \in Workers, NEW n \in Nat,
         ControlWritten <= rd[w] + n
  PROVE  Cardinality(Unread(w)) <= n
<1> PICK q, r, c : q = chan[<<0, w>>] /\ r = rd[w] /\ c = ControlWritten
  OBVIOUS
<1>1. /\ q \in Seq(Frames) /\ r \in Nat /\ c \in Nat /\ c <= r + n /\ Len(q) \in Nat
      /\ Unread(w) = {i \in 1 .. Len(q) : q[i].kind # "act"}
  <2>1. w \in Stages /\ 0 \in Stages
    BY StageFacts
  <2>2. q \in Seq(Frames) /\ c \in Nat
    BY <2>1, StateTypes DEF Explained
  <2> QED
    BY <2>2, WorkerFacts DEF Unread
<1>2. CASE w # 1
  <2>1. Len(q) = c - r
    BY <1>2 DEF Explained, Account, ControlLines, Carries
  <2>2. \A i \in Unread(w) : i \in 1 .. n
    BY <1>1, <2>1
  <2>3. IsFiniteSet(1 .. n) /\ Cardinality(1 .. n) = n
    BY FS_Interval
  <2>4. Cardinality(Unread(w)) <= Cardinality(1 .. n)
    BY <2>2, <2>3, FS_Subset
  <2> QED
    BY <2>3, <2>4
<1>3. CASE w = 1
  <2> PICK low, high : low = rd[1] + got[1] /\ high = ControlWritten + out[0]
    OBVIOUS
  <2>1. /\ low \in Nat /\ high \in Nat /\ low >= r + r - 1 /\ high <= c + c
    <3>1. got[1] \in Nat /\ out[0] \in Nat /\ out[0] <= nextPos /\ nextPos \in Nat
      BY BehindRoot, Counters, StageFacts, StateTypes DEF Explained
    <3>2. nextPos <= c
      BY <3>1 DEF ControlWritten
    <3>3. r <= got[1] + 1
      <4>1. WorkerPlace(1, plan, rd, got, out, skip) /\ out[1] \in Nat
        BY <1>3, WorkerFacts
      <4> QED
        BY <1>1, <1>3, <3>1, <4>1 DEF WorkerPlace
    <3>4. r = rd[1] /\ r \in Nat /\ c \in Nat
      BY <1>1, <1>3
    <3>5. c = ControlWritten
      OBVIOUS
    <3> PICK g, o : g = got[1] /\ o = out[0]
      OBVIOUS
    <3>6. g \in Nat /\ o \in Nat /\ o <= c /\ r <= g + 1 /\ low = r + g /\ high = c + o
      <4>1. o <= c
        BY <3>1, <3>2, <3>4
      <4> QED
        BY <3>1, <3>3, <3>4, <3>5, <4>1
    <3> QED
      BY ONLY <3>4, <3>6
  <2>2. Carries(q, low, high, Mixed(plan, skip))
    BY <1>3 DEF Explained, Account, FirstLine
  <2>3. Len(q) = high - low /\ \A i \in 1 .. Len(q) : q[i] = Mixed(plan, skip)[low + i - 1]
    BY <2>2 DEF Carries
  <2>4. ASSUME NEW i \in Unread(w)
        PROVE  \E k \in r .. c - 1 : i = k + k - low + 1
    <3>1. i \in 1 .. Len(q) /\ q[i].kind # "act"
      BY <1>1
    <3> PICK m : m = low + i - 1
      OBVIOUS
    <3>2. m \in Nat /\ m >= low /\ m < high /\ i = m - low + 1
      <4>1. i \in 1 .. high - low
        BY <2>3, <3>1
      <4> QED
        BY ONLY <2>1, <4>1, m = low + i - 1
    <3>3. PICK k \in Nat : m = k + k \/ m = k + k + 1
      BY <3>2, Halves
    <3>4. m # k + k + 1
      <4>1. SUFFICES ASSUME m = k + k + 1
                     PROVE  FALSE
        OBVIOUS
      <4>2. Mixed(plan, skip)[k + k + 1] = Output(skip, 0)[k]
        BY ONLY <3>3, MixedSent
      <4>3. q[i] = Output(skip, 0)[k]
        BY <2>3, <3>1, <4>1, <4>2
      <4>4. q[i] \in ActFrames
        BY <3>3, <4>3, OutputEntry, StageFacts
      <4> QED
        BY <3>1, <4>4 DEF ActFrames
    <3>5. m = k + k
      BY <3>3, <3>4
    <3>6. k >= r /\ k <= c - 1
      BY ONLY <1>1, <2>1, <3>2, <3>3, <3>5
    <3>7. k \in r .. c - 1 /\ i = k + k - low + 1
      BY ONLY <1>1, <2>1, <3>2, <3>3, <3>5, <3>6
    <3> QED
      BY <3>7
  <2> DEFINE f == [i \in Unread(w) |-> CHOOSE k \in r .. c - 1 : i = k + k - low + 1]
  <2>5. \A i \in Unread(w) : f[i] \in r .. c - 1 /\ i = f[i] + f[i] - low + 1
    BY <2>4
  <2> HIDE DEF f
  <2>6. f \in Injection(Unread(w), r .. c - 1)
    <3>1. f \in [Unread(w) -> r .. c - 1]
      <4>1. f = [i \in Unread(w) |-> f[i]]
        BY DEF f
      <4> QED
        BY <2>5, <4>1
    <3>2. \A a, b \in Unread(w) : f[a] = f[b] => a = b
      BY <2>5
    <3> QED
      BY <3>1, <3>2 DEF Injection, IsInjective
  <2>7. IsFiniteSet(r .. c - 1) /\ Cardinality(r .. c - 1) <= n /\ Cardinality(r .. c - 1) \in Nat
    <3>1. IsFiniteSet(r .. c - 1)
          /\ Cardinality(r .. c - 1) = IF r > c - 1 THEN 0 ELSE c - 1 - r + 1
      <4>1. r \in Int /\ c - 1 \in Int
        BY <1>1
      <4> QED
        BY ONLY <4>1, FS_Interval
    <3> QED
      BY <1>1, <3>1
  <2>8. IsFiniteSet(Unread(w)) /\ Cardinality(Unread(w)) <= Cardinality(r .. c - 1)
    BY <2>6, <2>7, FS_Injection
  <2>9. Cardinality(Unread(w)) \in Nat
    BY <2>8, FS_CardinalityType
  <2> QED
    BY <2>7, <2>8, <2>9
<1> QED
  BY <1>2, <1>3

\* What ReadControlPacket has waiting never piles up: outside of a wave one
\* unread packet, and at the target those of one run of skipped steps.
THEOREM BacklogBounded == Spec => []BacklogBound
<1>1. RouteInv => BacklogBound
  <2> SUFFICES ASSUME RouteInv, waveChunks = 0, NEW w \in Workers
               PROVE  Cardinality(Unread(w)) <= (IF w = Target THEN MaxConsecutive + 1 ELSE 1)
    BY DEF BacklogBound
  <2> PICK plan, rd, got, out, due, skip : Explained(plan, rd, got, out, due, skip)
    BY DEF RouteInv, Accounted, Explained
  <2> PICK n : n = IF w = Target THEN MaxConsecutive + 1 ELSE 1
    OBVIOUS
  <2>1. n \in Nat
    BY PipelineAssumption
  <2>2. ControlWritten <= rd[w] + n
    BY Ahead
  <2>3. Cardinality(Unread(w)) <= n
    BY <2>1, <2>2, UnreadCount
  <2> QED
    BY <2>3
<1> QED
  BY <1>1, RunExplained, PTL

-----------------------------------------------------------------------------
(* The pipeline implements StageSkipContract.                              *)

\* A step is asked for when its control packet is broadcast.
LEMMA StepAsked ==
  ASSUME NEW decode, NEW single, StartStep(decode, single)
  PROVE  Contract!Ask
BY DEF StartStep, Contract!Ask, skipVars, judgeVars

\* The logits read answer the oldest step not answered, by the stages of its
\* route.
LEMMA StepAnswers ==
  ASSUME NEW plan, NEW rd, NEW got, NEW out, NEW due, NEW skip,
         Explained(plan, rd, got, out, due, skip), RootRecvLogits
  PROVE  Contract!Answer
<1> PICK a, via : a = got[0] /\ via = Route(skip, a, Last)
  OBVIOUS
<1>1. /\ answer.pos = a - 1 /\ a \in Nat /\ nextPos \in Nat /\ a < nextPos
      /\ answer'.pos = a /\ answer'.via = via
  <2>1. got[0] < nextPos /\ answer' = [pos |-> got[0], via |-> Route(skip, got[0], Last)]
    BY LogitsReceived
  <2>2. answer.pos = got[0] - 1
    BY DEF Explained, Account, RootPlace
  <2>3. got[0] \in Nat /\ nextPos \in Nat
    BY Counters, StateTypes, StageFacts DEF Explained
  <2> QED
    BY <2>1, <2>2, <2>3
<1>2. UNCHANGED <<mode, nextPos, accepted>>
  BY DEF RootRecvLogits, skipVars, judgeVars
<1>3. {s \in Stages : <<s, a>> \in via} =
        IF mode = "execute" /\ a \in accepted THEN Stages \ {Target} ELSE Stages
  <2>1. via = {<<s, a>> : s \in IF a \in skip THEN Stages \ {Target} ELSE Stages}
    BY RouteStages
  <2>2. a \in skip <=> mode = "execute" /\ a \in accepted
    BY SkippedBypassed DEF Bypassed
  <2> QED
    BY <2>1, <2>2
<1>4. answer.pos + 1 = a /\ answer'.pos + 1 = a + 1
  BY <1>1
<1> QED
  BY <1>1, <1>2, <1>3, <1>4 DEF Contract!Answer

\* What evaluateStageSkipDecision accepts is the newest step, still without
\* an answer, and the run of accepted steps it ends is within the limit.
LEMMA StepChosen ==
  ASSUME NEW plan, NEW rd, NEW got, NEW out, NEW due, NEW skip,
         Explained(plan, rd, got, out, due, skip), SkipWindowBound',
         NEW w \in Workers, EvaluateStageSkipDecision(w)
  PROVE  [Contract!Next]_(Contract!vars)
<1> PICK p, M, a : p = out[w] /\ M = MaxConsecutive /\ a = got[0]
  OBVIOUS
<1>0. /\ pc[w] = "judge" /\ w = Decider /\ Decider \in Stages \ {Target}
      /\ p \in Nat /\ p < nextPos /\ nextPos \in 0 .. MaxSteps /\ a \in Nat /\ a <= p
      /\ M \in Nat /\ M > 0 /\ MaxSteps \in Nat
      /\ cur[w] = plan[p] /\ cur[w].pos = p
      /\ accepted \in SUBSET Nat
  <2>1. pc[w] = "judge"
    BY DEF EvaluateStageSkipDecision
  <2>2. w = Decider
    BY <2>1 DEF Explained, IInv, OwnPlaces
  <2>3. cur[w] = plan[p] /\ cur[w].pos = p /\ p < nextPos
    BY <2>1, InHand
  <2>4. p \in Nat /\ a \in Nat /\ w \in Stages
    BY WorkerFacts, StageFacts
  <2>5. Decider \in Stages \ {Target}
    BY <2>2, <2>4, Ranges
  <2>6. a <= p
    BY <2>2, <2>5 DEF Explained, Account, InOrder
  <2>7. M \in Nat /\ M > 0 /\ MaxSteps \in Nat
    BY PipelineAssumption
  <2>8. nextPos \in 0 .. MaxSteps /\ accepted \in SUBSET Nat
    BY DEF Explained, IInv, TypeInv, TypeOK
  <2> QED
    BY <2>1, <2>2, <2>3, <2>4, <2>5, <2>6, <2>7, <2>8
<1>1. UNCHANGED <<mode, nextPos, answer>>
  BY DEF EvaluateStageSkipDecision, rootVars
<1>2. CASE accepted' = accepted
  BY <1>1, <1>2 DEF Contract!vars
<1>3. CASE accepted' # accepted
  <2>1. accepted' = accepted \cup {p} /\ plan[p].single /\ p \notin accepted
    <3>1. accepted' = accepted \cup {p} /\ DecodeSingle(w)
      BY <1>0, <1>3 DEF EvaluateStageSkipDecision
    <3> QED
      BY <1>0, <1>3, <3>1 DEF DecodeSingle
  <2>2. p = a /\ nextPos = p + 1 /\ answer.pos = a - 1
    <3>1. RootPlace(plan, got, out)
      BY DEF Explained, Account
    <3>2. p \in got[0] .. nextPos - 1
      BY <1>0
    <3> QED
      BY <2>1, <3>1, <3>2 DEF RootPlace
  <2>3. ~(p - M .. p - 1 \subseteq accepted)
    <3>1. SUFFICES ASSUME p - M .. p - 1 \subseteq accepted
                   PROVE  FALSE
      OBVIOUS
    <3>2. p - M \in p - M .. p - 1
      BY <1>0
    <3>3. p - M \in 0 .. MaxSteps
      BY <1>0, <3>1, <3>2
    <3>4. p - M .. p - M + M \subseteq accepted \cup {p}
      BY <1>0, <3>1
    <3>5. ~(p - M .. p - M + M \subseteq accepted')
      BY <3>3 DEF SkipWindowBound
    <3> QED
      BY <2>1, <3>4, <3>5
  <2>4. nextPos - 1 = p /\ nextPos - 2 = p - 1 /\ nextPos - 1 - M = p - M
        /\ answer.pos + 1 < nextPos
    BY <1>0, <2>2
  <2>5. Contract!Choose
    BY <1>1, <2>1, <2>3, <2>4 DEF Contract!Choose
  <2> QED
    BY <2>5 DEF Contract!Next
<1> QED
  BY <1>2, <1>3

\* The other steps of the processes are none of the contract's.
LEMMA StepSilent ==
  ASSUME UNCHANGED <<mode, nextPos, answer, accepted>>
  PROVE  UNCHANGED Contract!vars
BY DEF Contract!vars

\* The stages together keep the promise of RootLlmInference to its driver,
\* whatever the lengths, limits and capacities and whichever process ends:
\* answers in order, one to a step, each by the full route or past the target
\* only, and no more than MaxConsecutive steps in a row past it.
THEOREM ContractKept == Spec => KeepsContract
<1>1. Init => Contract!Init
  BY DEF Init, Contract!Init
<1>2. RouteInv /\ RouteInv' /\ [Next]_vars => [Contract!Next]_(Contract!vars)
  <2> SUFFICES ASSUME RouteInv, RouteInv', [Next]_vars
               PROVE  [Contract!Next]_(Contract!vars)
    OBVIOUS
  <2> PICK plan, rd, got, out, due, skip : Explained(plan, rd, got, out, due, skip)
    BY DEF RouteInv, Accounted, Explained
  <2>1. CASE RootStart \/ RootStartChunk
    <3>1. Contract!Ask
      BY <2>1, StepAsked DEF RootStart, RootStartChunk
    <3> QED
      BY <3>1 DEF Contract!Next
  <2>2. CASE RootRecvLogits
    <3>1. Contract!Answer
      BY <2>2, StepAnswers
    <3> QED
      BY <3>1 DEF Contract!Next
  <2>3. ASSUME NEW w \in Workers, EvaluateStageSkipDecision(w)
        PROVE  [Contract!Next]_(Contract!vars)
    <3>1. SkipWindowBound'
      BY DEF RouteInv, IInv
    <3> QED
      BY <2>3, <3>1, StepChosen
  <2>4. CASE RootForward \/ RootStartDrain \/ RootThrows \/ RootFinish \/ BroadcastThrows \/ RootKilled
    <3>1. UNCHANGED <<mode, nextPos, answer, accepted>>
      BY <2>4 DEF RootForward, RootStartDrain, RootThrows, RootFinish, BroadcastThrows, RootKilled,
         RootEnds, skipVars, judgeVars
    <3> QED
      BY <3>1, StepSilent
  <2>5. ASSUME NEW w \in Workers,
               \/ ReadStop(w) \/ ReadControlPacket(w) \/ RecvActivation(w)
               \/ ProbeBypass(w) \/ ProbeNormal(w)
        PROVE  [Contract!Next]_(Contract!vars)
    <3>1. UNCHANGED <<mode, nextPos, answer, accepted>>
      BY <2>5 DEF ReadStop, ReadControlPacket, RecvActivation, ProbeBypass, ProbeNormal, Probe,
         Receive, rootVars, skipVars, judgeVars
    <3> QED
      BY <3>1, StepSilent
  <2>6. ASSUME NEW w \in Workers,
               \/ Forward(w) \/ SendMarker(w) \/ SendBypass(w) \/ SendActivation(w)
               \/ SessionEnds(w) \/ PollTimeout(w) \/ WorkerKilled(w)
        PROVE  [Contract!Next]_(Contract!vars)
    <3>1. UNCHANGED <<mode, nextPos, answer, accepted>>
      BY <2>6 DEF Forward, SendMarker, SendBypass, SendActivation, SessionEnds, PollTimeout,
         WorkerKilled, SessionOver, rootVars, skipVars, judgeVars
    <3> QED
      BY <3>1, StepSilent
  <2>7. CASE UNCHANGED vars
    <3>1. UNCHANGED <<mode, nextPos, answer, accepted>>
      BY <2>7 DEF vars, rootVars, skipVars, judgeVars
    <3> QED
      BY <3>1, StepSilent
  <2> QED
    BY <2>1, <2>2, <2>3, <2>4, <2>5, <2>6, <2>7 DEF Next, RootProgress, WorkerStep, Fault
<1> QED
  BY <1>1, <1>2, RunExplained, PTL DEF Spec, KeepsContract, Contract!Spec

=============================================================================
