--------------------------- MODULE NetworkBringUp ---------------------------
(***************************************************************************)
(* How the nodes find each other: NnNetwork::connect at the root, and      *)
(* NnNetwork::serve with the loop of runWorkerApp around it at the         *)
(* workers.  The root connects to each worker in turn, tells it who the    *)
(* others are and waits for an acknowledgement; when all have answered it  *)
(* tells all to go on, and the workers accept their lower peers and        *)
(* connect to the higher ones.  A root that dies is started again by hand, *)
(* a worker whose session failed listens again.                            *)
(*                                                                         *)
(* A connection is named after the node that made it, the attempt of the   *)
(* root it was made in, and the node it was made to.  A listener queues    *)
(* connections before they are accepted; closing it drops them.  One that  *)
(* nobody listens for is refused: connectSocket does not wait for the      *)
(* answer of the other host and may return it as a connection all the      *)
(* same, which the next read or write finds broken.                        *)
(***************************************************************************)
EXTENDS Integers, Sequences, Functions

CONSTANTS
  NWorkers,      \* number of --workers
  MaxAttempts    \* bound: times the root is started

ASSUME BringUpAssumption == NWorkers \in Nat \ {0} /\ MaxAttempts \in Nat

Root    == 0
Workers == 1 .. NWorkers

VARIABLES
  attempt,      \* times the root was started
  rootPc,       \* "down", "connect", "hello", "ack", "ready", "up"
  rootNext,     \* the worker the root is at
  pc,           \* pc[w]: "closed", "accept", "hello", "waitReady", "peers", "up"
  session,      \* session[w]: attempt of the root that w answered, 0 if none
  sockets,      \* sockets[w]: connections by socket index, the root's first
  backlog,      \* backlog[w]: connections w's listener has and w did not accept
  wire,         \* packets <<connection, kind>> that were not read
  workerKilled  \* history: a worker process was killed and started again

rootVars == <<attempt, rootPc, rootNext>>
vars == <<rootVars, pc, session, sockets, backlog, wire, workerKilled>>

Conn(from, id, to) == [from |-> from, id |-> id, to |-> to]
RootConn(w) == Conn(Root, attempt, w)

\* Is the end of c at the node that made it, or at the other one, still open?
OpenAtMaker(c) == IF c.from = Root THEN rootPc # "down" /\ c.id = attempt
                                   ELSE c \in Range(sockets[c.from])
OpenAtTarget(c) == c \in Range(sockets[c.to]) \cup Range(backlog[c.to])

\* The listening socket lives as long as the call of serve().
Listening(w) == pc[w] \notin {"closed", "up"}

-----------------------------------------------------------------------------
(* The root.                                                               *)

RootStart ==
  /\ rootPc = "down" /\ attempt < MaxAttempts
  /\ attempt' = attempt + 1
  /\ rootPc' = "connect"
  /\ rootNext' = 1
  /\ UNCHANGED <<pc, session, sockets, backlog, wire, workerKilled>>

\* An exception or the end of the process closes all sockets of the root;
\* acknowledgements on their way to it are lost.
RootDown ==
  /\ rootPc' = "down"
  /\ wire' = {p \in wire : p[2] # "ack"}
  /\ UNCHANGED <<attempt, rootNext, pc, session, sockets, backlog, workerKilled>>

\* The queues of the listeners once somebody called connect for c.
Dialed(c) ==
  IF Listening(c.to) THEN [backlog EXCEPT ![c.to] = Append(@, c)] ELSE backlog

RootConnect ==
  /\ rootPc = "connect"
  /\ rootPc' = "hello"
  /\ backlog' = Dialed(RootConn(rootNext))
  /\ UNCHANGED <<attempt, rootNext, pc, session, sockets, wire, workerKilled>>

\* nNodes, nodeIndex and the addresses of the other workers; lost if the
\* worker closed the connection meanwhile, or never had it.
RootHello ==
  /\ rootPc = "hello"
  /\ wire' = IF OpenAtTarget(RootConn(rootNext))
             THEN wire \cup {<<RootConn(rootNext), "hello">>} ELSE wire
  /\ rootPc' = "ack"
  /\ UNCHANGED <<attempt, rootNext, pc, session, sockets, backlog, workerKilled>>

\* A slip: the next worker is not kept waiting for the answer of the last.
WaitsForNone ==
  /\ rootPc = "ack"
  /\ rootPc' = IF rootNext = NWorkers THEN "ready" ELSE "connect"
  /\ rootNext' = IF rootNext = NWorkers THEN 1 ELSE rootNext + 1
  /\ UNCHANGED <<attempt, pc, session, sockets, backlog, wire, workerKilled>>

RootReadAck ==
  /\ rootPc = "ack"
  /\ <<RootConn(rootNext), "ack">> \in wire
  /\ wire' = wire \ {<<RootConn(rootNext), "ack">>}
  /\ rootPc' = IF rootNext = NWorkers THEN "ready" ELSE "connect"
  /\ rootNext' = IF rootNext = NWorkers THEN 1 ELSE rootNext + 1
  /\ UNCHANGED <<attempt, pc, session, sockets, backlog, workerKilled>>

\* A slip: the last worker is told first.
LastFirst ==
  LET w == NWorkers + 1 - rootNext
  IN  /\ rootPc = "ready"
      /\ wire' = IF OpenAtTarget(RootConn(w)) THEN wire \cup {<<RootConn(w), "ready">>} ELSE wire
      /\ rootPc' = IF rootNext = NWorkers THEN "up" ELSE "ready"
      /\ rootNext' = IF rootNext = NWorkers THEN rootNext ELSE rootNext + 1
      /\ UNCHANGED <<attempt, pc, session, sockets, backlog, workerKilled>>

RootReady ==
  /\ rootPc = "ready"
  /\ wire' = IF OpenAtTarget(RootConn(rootNext))
             THEN wire \cup {<<RootConn(rootNext), "ready">>} ELSE wire
  /\ rootPc' = IF rootNext = NWorkers THEN "up" ELSE "ready"
  /\ rootNext' = IF rootNext = NWorkers THEN rootNext ELSE rootNext + 1
  /\ UNCHANGED <<attempt, pc, session, sockets, backlog, workerKilled>>

\* The root reads from a worker, or writes to one, that closed the connection
\* or refused it; or connect itself says that nobody listens.
RootFails ==
  /\ \/ rootPc = "connect" /\ ~Listening(rootNext)
     \/ rootPc = "hello" /\ ~OpenAtTarget(RootConn(rootNext))
     \/ /\ rootPc = "ack"
        /\ ~OpenAtTarget(RootConn(rootNext))
        /\ <<RootConn(rootNext), "ack">> \notin wire
     \/ rootPc = "ready" /\ ~OpenAtTarget(RootConn(rootNext))
     \/ rootPc = "up" /\ \E w \in Workers : ~OpenAtTarget(RootConn(w))
  /\ RootDown

\* The user ends the root, or it crashes.
RootKilled == rootPc # "down" /\ RootDown

-----------------------------------------------------------------------------
(* The workers.                                                            *)

AcceptRoot(w) ==
  /\ pc[w] = "accept" /\ backlog[w] # <<>>
  /\ sockets' = [sockets EXCEPT ![w] = <<Head(backlog[w])>>]
  /\ backlog' = [backlog EXCEPT ![w] = Tail(@)]
  /\ pc' = [pc EXCEPT ![w] = "hello"]
  /\ UNCHANGED <<rootVars, session, wire, workerKilled>>

\* A slip: the worker does not wait for the root to be ready.
GoesOn == "peers"

AfterHello == "waitReady"

\* The first connection is taken for the root's; what is read from it is
\* answered with the acknowledgement.
ReadHello(w) ==
  LET c == sockets[w][1]
  IN  /\ pc[w] = "hello"
      /\ <<c, "hello">> \in wire
      /\ wire' = (wire \ {<<c, "hello">>})
                   \cup (IF OpenAtMaker(c) THEN {<<c, "ack">>} ELSE {})
      /\ session' = [session EXCEPT ![w] = c.id]
      /\ pc' = [pc EXCEPT ![w] = AfterHello]
      /\ UNCHANGED <<rootVars, sockets, backlog, workerKilled>>

\* The worker at index k of the list of the others: otherWorkerIndex.
\* A slip: the node itself is not left out.
CountsItself(w, k) == k
OtherWorker(w, k) == IF k < w THEN k ELSE k + 1

\* The session with its sockets and its listener is gone, and with it what
\* was sent to it.
EndSession(w) ==
  /\ pc' = [pc EXCEPT ![w] = "closed"]
  /\ session' = [session EXCEPT ![w] = 0]
  /\ sockets' = [sockets EXCEPT ![w] = <<>>]
  /\ backlog' = [backlog EXCEPT ![w] = <<>>]
  /\ wire' = {p \in wire : p[1].to = w => p[2] = "ack"}

\* serve() returns when there is a socket for every other node, and closes
\* its listener.
HasAll(list) == Len(list) = NWorkers
AfterPeer(w, list) ==
  /\ sockets' = [sockets EXCEPT ![w] = list]
  /\ pc' = [pc EXCEPT ![w] = IF HasAll(list) THEN "up" ELSE "peers"]

ReadReady(w) ==
  LET c == sockets[w][1]
  IN  /\ pc[w] = "waitReady"
      /\ <<c, "ready">> \in wire
      /\ wire' = wire \ {<<c, "ready">>}
      /\ AfterPeer(w, sockets[w])
      /\ backlog' = IF HasAll(sockets[w]) THEN [backlog EXCEPT ![w] = <<>>] ELSE backlog
      /\ UNCHANGED <<rootVars, session, workerKilled>>

\* Whatever comes next is taken for the lower peer whose turn it is.
AcceptPeer(w) ==
  /\ pc[w] = "peers" /\ OtherWorker(w, Len(sockets[w])) < w
  /\ backlog[w] # <<>>
  /\ LET list == Append(sockets[w], Head(backlog[w]))
     IN  /\ AfterPeer(w, list)
         /\ backlog' = [backlog EXCEPT ![w] = IF HasAll(list) THEN <<>> ELSE Tail(@)]
  /\ UNCHANGED <<rootVars, session, wire, workerKilled>>

ConnectPeer(w) ==
  LET h == OtherWorker(w, Len(sockets[w]))
      c == Conn(w, session[w], h)
      list == Append(sockets[w], c)
  IN  /\ pc[w] = "peers" /\ h >= w
      /\ AfterPeer(w, list)
      /\ backlog' = IF HasAll(list) THEN [Dialed(c) EXCEPT ![w] = <<>>] ELSE Dialed(c)
      /\ UNCHANGED <<rootVars, session, wire, workerKilled>>

\* connect says at once that nobody listens.
PeerRefuses(w) ==
  /\ pc[w] = "peers" /\ OtherWorker(w, Len(sockets[w])) >= w
  /\ ~Listening(OtherWorker(w, Len(sockets[w])))
  /\ EndSession(w)
  /\ UNCHANGED <<rootVars, workerKilled>>

\* The worker reads from the root, and the root closed the connection.
LosesRoot(w) ==
  LET c == sockets[w][1]
  IN  /\ pc[w] \in {"hello", "waitReady", "up"}
      /\ ~OpenAtMaker(c)
      /\ {<<c, "hello">>, <<c, "ready">>} \cap wire = {}
      /\ EndSession(w)
      /\ UNCHANGED <<rootVars, workerKilled>>

\* In the inference a node may meet a peer that closed its end.
OtherEndOpen(w, c) == IF c.from = w THEN OpenAtTarget(c) ELSE OpenAtMaker(c)
LosesPeer(w) ==
  /\ pc[w] = "up"
  /\ \E i \in 2 .. Len(sockets[w]) : ~OtherEndOpen(w, sockets[w][i])
  /\ EndSession(w)
  /\ UNCHANGED <<rootVars, workerKilled>>

\* The loop of runWorkerApp calls serve() again.
Relisten(w) ==
  /\ pc[w] = "closed"
  /\ pc' = [pc EXCEPT ![w] = "accept"]
  /\ UNCHANGED <<rootVars, session, sockets, backlog, wire, workerKilled>>

\* The process is killed and started again, once.
WorkerKilled(w) ==
  /\ ~workerKilled
  /\ workerKilled' = TRUE
  /\ EndSession(w)
  /\ UNCHANGED rootVars

-----------------------------------------------------------------------------
Init ==
  /\ attempt = 0 /\ rootPc = "down" /\ rootNext = 1
  /\ pc = [w \in Workers |-> "closed"]
  /\ session = [w \in Workers |-> 0]
  /\ sockets = [w \in Workers |-> <<>>]
  /\ backlog = [w \in Workers |-> <<>>]
  /\ wire = {}
  /\ workerKilled = FALSE

RootStep == RootConnect \/ RootHello \/ RootReadAck \/ RootReady \/ RootFails

WorkerStep(w) ==
  \/ Relisten(w)
  \/ AcceptRoot(w)
  \/ ReadHello(w)
  \/ ReadReady(w)
  \/ AcceptPeer(w)
  \/ ConnectPeer(w)
  \/ PeerRefuses(w)
  \/ LosesRoot(w)

Next ==
  \/ RootStart
  \/ RootStep
  \/ RootKilled
  \/ \E w \in Workers : WorkerStep(w) \/ LosesPeer(w) \/ WorkerKilled(w)

Spec == Init /\ [][Next]_vars

\* Both processes run; who starts or kills them is the user's business.
FairSpec == Spec /\ WF_vars(RootStep) /\ \A w \in Workers : WF_vars(WorkerStep(w))

-----------------------------------------------------------------------------
Conns == [from : Root .. NWorkers, id : 1 .. MaxAttempts, to : Workers]

\* A connection leads to a node with a higher index, and is accepted once.
TypeOK ==
  /\ attempt \in 0 .. MaxAttempts
  /\ rootPc \in {"down", "connect", "hello", "ack", "ready", "up"}
  /\ rootNext \in Workers
  /\ pc \in [Workers -> {"closed", "accept", "hello", "waitReady", "peers", "up"}]
  /\ session \in [Workers -> 0 .. MaxAttempts]
  /\ \A w \in Workers :
       /\ Len(sockets[w]) <= NWorkers
       /\ Range(sockets[w]) \cup Range(backlog[w]) \subseteq {c \in Conns : c.from < c.to}
       /\ Range(sockets[w]) \cap Range(backlog[w]) = {}
  /\ wire \subseteq Conns \X {"hello", "ack", "ready"}
  /\ workerKilled \in BOOLEAN

\* Workers in a session of the root that runs.
Joined(w) == pc[w] = "up" /\ rootPc # "down" /\ session[w] = attempt

\* A worker in a session of the running root has one connection with every
\* other node, each made in this attempt.  Only the order of things keeps an
\* old session out: the root goes on to a worker after the lower ones have
\* answered, and so have left the sessions they could still connect from.
OneSocketPerNode ==
  \A w \in Workers : Joined(w) =>
    /\ \A i \in DOMAIN sockets[w] : sockets[w][i].id = attempt
    /\ {IF c.from = w THEN c.to ELSE c.from : c \in Range(sockets[w])}
         = (Root .. NWorkers) \ {w}

\* getSocketIndexForNode (nn-network.cpp:1246): "Worker to worker: map peer
\* node to socket index", "0=root, 1=node1, 2=node2, ..., but skip self".
SocketsLeadToPeers ==
  \A w \in Workers : Joined(w) =>
    /\ sockets[w][1].from = Root
    /\ \A k \in 1 .. NWorkers - 1 :
         OtherWorker(w, k) \in {sockets[w][k + 1].from, sockets[w][k + 1].to}

\* nn-network.cpp:594: the workers wait for "root is ready", so that the root
\* never waits for a worker that waits for somebody else.  A killed worker
\* can leave a peer in accept(), which has no timeout.
AttemptEnds ==
  []~workerKilled => (rootPc = "connect" ~> rootPc \in {"up", "down"})

\* app.cpp:1938: "Worker session ended (%s). Re-listening": wherever a root
\* dies, all workers come back to wait for the next one.
WorkersListenAgain ==
  []~workerKilled /\ <>[](rootPc = "down") =>
    <>[](\A w \in Workers : pc[w] = "accept" /\ backlog[w] = <<>>)

=============================================================================
