------------------------------ MODULE Gateway ------------------------------
(***************************************************************************)
(* dllama-gateway.cpp: every accepted client gets a thread (processClient) *)
(* that is admitted or turned away, reads the request, picks a replica,    *)
(* proxies request and response, and gives the replica back.  The threads  *)
(* share an atomic counter of active requests and, under a mutex, the      *)
(* replicas' counters, their health and the round-robin cursor.            *)
(*                                                                         *)
(* A request is a slot: its thread ends and another client may take it.    *)
(* What a client or a replica does (answer, hang up, refuse) is a choice;  *)
(* time is the action that ends a replica's rest.                          *)
(***************************************************************************)
EXTENDS Integers, FiniteSets

CONSTANTS
  Requests,     \* slots for threads of processClient
  NBackends,    \* number of --backends
  MaxQueue,     \* --max-queue
  MaxInflight,  \* --max-inflight-per-backend
  MaxLost       \* bound: refusals that could not be written

ASSUME GatewayAssumption ==
  /\ IsFiniteSet(Requests)
  /\ NBackends \in Nat \ {0}
  /\ MaxQueue \in Nat \ {0}
  /\ MaxInflight \in Nat \ {0}
  /\ MaxLost \in Nat

Backends == 0 .. NBackends - 1
None     == -1

VARIABLES
  pc,             \* pc[r]: where the thread of slot r is, "none" without one
  activeRequests,
  inflight, unhealthy, rrCursor,   \* under backendsMutex
  backendIndex,   \* backendIndex[r], None before a replica is acquired
  backendFailed,  \* backendFailed[r]
  terminated,     \* an exception left a thread: std::terminate
  lost,           \* history: requests that were subtracted twice
  passedOver      \* history: selections in a row that left an idle replica out

balancer == <<inflight, unhealthy, rrCursor, passedOver>>
vars == <<pc, activeRequests, balancer, backendIndex, backendFailed, terminated, lost>>

Goto(r, place) == pc' = [pc EXCEPT ![r] = place]

-----------------------------------------------------------------------------
\* acceptSocket and the new thread.
Accept(r) ==
  /\ pc[r] = "none"
  /\ Goto(r, "arrived")
  /\ UNCHANGED <<activeRequests, balancer, backendIndex, backendFailed, terminated, lost>>

\* A slip: the counter is tested before the request is counted.
TestsFirst(activeNow) == activeNow - 1 > MaxQueue

QueueFull(activeNow) == activeNow > MaxQueue

Admit(r) ==
  /\ pc[r] = "arrived"
  /\ activeRequests' = activeRequests + 1
  /\ Goto(r, IF QueueFull(activeRequests + 1) THEN "full" ELSE "reading")
  /\ UNCHANGED <<balancer, backendIndex, backendFailed, terminated, lost>>

\* This refusal is written outside the try block: if the client is gone, the
\* exception leaves the thread and ends the gateway.
TurnAway(r) ==
  /\ pc[r] = "full"
  /\ activeRequests' = activeRequests - 1
  /\ Goto(r, "none")
  /\ terminated' \in BOOLEAN
  /\ UNCHANGED <<balancer, backendIndex, backendFailed, lost>>

\* readHttpRequestRaw gives a request, or throws.
ReadRequest(r) ==
  /\ pc[r] = "reading"
  /\ \E complete \in BOOLEAN :
       /\ Goto(r, IF complete THEN "select" ELSE "release")
       /\ backendFailed' = [backendFailed EXCEPT ![r] = ~complete]
  /\ UNCHANGED <<activeRequests, balancer, backendIndex, terminated, lost>>

-----------------------------------------------------------------------------
\* A slip: a replica at its limit may have one more.
OneTooMany == {b \in Backends : ~unhealthy[b] /\ inflight[b] <= MaxInflight}

Eligible == {b \in Backends : ~unhealthy[b] /\ inflight[b] < MaxInflight}

\* The replicas with the fewest requests; of these, the first from the cursor.
LeastLoaded == {b \in Eligible : \A d \in Eligible : inflight[b] <= inflight[d]}
FromCursor(b) == IF b >= rrCursor THEN b - rrCursor ELSE b + NBackends - rrCursor
Selected(b) == b \in LeastLoaded /\ \A d \in LeastLoaded : FromCursor(b) <= FromCursor(d)

\* A slip: the search starts where the last one ended.
StaysPut(b) == b

CursorAfter(b) == IF b + 1 = NBackends THEN 0 ELSE b + 1

Idle(b) == ~unhealthy[b] /\ inflight[b] = 0

Acquire(r, b) ==
  /\ pc[r] = "select" /\ Selected(b)
  /\ inflight' = [inflight EXCEPT ![b] = @ + 1]
  /\ rrCursor' = CursorAfter(b)
  /\ passedOver' = [d \in Backends |-> IF Idle(d) /\ d # b THEN passedOver[d] + 1 ELSE 0]
  /\ backendIndex' = [backendIndex EXCEPT ![r] = b]
  /\ Goto(r, "forward")
  /\ UNCHANGED <<activeRequests, unhealthy, backendFailed, terminated, lost>>

NoReplica(r) ==
  /\ pc[r] = "select" /\ Eligible = {}
  /\ Goto(r, "busy")
  /\ UNCHANGED <<activeRequests, balancer, backendIndex, backendFailed, terminated, lost>>

\* This refusal is written inside the try block: if the client is gone, the
\* handler goes on to the release, which subtracts the request once more.
RefuseBusy(r) ==
  /\ pc[r] = "busy"
  /\ activeRequests' = activeRequests - 1
  /\ \/ /\ Goto(r, "none")
        /\ UNCHANGED <<backendFailed, lost>>
     \/ /\ lost < MaxLost
        /\ Goto(r, "release")
        /\ backendFailed' = [backendFailed EXCEPT ![r] = TRUE]
        /\ lost' = lost + 1
  /\ UNCHANGED <<balancer, backendIndex, terminated>>

\* connectToBackend, the request and proxyResponse: any of them throws when
\* the replica or the client fails.
Forward(r) ==
  /\ pc[r] = "forward"
  /\ Goto(r, "release")
  /\ \E failed \in BOOLEAN : backendFailed' = [backendFailed EXCEPT ![r] = failed]
  /\ UNCHANGED <<activeRequests, balancer, backendIndex, terminated, lost>>

\* A slip: a replica that failed is only put to rest.
KeepsFailed(r) ==
  /\ pc[r] = "release"
  /\ IF backendIndex[r] = None THEN UNCHANGED <<inflight, unhealthy>>
     ELSE /\ inflight' = [inflight EXCEPT ![backendIndex[r]] =
                            IF @ > 0 /\ ~backendFailed[r] THEN @ - 1 ELSE @]
          /\ unhealthy' = [unhealthy EXCEPT ![backendIndex[r]] = @ \/ backendFailed[r]]
  /\ backendIndex' = [backendIndex EXCEPT ![r] = None]
  /\ backendFailed' = [backendFailed EXCEPT ![r] = FALSE]
  /\ Goto(r, "leave")
  /\ UNCHANGED <<activeRequests, rrCursor, passedOver, terminated, lost>>

\* releaseBackend; the locals of the thread are not used after it.
Release(r) ==
  /\ pc[r] = "release"
  /\ IF backendIndex[r] = None THEN UNCHANGED <<inflight, unhealthy>>
     ELSE /\ inflight' = [inflight EXCEPT ![backendIndex[r]] = IF @ > 0 THEN @ - 1 ELSE @]
          /\ unhealthy' = [unhealthy EXCEPT ![backendIndex[r]] = @ \/ backendFailed[r]]
  /\ backendIndex' = [backendIndex EXCEPT ![r] = None]
  /\ backendFailed' = [backendFailed EXCEPT ![r] = FALSE]
  /\ Goto(r, "leave")
  /\ UNCHANGED <<activeRequests, rrCursor, passedOver, terminated, lost>>

Leave(r) ==
  /\ pc[r] = "leave"
  /\ activeRequests' = activeRequests - 1
  /\ Goto(r, "none")
  /\ UNCHANGED <<balancer, backendIndex, backendFailed, terminated, lost>>

\* healthRetryMs have passed: unhealthyUntil is no longer ahead of the clock.
RestEnds(b) ==
  /\ unhealthy[b]
  /\ unhealthy' = [unhealthy EXCEPT ![b] = FALSE]
  /\ UNCHANGED <<pc, activeRequests, inflight, rrCursor, passedOver, backendIndex,
                 backendFailed, terminated, lost>>

-----------------------------------------------------------------------------
Init ==
  /\ pc = [r \in Requests |-> "none"]
  /\ activeRequests = 0
  /\ inflight = [b \in Backends |-> 0]
  /\ unhealthy = [b \in Backends |-> FALSE]
  /\ rrCursor = 0
  /\ backendIndex = [r \in Requests |-> None]
  /\ backendFailed = [r \in Requests |-> FALSE]
  /\ terminated = FALSE
  /\ lost = 0
  /\ passedOver = [b \in Backends |-> 0]

processClient(r) ==
  \/ Admit(r)
  \/ TurnAway(r)
  \/ ReadRequest(r)
  \/ \E b \in Backends : Acquire(r, b)
  \/ NoReplica(r)
  \/ RefuseBusy(r)
  \/ Forward(r)
  \/ Release(r)
  \/ Leave(r)

Next ==
  /\ ~terminated
  /\ \/ \E r \in Requests : Accept(r) \/ processClient(r)
     \/ \E b \in Backends : RestEnds(b)

Spec == Init /\ [][Next]_vars

-----------------------------------------------------------------------------
Admitted == {r \in Requests :
               pc[r] \in {"reading", "select", "busy", "forward", "release", "leave"}}
Counted  == Admitted \cup {r \in Requests : pc[r] = "full"}
Served(b) == {r \in Requests : pc[r] \in {"forward", "release"} /\ backendIndex[r] = b}

\* No replica serves more than --max-inflight-per-backend requests, and its
\* counter never passes zero, where releaseBackend would silently stop it.
TypeOK ==
  /\ pc \in [Requests -> {"none", "arrived", "full", "reading", "select", "busy",
                          "forward", "release", "leave"}]
  /\ activeRequests \in Int
  /\ inflight \in [Backends -> 0 .. MaxInflight]
  /\ unhealthy \in [Backends -> BOOLEAN]
  /\ rrCursor \in Backends
  /\ backendIndex \in [Requests -> Backends \cup {None}]
  /\ backendFailed \in [Requests -> BOOLEAN]
  /\ terminated \in BOOLEAN
  /\ lost \in 0 .. MaxLost
  /\ passedOver \in [Backends -> Nat]

\* releaseBackend runs once for every acquired replica, whatever fails on the
\* way: the counter of a replica is the number of requests it serves.
InflightMatches == \A b \in Backends : inflight[b] = Cardinality(Served(b))

\* processClient admits at most --max-queue requests at a time, and one more
\* for every refusal that could not be written: that request is subtracted
\* from activeRequests twice, and nothing ever adds it back.
AdmissionBound == Cardinality(Admitted) <= MaxQueue + lost

\* selectBackendAndAcquire: the cursor passes every replica that is healthy
\* and idle before it comes to one for the second time.
NoReplicaPassedOver == \A b \in Backends : passedOver[b] < NBackends

=============================================================================
