--------------------------- MODULE GatewayProofs ---------------------------
(***************************************************************************)
(* Theorems about Gateway for every number of requests and replicas and    *)
(* for all limits.                                                         *)
(***************************************************************************)
EXTENDS Gateway, FiniteSetTheorems, TLAPS

\* A thread has no replica before it acquires one, and none after Release.
Unassigned == \A r \in Requests : pc[r] \notin {"forward", "release"} => backendIndex[r] = None

\* The atomic counter is short by the requests that were subtracted twice.
ActiveCounted == activeRequests = Cardinality(Counted) - lost

\* A replica that was passed over is that much nearer to the cursor.
Approaches == \A b \in Backends : passedOver[b] + FromCursor(b) < NBackends

IInv == TypeOK /\ Unassigned /\ Approaches /\ InflightMatches /\ ActiveCounted /\ AdmissionBound

-----------------------------------------------------------------------------
(* Types, and who has a replica.                                           *)

LEMMA InitTyped == Init => TypeOK /\ Unassigned
<1> SUFFICES ASSUME Init PROVE TypeOK /\ Unassigned
  OBVIOUS
<1> USE GatewayAssumption DEF Init
<1>1. pc \in [Requests -> {"none", "arrived", "full", "reading", "select", "busy",
                           "forward", "release", "leave"}]
  OBVIOUS
<1>2. backendIndex \in [Requests -> Backends \cup {None}] /\ rrCursor \in Backends
  BY DEF Backends
<1>3. inflight \in [Backends -> 0 .. MaxInflight] /\ unhealthy \in [Backends -> BOOLEAN]
  OBVIOUS
<1>4. backendFailed \in [Requests -> BOOLEAN] /\ passedOver \in [Backends -> Nat]
  OBVIOUS
<1>5. activeRequests \in Int /\ lost \in 0 .. MaxLost
  OBVIOUS
<1>6. terminated \in BOOLEAN
  BY Zenon
<1> QED
  BY <1>1, <1>2, <1>3, <1>4, <1>5, <1>6 DEF TypeOK, Unassigned

LEMMA RequestTyped ==
  ASSUME TypeOK, Unassigned, NEW r \in Requests, Accept(r) \/ processClient(r)
  PROVE  TypeOK' /\ Unassigned'
<1> USE GatewayAssumption DEF TypeOK, Unassigned, Goto, balancer
<1>1. CASE Accept(r)
  BY <1>1 DEF Accept
<1>2. CASE Admit(r)
  BY <1>2 DEF Admit
<1>3. CASE TurnAway(r)
  BY <1>3 DEF TurnAway
<1>4. CASE ReadRequest(r)
  BY <1>4 DEF ReadRequest
<1>5. ASSUME NEW b \in Backends, Acquire(r, b)
      PROVE  TypeOK' /\ Unassigned'
  <2>1. inflight[b] \in 0 .. MaxInflight - 1
    BY <1>5 DEF Acquire, Selected, LeastLoaded, Eligible
  <2>2. CursorAfter(b) \in Backends
    BY DEF CursorAfter, Backends
  <2>3. inflight' \in [Backends -> 0 .. MaxInflight] /\ passedOver' \in [Backends -> Nat]
    BY <1>5, <2>1 DEF Acquire
  <2> QED
    BY <1>5, <2>2, <2>3 DEF Acquire
<1>6. CASE NoReplica(r)
  BY <1>6 DEF NoReplica
<1>7. CASE RefuseBusy(r)
  <2>1. activeRequests' \in Int /\ lost' \in 0 .. MaxLost
    BY <1>7 DEF RefuseBusy
  <2>2. backendFailed' \in [Requests -> BOOLEAN]
    BY <1>7 DEF RefuseBusy
  <2> QED
    BY <1>7, <2>1, <2>2 DEF RefuseBusy
<1>8. CASE Forward(r)
  BY <1>8 DEF Forward
<1>9. CASE Release(r)
  <2>1. inflight' \in [Backends -> 0 .. MaxInflight] /\ unhealthy' \in [Backends -> BOOLEAN]
    BY <1>9 DEF Release
  <2> QED
    BY <1>9, <2>1 DEF Release, None
<1>10. CASE Leave(r)
  BY <1>10 DEF Leave
<1> QED
  BY <1>1, <1>2, <1>3, <1>4, <1>5, <1>6, <1>7, <1>8, <1>9, <1>10 DEF processClient

LEMMA StepTyped ==
  ASSUME TypeOK, Unassigned, [Next]_vars
  PROVE  TypeOK' /\ Unassigned'
<1>1. ASSUME NEW b \in Backends, RestEnds(b)
      PROVE  TypeOK' /\ Unassigned'
  BY <1>1 DEF RestEnds, TypeOK, Unassigned
<1>2. CASE UNCHANGED vars
  BY <1>2 DEF vars, balancer, TypeOK, Unassigned
<1> QED
  BY <1>1, <1>2, RequestTyped DEF Next

-----------------------------------------------------------------------------
(* The round robin.                                                        *)

\* The replica that is selected lies before every other idle one: an idle
\* replica is among the least loaded.
LEMMA SelectedIsNearer ==
  ASSUME TypeOK, NEW b \in Backends, NEW d \in Backends, Selected(b), Idle(d), d # b
  PROVE  FromCursor(b) < FromCursor(d)
<1> USE GatewayAssumption
<1>1. d \in LeastLoaded
  BY DEF LeastLoaded, Eligible, Idle, TypeOK
<1>2. FromCursor(b) <= FromCursor(d)
  BY <1>1 DEF Selected
<1>3. FromCursor(b) # FromCursor(d)
  BY DEF FromCursor, Backends, TypeOK
<1> QED
  BY <1>2, <1>3 DEF FromCursor, Backends, TypeOK

LEMMA StepApproaches ==
  ASSUME TypeOK, Approaches, [Next]_vars
  PROVE  Approaches'
<1> USE GatewayAssumption
<1>1. ASSUME NEW r \in Requests, NEW b \in Backends, Acquire(r, b), NEW d \in Backends
      PROVE  passedOver'[d] + FromCursor(d)' < NBackends
  <2>1. rrCursor' = CursorAfter(b) /\ rrCursor' \in Backends
    BY <1>1 DEF Acquire, CursorAfter, Backends
  <2>2. FromCursor(d)' \in 0 .. NBackends - 1
    BY <2>1 DEF FromCursor, Backends
  <2>3. CASE Idle(d) /\ d # b
    <3>1. FromCursor(b) < FromCursor(d)
      BY <1>1, <2>3, SelectedIsNearer DEF Acquire
    <3>2. FromCursor(d)' = FromCursor(d) - FromCursor(b) - 1
      BY <2>1, <3>1 DEF FromCursor, CursorAfter, Backends, TypeOK
    <3>3. FromCursor(b) \in Nat /\ FromCursor(d) \in Nat /\ passedOver[d] \in Nat
      BY DEF FromCursor, Backends, TypeOK
    <3>4. passedOver'[d] = passedOver[d] + 1
      BY <1>1, <2>3 DEF Acquire
    <3>5. passedOver[d] + FromCursor(d) < NBackends
      BY DEF Approaches
    <3> QED
      BY <3>2, <3>3, <3>4, <3>5
  <2>4. CASE ~(Idle(d) /\ d # b)
    <3>1. passedOver'[d] = 0
      BY <1>1, <2>4 DEF Acquire
    <3> QED
      BY <2>2, <3>1
  <2> QED
    BY <2>3, <2>4
<1>2. ASSUME UNCHANGED <<rrCursor, passedOver>>
      PROVE  Approaches'
  BY <1>2 DEF Approaches, FromCursor
<1>3. ASSUME NEW r \in Requests, Accept(r) \/ processClient(r)
      PROVE  Approaches'
  BY <1>1, <1>2, <1>3
     DEF Approaches, balancer, Accept, processClient, Admit, TurnAway, ReadRequest, NoReplica,
         RefuseBusy, Forward, Release, Leave
<1> QED
  BY <1>2, <1>3 DEF Next, RestEnds, vars, balancer

-----------------------------------------------------------------------------
(* The replicas' counters.                                                 *)

LEMMA ServedFinite ==
  \A b \in Backends : IsFiniteSet(Served(b)) /\ Cardinality(Served(b)) \in Nat
<1> SUFFICES ASSUME NEW b \in Backends
             PROVE  IsFiniteSet(Served(b)) /\ Cardinality(Served(b)) \in Nat
  OBVIOUS
<1>1. IsFiniteSet(Served(b))
  BY GatewayAssumption, FS_Subset DEF Served
<1> QED
  BY <1>1, FS_CardinalityType

LEMMA StepServed ==
  ASSUME TypeOK, Unassigned, InflightMatches, [Next]_vars
  PROVE  InflightMatches'
<1> USE GatewayAssumption
<1>1. ASSUME NEW r \in Requests, NEW a \in Backends, Acquire(r, a), NEW b \in Backends
      PROVE  inflight'[b] = Cardinality(Served(b)')
  <2>1. CASE b = a
    <3>1. Served(b)' = Served(b) \cup {r} /\ r \notin Served(b)
      BY <1>1, <2>1 DEF Acquire, Served, Goto, TypeOK
    <3>2. Cardinality(Served(b)') = Cardinality(Served(b)) + 1
      BY <3>1, ServedFinite, FS_AddElement
    <3> QED
      BY <1>1, <2>1, <3>2 DEF Acquire, InflightMatches, TypeOK
  <2>2. CASE b # a
    <3>1. Served(b)' = Served(b)
      BY <1>1, <2>2 DEF Acquire, Served, Goto, TypeOK
    <3> QED
      BY <1>1, <2>2, <3>1 DEF Acquire, InflightMatches, TypeOK
  <2> QED
    BY <2>1, <2>2
<1>2. ASSUME NEW r \in Requests, Release(r), NEW b \in Backends
      PROVE  inflight'[b] = Cardinality(Served(b)')
  <2>1. CASE b = backendIndex[r]
    <3>1. Served(b)' = Served(b) \ {r} /\ r \in Served(b)
      BY <1>2, <2>1 DEF Release, Served, Goto, TypeOK
    <3>2. Cardinality(Served(b)') = Cardinality(Served(b)) - 1 /\ Served(b) # {}
      BY ZenonT(60), <3>1, ServedFinite, FS_RemoveElement
    <3>3. Cardinality(Served(b)) > 0
      BY <3>2, ServedFinite, FS_EmptySet
    <3>4. b # None
      BY DEF Backends, None
    <3>5. inflight[b] > 0
      BY <3>3 DEF InflightMatches
    <3>6. inflight'[b] = inflight[b] - 1
      BY <1>2, <2>1, <3>4, <3>5 DEF Release, TypeOK
    <3> QED
      BY <3>2, <3>6 DEF InflightMatches
  <2>2. CASE b # backendIndex[r]
    <3>1. Served(b)' = Served(b)
      BY <1>2, <2>2 DEF Release, Served, Goto, TypeOK
    <3>2. inflight'[b] = inflight[b]
      BY <1>2, <2>2 DEF Release, TypeOK
    <3> QED
      BY <3>1, <3>2 DEF InflightMatches
  <2> QED
    BY <2>1, <2>2
<1>3. ASSUME UNCHANGED inflight, \A b \in Backends : Served(b)' = Served(b)
      PROVE  InflightMatches'
  BY <1>3 DEF InflightMatches
<1>4. ASSUME NEW r \in Requests,
             Accept(r) \/ Admit(r) \/ TurnAway(r) \/ ReadRequest(r) \/ NoReplica(r)
               \/ RefuseBusy(r) \/ Forward(r) \/ Leave(r)
      PROVE  InflightMatches'
  <2>1. UNCHANGED <<inflight, backendIndex>>
    BY <1>4 DEF balancer, Accept, Admit, TurnAway, ReadRequest, NoReplica, RefuseBusy, Forward, Leave
  <2>2. \A q \in Requests : q # r => pc'[q] = pc[q]
    BY <1>4 DEF Goto, TypeOK, Accept, Admit, TurnAway, ReadRequest, NoReplica, RefuseBusy, Forward, Leave
  <2>3. \/ pc[r] = "forward" /\ pc'[r] = "release"
        \/ pc[r] \notin {"forward", "release"} /\ pc'[r] \notin {"forward", "release"}
        \/ pc[r] \notin {"forward", "release"} /\ backendIndex[r] = None
    BY <1>4 DEF Goto, TypeOK, Unassigned, Accept, Admit, TurnAway, ReadRequest, NoReplica,
                RefuseBusy, Forward, Leave
  <2>4. \A b \in Backends : b # None
    BY DEF Backends, None
  <2>5. \A b \in Backends : Served(b)' = Served(b)
    BY <2>1, <2>2, <2>3, <2>4 DEF Served
  <2> QED
    BY <1>3, <2>1, <2>5
<1>5. ASSUME NEW b \in Backends, RestEnds(b)
      PROVE  InflightMatches'
  BY <1>3, <1>5 DEF RestEnds, Served
<1>6. CASE UNCHANGED vars
  BY <1>3, <1>6 DEF vars, balancer, Served
<1> QED
  BY <1>1, <1>2, <1>4, <1>5, <1>6 DEF Next, processClient, InflightMatches

-----------------------------------------------------------------------------
(* The counter of active requests.                                         *)

LEMMA RequestsFinite ==
  /\ IsFiniteSet(Counted) /\ Cardinality(Counted) \in Nat
  /\ IsFiniteSet(Admitted) /\ Cardinality(Admitted) \in Nat
  /\ Cardinality(Admitted) <= Cardinality(Counted)
<1>1. IsFiniteSet(Counted)
  BY GatewayAssumption, FS_Subset DEF Counted, Admitted
<1>2. IsFiniteSet(Admitted) /\ Cardinality(Admitted) <= Cardinality(Counted)
  BY <1>1, FS_Subset DEF Counted
<1> QED
  BY <1>1, <1>2, FS_CardinalityType

\* What a step of one request does to the two numbers: it enters or leaves the
\* sets, or stays where it is.
LEMMA NumbersOfStep ==
  ASSUME TypeOK, NEW r \in Requests,
         NEW place \in {"none", "arrived", "full", "reading", "select", "busy",
                        "forward", "release", "leave"},
         Goto(r, place)
  PROVE  /\ Cardinality(Counted') =
              Cardinality(Counted)
                + (IF place \in {"none", "arrived"} THEN 0 ELSE 1)
                - (IF pc[r] \in {"none", "arrived"} THEN 0 ELSE 1)
         /\ Cardinality(Admitted') =
              Cardinality(Admitted)
                + (IF place \in {"none", "arrived", "full"} THEN 0 ELSE 1)
                - (IF pc[r] \in {"none", "arrived", "full"} THEN 0 ELSE 1)
<1>1. Counted' = IF place \in {"none", "arrived"} THEN Counted \ {r} ELSE Counted \cup {r}
  BY DEF Counted, Admitted, Goto, TypeOK
<1>2. Admitted' = IF place \in {"none", "arrived", "full"} THEN Admitted \ {r} ELSE Admitted \cup {r}
  BY DEF Admitted, Goto, TypeOK
<1>3. r \in Counted <=> pc[r] \notin {"none", "arrived"}
  BY DEF Counted, Admitted, TypeOK
<1>4. r \in Admitted <=> pc[r] \notin {"none", "arrived", "full"}
  BY DEF Admitted, TypeOK
<1>5. /\ Cardinality(Counted \ {r}) = IF r \in Counted THEN Cardinality(Counted) - 1 ELSE Cardinality(Counted)
      /\ Cardinality(Counted \cup {r}) = IF r \in Counted THEN Cardinality(Counted) ELSE Cardinality(Counted) + 1
  BY RequestsFinite, FS_RemoveElement, FS_AddElement
<1>6. /\ Cardinality(Admitted \ {r}) = IF r \in Admitted THEN Cardinality(Admitted) - 1 ELSE Cardinality(Admitted)
      /\ Cardinality(Admitted \cup {r}) = IF r \in Admitted THEN Cardinality(Admitted) ELSE Cardinality(Admitted) + 1
  BY RequestsFinite, FS_RemoveElement, FS_AddElement
<1>7. Cardinality(Counted') =
        IF place \in {"none", "arrived"} THEN Cardinality(Counted \ {r})
                                         ELSE Cardinality(Counted \cup {r})
  BY <1>1
<1>8. Cardinality(Admitted') =
        IF place \in {"none", "arrived", "full"} THEN Cardinality(Admitted \ {r})
                                                 ELSE Cardinality(Admitted \cup {r})
  BY <1>2
<1> QED
  BY <1>3, <1>4, <1>5, <1>6, <1>7, <1>8, RequestsFinite

\* A request is admitted only while the counter is within the limit, and the
\* counter is short by no more than lost.
LEMMA StepCounted ==
  ASSUME TypeOK, ActiveCounted, AdmissionBound, [Next]_vars
  PROVE  ActiveCounted' /\ AdmissionBound'
<1> USE GatewayAssumption
<1> DEFINE Both == ActiveCounted' /\ AdmissionBound'
           Places == {"none", "arrived", "full", "reading", "select", "busy",
                      "forward", "release", "leave"}
<1>1. lost \in Nat /\ activeRequests \in Int /\ MaxQueue \in Nat
  BY DEF TypeOK
<1>2. ASSUME NEW r \in Requests,
             Accept(r) \/ ReadRequest(r) \/ (\E b \in Backends : Acquire(r, b))
               \/ NoReplica(r) \/ Forward(r) \/ Release(r)
      PROVE  Both
  <2>1. UNCHANGED <<activeRequests, lost>>
    BY <1>2 DEF Accept, ReadRequest, Acquire, NoReplica, Forward, Release
  <2>2. PICK place \in Places :
          /\ Goto(r, place)
          /\ \/ pc[r] = "none" /\ place = "arrived"
             \/ /\ pc[r] \notin {"none", "arrived", "full"}
                /\ place \notin {"none", "arrived", "full"}
    BY <1>2 DEF Accept, ReadRequest, Acquire, NoReplica, Forward, Release
  <2>3. Cardinality(Counted') = Cardinality(Counted) /\ Cardinality(Admitted') = Cardinality(Admitted)
    BY <2>2, NumbersOfStep, RequestsFinite
  <2> QED
    BY <2>1, <2>3 DEF ActiveCounted, AdmissionBound
<1>3. ASSUME NEW r \in Requests, Admit(r)
      PROVE  Both
  <2>1. CASE QueueFull(activeRequests + 1)
    <3>1. Goto(r, "full") /\ pc[r] = "arrived" /\ lost' = lost /\ activeRequests' = activeRequests + 1
      BY <1>3, <2>1 DEF Admit
    <3>2. Cardinality(Counted') = Cardinality(Counted) + 1 /\ Cardinality(Admitted') = Cardinality(Admitted)
      BY <3>1, NumbersOfStep, RequestsFinite
    <3> QED
      BY <1>1, <3>1, <3>2, RequestsFinite DEF ActiveCounted, AdmissionBound
  <2>2. CASE ~QueueFull(activeRequests + 1)
    <3>1. Goto(r, "reading") /\ pc[r] = "arrived" /\ lost' = lost /\ activeRequests' = activeRequests + 1
      BY <1>3, <2>2 DEF Admit
    <3>2. Cardinality(Counted') = Cardinality(Counted) + 1 /\ Cardinality(Admitted') = Cardinality(Admitted) + 1
      BY <3>1, NumbersOfStep, RequestsFinite
    <3>3. activeRequests + 1 <= MaxQueue
      BY <1>1, <2>2 DEF QueueFull
    <3> QED
      BY <1>1, <3>1, <3>2, <3>3, RequestsFinite DEF ActiveCounted, AdmissionBound
  <2> QED
    BY <2>1, <2>2
<1>4. ASSUME NEW r \in Requests, TurnAway(r)
      PROVE  Both
  <2>1. Goto(r, "none") /\ pc[r] = "full" /\ lost' = lost /\ activeRequests' = activeRequests - 1
    BY <1>4 DEF TurnAway
  <2>2. Cardinality(Counted') = Cardinality(Counted) - 1 /\ Cardinality(Admitted') = Cardinality(Admitted)
    BY <2>1, NumbersOfStep, RequestsFinite
  <2> QED
    BY <1>1, <2>1, <2>2, RequestsFinite DEF ActiveCounted, AdmissionBound
<1>5. ASSUME NEW r \in Requests, Goto(r, "none"), pc[r] \in {"busy", "leave"}, lost' = lost,
             activeRequests' = activeRequests - 1
      PROVE  Both
  <2>1. Cardinality(Counted') = Cardinality(Counted) - 1 /\ Cardinality(Admitted') = Cardinality(Admitted) - 1
    BY <1>5, NumbersOfStep, RequestsFinite
  <2> QED
    BY <1>1, <1>5, <2>1, RequestsFinite DEF ActiveCounted, AdmissionBound
<1>6. ASSUME NEW r \in Requests, Goto(r, "release"), pc[r] = "busy", lost' = lost + 1,
             activeRequests' = activeRequests - 1
      PROVE  Both
  <2>1. Cardinality(Counted') = Cardinality(Counted) /\ Cardinality(Admitted') = Cardinality(Admitted)
    BY <1>6, NumbersOfStep, RequestsFinite
  <2> QED
    BY <1>1, <1>6, <2>1, RequestsFinite DEF ActiveCounted, AdmissionBound
<1>7. ASSUME NEW r \in Requests, RefuseBusy(r) \/ Leave(r)
      PROVE  Both
  BY <1>5, <1>6, <1>7 DEF RefuseBusy, Leave
<1>8. ASSUME UNCHANGED <<pc, activeRequests, lost>>
      PROVE  Both
  BY <1>8 DEF ActiveCounted, AdmissionBound, Counted, Admitted
<1> QED
  BY <1>2, <1>3, <1>4, <1>7, <1>8 DEF Next, processClient, RestEnds, vars

-----------------------------------------------------------------------------
(* The theorems.                                                           *)

LEMMA InvariantHolds == Spec => []IInv
<1>1. Init => IInv
  <2> SUFFICES ASSUME Init PROVE IInv
    OBVIOUS
  <2>1. Counted = {} /\ Admitted = {} /\ \A b \in Backends : Served(b) = {}
    BY DEF Init, Counted, Admitted, Served
  <2>2. ActiveCounted /\ AdmissionBound /\ InflightMatches
    BY <2>1, FS_EmptySet, GatewayAssumption DEF Init, ActiveCounted, AdmissionBound, InflightMatches
  <2>3. Approaches
    BY GatewayAssumption DEF Init, Approaches, FromCursor, Backends
  <2> QED
    BY <2>2, <2>3, InitTyped DEF IInv
<1>2. IInv /\ [Next]_vars => IInv'
  BY StepTyped, StepApproaches, StepServed, StepCounted DEF IInv
<1> QED
  BY <1>1, <1>2, PTL DEF Spec

\* No replica ever serves more than --max-inflight-per-backend requests.
THEOREM TypeCorrect == Spec => []TypeOK
<1>1. IInv => TypeOK
  BY DEF IInv
<1> QED
  BY <1>1, InvariantHolds, PTL

\* releaseBackend: every acquired replica is given back exactly once.
THEOREM ReplicasCounted == Spec => []InflightMatches
<1>1. IInv => InflightMatches
  BY DEF IInv
<1> QED
  BY <1>1, InvariantHolds, PTL

\* --max-queue bounds the admitted requests, but for one more for each request
\* that was subtracted twice.
THEOREM AdmissionBounded == Spec => []AdmissionBound
<1>1. IInv => AdmissionBound
  BY DEF IInv
<1> QED
  BY <1>1, InvariantHolds, PTL

\* The round robin leaves no idle replica out for a whole turn of the cursor.
THEOREM RoundRobin == Spec => []NoReplicaPassedOver
<1>1. IInv => NoReplicaPassedOver
  <2> SUFFICES ASSUME TypeOK, Approaches, NEW b \in Backends PROVE passedOver[b] < NBackends
    BY DEF IInv, NoReplicaPassedOver
  <2>1. FromCursor(b) \in Nat
    BY GatewayAssumption DEF FromCursor, TypeOK, Backends
  <2>2. passedOver[b] \in Nat /\ passedOver[b] + FromCursor(b) < NBackends
    BY DEF Approaches, TypeOK
  <2> QED
    BY <2>1, <2>2, GatewayAssumption
<1> QED
  BY <1>1, InvariantHolds, PTL

=============================================================================
