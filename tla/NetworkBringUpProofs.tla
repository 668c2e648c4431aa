------------------------ MODULE NetworkBringUpProofs ------------------------
(***************************************************************************)
(* Theorems about NetworkBringUp for any number of workers and any number  *)
(* of starts of the root, whoever dies on the way.                         *)
(***************************************************************************)
EXTENDS NetworkBringUp, FiniteSetTheorems, TLAPS

\* What an end of the network holds: connections a worker made or accepted, or
\* could accept.
Held(w) == Range(sockets[w]) \cup Range(backlog[w])

\* Those of them that a root made.
RootConns(w) == {c \in Held(w) : c.from = Root}

\* The workers the running root has connected to.
Reached ==
  CASE rootPc = "connect" -> 1 .. rootNext - 1
    [] rootPc \in {"hello", "ack"} -> 1 .. rootNext
    [] OTHER -> Workers

\* Those that have answered it, as far as the root or the network can know.
Answered ==
  {w \in Workers :
     /\ rootPc # "down"
     /\ rootPc \in {"ready", "up"} \/ w < rootNext \/ <<RootConn(w), "ack">> \in wire}

\* Nobody and nothing is of a later attempt than the root's last one.
Basics ==
  /\ attempt \in 0 .. MaxAttempts
  /\ rootPc \in {"down", "connect", "hello", "ack", "ready", "up"}
  /\ rootPc # "down" => attempt > 0
  /\ rootNext \in Workers
  /\ pc \in [Workers -> {"closed", "accept", "hello", "waitReady", "peers", "up"}]
  /\ session \in [Workers -> 0 .. attempt]
  /\ sockets \in [Workers -> Seq(Conns)]
  /\ backlog \in [Workers -> Seq(Conns)]
  /\ wire \subseteq Conns \X {"hello", "ack", "ready"}
  /\ \A p \in wire : p[2] \in {"hello", "ready"} => p[1].from = Root
  /\ \A w \in Workers : \A c \in Held(w) : c.id <= attempt
  /\ \A p \in wire : p[1].id <= attempt
  /\ workerKilled \in BOOLEAN

\* The socket at index k > w of worker w is the one it made to worker k, and
\* the others were made to it; a session has the root's connection at index 0.
IndexedAt(w) ==
  /\ session[w] = 0 <=> pc[w] \in {"closed", "accept", "hello"}
  /\ pc[w] \in {"closed", "accept"} => sockets[w] = <<>>
  /\ pc[w] \in {"hello", "waitReady"} => Len(sockets[w]) = 1
  /\ pc[w] = "peers" => Len(sockets[w]) < NWorkers
  /\ pc[w] = "up" => Len(sockets[w]) = NWorkers
  /\ session[w] # 0 => sockets[w] # <<>> /\ sockets[w][1] = Conn(Root, session[w], w)
  /\ \A k \in DOMAIN sockets[w] :
       IF k <= w THEN sockets[w][k].to = w /\ sockets[w][k].from < w
                 ELSE sockets[w][k] = Conn(w, session[w], k)
  /\ \A k \in DOMAIN backlog[w] : backlog[w][k].to = w /\ backlog[w][k].from < w
Indexed == \A w \in Workers : IndexedAt(w)

\* No connection is held twice.
HeldOnce ==
  \A w \in Workers :
    /\ IsInjective(sockets[w]) /\ IsInjective(backlog[w])
    /\ Range(sockets[w]) \cap Range(backlog[w]) = {}

\* Nothing that comes after a root's connection is older than it.
InOrder(list) ==
  \A i, j \in DOMAIN list : i < j /\ list[i].from = Root => list[i].id <= list[j].id
RootFirst ==
  \A w \in Workers :
    /\ InOrder(backlog[w])
    /\ sockets[w] # <<>> /\ sockets[w][1].from = Root =>
         \A c \in Held(w) : sockets[w][1].id <= c.id

\* A connection of the last attempt is the root's to a worker it has reached, or
\* that of a worker it has reached.
FromReached ==
  \A w \in Workers :
    /\ session[w] = attempt => attempt = 0 \/ w \in Reached
    /\ \A c \in Held(w) : c.id = attempt => (IF c.from = Root THEN c.to ELSE c.from) \in Reached

\* Who has answered the running root is not in an older session, and cannot come
\* to answer an older root.
AnsweredAll ==
  \A w \in Answered :
    /\ session[w] \in {0, attempt}
    /\ \A c \in RootConns(w) : c.id = attempt

\* Once a root has reached w, the workers below w have left the sessions of all
\* roots before it for good.
LowerLeft ==
  \A w \in Workers : \A c \in RootConns(w) : \A u \in 1 .. w - 1 :
    /\ session[u] = 0 \/ c.id <= session[u]
    /\ \A d \in RootConns(u) : c.id <= d.id

\* What u could still answer is later than all connections u has made.
Unanswered(u) ==
  {c \in Range(backlog[u]) \cup (IF pc[u] = "hello" THEN Range(sockets[u]) ELSE {}) :
     c.from = Root}
NeverAgain ==
  \A w \in Workers : \A c \in Held(w) : c.from # Root =>
    \A d \in Unanswered(c.from) : c.id < d.id

\* A connection of u's session is one it has in its sockets.
Connected ==
  \A w \in Workers : \A c \in Held(w) :
    c.from # Root /\ session[c.from] # 0 /\ c.id = session[c.from] => c.to <= Len(sockets[c.from])

IInv ==
  /\ Basics /\ Indexed /\ HeldOnce /\ RootFirst /\ FromReached /\ AnsweredAll /\ LowerLeft
  /\ NeverAgain /\ Connected

-----------------------------------------------------------------------------
(* Sequences.                                                              *)

LEMMA Appended ==
  ASSUME NEW S, NEW s \in Seq(S), NEW x \in S
  PROVE  /\ Append(s, x) \in Seq(S)
         /\ Len(Append(s, x)) = Len(s) + 1 /\ DOMAIN Append(s, x) = 1 .. Len(s) + 1
         /\ DOMAIN s = 1 .. Len(s) /\ Len(s) \in Nat
         /\ \A i \in 1 .. Len(s) : Append(s, x)[i] = s[i]
         /\ Append(s, x)[Len(s) + 1] = x
         /\ Range(Append(s, x)) = Range(s) \cup {x}
<1>1. /\ Append(s, x) \in Seq(S)
      /\ Len(Append(s, x)) = Len(s) + 1 /\ DOMAIN Append(s, x) = 1 .. Len(s) + 1
      /\ DOMAIN s = 1 .. Len(s) /\ Len(s) \in Nat
      /\ \A i \in 1 .. Len(s) : Append(s, x)[i] = s[i]
      /\ Append(s, x)[Len(s) + 1] = x
  OBVIOUS
<1>2. PICK t : t = Append(s, x)
  OBVIOUS
<1>3. Range(t) = Range(s) \cup {x}
  BY <1>1, <1>2 DEF Range
<1> QED
  BY <1>1, <1>2, <1>3

LEMMA Tailed ==
  ASSUME NEW S, NEW s \in Seq(S), s # <<>>
  PROVE  /\ Tail(s) \in Seq(S) /\ Head(s) = s[1] /\ Head(s) \in S
         /\ DOMAIN s = 1 .. Len(s) /\ Len(s) \in Nat \ {0}
         /\ Len(Tail(s)) = Len(s) - 1 /\ DOMAIN Tail(s) = 1 .. Len(s) - 1
         /\ \A i \in 1 .. Len(s) - 1 : Tail(s)[i] = s[i + 1]
         /\ Range(s) = Range(Tail(s)) \cup {Head(s)}
<1>1. /\ Tail(s) \in Seq(S) /\ Head(s) = s[1] /\ Head(s) \in S
      /\ DOMAIN s = 1 .. Len(s) /\ Len(s) \in Nat \ {0}
      /\ Len(Tail(s)) = Len(s) - 1 /\ DOMAIN Tail(s) = 1 .. Len(s) - 1
      /\ \A i \in 1 .. Len(s) - 1 : Tail(s)[i] = s[i + 1]
  OBVIOUS
<1>2. PICK t : t = Tail(s)
  OBVIOUS
<1>3. Range(s) \subseteq Range(t) \cup {s[1]}
  <2> SUFFICES ASSUME NEW i \in 1 .. Len(s)
               PROVE  s[i] \in Range(t) \cup {s[1]}
    BY <1>1 DEF Range
  <2>1. CASE i = 1
    BY <2>1
  <2>2. CASE i # 1
    <3>1. i - 1 \in 1 .. Len(s) - 1
      BY <1>1, <2>2
    <3>2. t[i - 1] = s[i] /\ i - 1 \in DOMAIN t
      BY <1>1, <1>2, <3>1
    <3> QED
      BY <3>2 DEF Range
  <2> QED
    BY <2>1, <2>2
<1>4. Range(t) \cup {s[1]} \subseteq Range(s)
  BY <1>1, <1>2 DEF Range
<1> QED
  BY <1>1, <1>2, <1>3, <1>4

LEMMA RangeIn ==
  ASSUME NEW S, NEW s \in Seq(S)
  PROVE  /\ Range(s) \subseteq S /\ DOMAIN s = 1 .. Len(s) /\ Len(s) \in Nat
         /\ \A i \in 1 .. Len(s) : s[i] \in S
         /\ s # <<>> => Len(s) >= 1 /\ s[1] \in Range(s)
  BY DEF Range

-----------------------------------------------------------------------------
(* Connections.                                                            *)

LEMMA ConnsHeld ==
  ASSUME Basics, Indexed, NEW w \in Workers, NEW c \in Held(w)
  PROVE  /\ c \in Conns /\ c.id \in 1 .. attempt /\ c.to \in Workers
         /\ c.from \in Root .. NWorkers /\ c.from < c.to
         /\ c.from = Root => c.to = w
         /\ c.from # Root => c.from \in Workers
<1>1. /\ sockets[w] \in Seq(Conns) /\ backlog[w] \in Seq(Conns)
      /\ attempt \in Nat /\ c.id <= attempt /\ w \in Nat
  BY BringUpAssumption DEF Basics, Workers
<1>2. c \in Conns
  BY <1>1, RangeIn DEF Held
<1>3. c.from < c.to /\ (c.from = Root => c.to = w)
  <2>1. CASE c \in Range(backlog[w])
    BY <2>1 DEF Range, Indexed, IndexedAt
  <2>2. CASE c \in Range(sockets[w])
    <3>1. PICK k \in DOMAIN sockets[w] : sockets[w][k] = c
      BY <2>2 DEF Range
    <3>2. k \in Nat
      BY <1>1, <3>1
    <3>3. CASE k <= w
      BY <3>1, <3>3 DEF Indexed, IndexedAt
    <3>4. CASE ~(k <= w)
      <4>1. c = Conn(w, session[w], k)
        BY <3>1, <3>4 DEF Indexed, IndexedAt
      <4> QED
        BY <1>1, <3>2, <3>4, <4>1 DEF Conn, Root, Workers
    <3> QED
      BY <3>3, <3>4
  <2> QED
    BY <2>1, <2>2 DEF Held
<1>4. c.id \in Nat \ {0} /\ c.to \in Workers /\ c.from \in Root .. NWorkers
  BY <1>2, BringUpAssumption DEF Conns
<1> QED
  BY <1>1, <1>2, <1>3, <1>4, BringUpAssumption DEF Workers, Root

\* What relates connections and sessions to one another.
Sessions == FromReached /\ AnsweredAll /\ LowerLeft /\ NeverAgain /\ Connected

\* A step that makes no connection and starts no session.
LEMMA SessionsShrink ==
  ASSUME Basics, Indexed, Sessions, UNCHANGED rootVars,
         \A p \in wire' : p[2] = "ack" => p \in wire,
         \A w \in Workers :
           /\ Held(w)' \subseteq Held(w) /\ Unanswered(w)' \subseteq Unanswered(w)
           /\ session'[w] \in {0, session[w]}
           /\ session'[w] # 0 => Len(sockets[w]) <= Len(sockets'[w])
  PROVE  Sessions'
<1> USE DEF Sessions
<1>1. Reached' = Reached
  BY DEF Reached, rootVars
<1>2. \A w \in Workers : w \in Answered' => w \in Answered
  BY DEF Answered, rootVars, RootConn
<1>3. \A w \in Workers : RootConns(w)' \subseteq RootConns(w)
  BY DEF RootConns
<1>4. attempt' = attempt
  BY DEF rootVars
<1>5. FromReached'
  <2>1. ASSUME NEW w \in Workers, session'[w] = attempt, attempt # 0
        PROVE  w \in Reached
    BY <2>1 DEF FromReached
  <2>2. ASSUME NEW w \in Workers, NEW c \in Held(w)', c.id = attempt
        PROVE  (IF c.from = Root THEN c.to ELSE c.from) \in Reached
    BY <2>2 DEF FromReached
  <2> QED
    BY <1>1, <1>4, <2>1, <2>2 DEF FromReached
<1>6. AnsweredAll'
  <2>1. ASSUME NEW w \in Answered'
        PROVE  session'[w] \in {0, attempt} /\ \A c \in RootConns(w)' : c.id = attempt
    <3>1. w \in Workers /\ w \in Answered
      BY <1>2 DEF Answered
    <3> QED
      BY <1>3, <3>1 DEF AnsweredAll
  <2> QED
    BY <1>4, <2>1 DEF AnsweredAll
<1>7. LowerLeft'
  <2>1. ASSUME NEW w \in Workers, NEW c \in RootConns(w)', NEW u \in 1 .. w - 1
        PROVE  /\ session'[u] = 0 \/ c.id <= session'[u]
               /\ \A d \in RootConns(u)' : c.id <= d.id
    <3>1. u \in Workers /\ c \in RootConns(w)
      BY <1>3, BringUpAssumption DEF Workers
    <3> QED
      BY <1>3, <3>1 DEF LowerLeft
  <2> QED
    BY <2>1 DEF LowerLeft
<1>8. NeverAgain'
  <2>1. ASSUME NEW w \in Workers, NEW c \in Held(w)', c.from # Root, NEW d \in Unanswered(c.from)'
        PROVE  c.id < d.id
    <3>1. c \in Held(w) /\ c.from \in Workers
      BY <2>1, ConnsHeld
    <3> QED
      BY <2>1, <3>1 DEF NeverAgain
  <2> QED
    BY <2>1 DEF NeverAgain
<1>9. Connected'
  <2>1. ASSUME NEW w \in Workers, NEW c \in Held(w)', c.from # Root, session'[c.from] # 0,
               c.id = session'[c.from]
        PROVE  c.to <= Len(sockets'[c.from])
    <3>1. c \in Held(w) /\ c.from \in Workers /\ c.to \in Workers
      BY <2>1, ConnsHeld
    <3>2. c.to <= Len(sockets[c.from])
      BY <2>1, <3>1 DEF Connected
    <3>3. Len(sockets[c.from]) <= Len(sockets'[c.from])
      BY <2>1, <3>1
    <3> QED
      BY <3>1, <3>2, <3>3, BringUpAssumption DEF Workers
  <2> QED
    BY <2>1 DEF Connected
<1> QED
  BY <1>5, <1>6, <1>7, <1>8, <1>9

-----------------------------------------------------------------------------
(* The root by itself.                                                     *)

\* Both statements are about what the workers hold, and the root's place.
LEMMA RootMoves ==
  ASSUME IInv, UNCHANGED <<pc, session, sockets, backlog, workerKilled>>, Basics',
         attempt' = attempt,
         rootPc' # "down" => Reached \subseteq Reached' /\ Answered' \subseteq Answered,
         rootPc' = "down" => Reached' = Workers /\ Answered' = {}
  PROVE  IInv'
<1> USE DEF IInv
<1>1. /\ \A w : Held(w)' = Held(w)
      /\ \A w : RootConns(w)' = RootConns(w)
      /\ \A w : Unanswered(w)' = Unanswered(w)
  BY DEF Held, RootConns, Unanswered
<1>2. Indexed' /\ HeldOnce'
  BY DEF Indexed, IndexedAt, HeldOnce
<1>3. RootFirst'
  BY <1>1 DEF RootFirst
<1>4. LowerLeft' /\ NeverAgain' /\ Connected'
  <2>1. LowerLeft'
    BY <1>1 DEF LowerLeft
  <2>2. NeverAgain'
    BY <1>1 DEF NeverAgain
  <2>3. Connected'
    BY <1>1 DEF Connected
  <2> QED
    BY <2>1, <2>2, <2>3
<1>5. Reached \subseteq Workers
  BY BringUpAssumption DEF Reached, Workers, Basics
<1>6. FromReached'
  <2>1. Reached \subseteq Reached'
    BY <1>5
  <2>2. ASSUME NEW w \in Workers, session[w] = attempt, attempt # 0
        PROVE  w \in Reached'
    BY <2>1, <2>2 DEF FromReached
  <2>3. ASSUME NEW w \in Workers, NEW c \in Held(w), c.id = attempt
        PROVE  (IF c.from = Root THEN c.to ELSE c.from) \in Reached'
    BY <2>1, <2>3 DEF FromReached
  <2> QED
    BY <1>1, <2>2, <2>3 DEF FromReached
<1>7. AnsweredAll'
  <2>1. Answered' \subseteq Answered
    OBVIOUS
  <2> QED
    BY <1>1, <2>1 DEF AnsweredAll
<1> QED
  BY <1>2, <1>3, <1>4, <1>6, <1>7

LEMMA RootStartKeeps ==
  ASSUME IInv, RootStart
  PROVE  IInv'
<1> USE DEF IInv
<1>1. attempt \in Nat /\ attempt' = attempt + 1 /\ attempt' \in 0 .. MaxAttempts
  BY BringUpAssumption DEF RootStart, Basics
<1>2. UNCHANGED <<pc, session, sockets, backlog, wire, workerKilled>>
  BY DEF RootStart
<1>3. /\ \A w : Held(w)' = Held(w)
      /\ \A w : RootConns(w)' = RootConns(w)
      /\ \A w : Unanswered(w)' = Unanswered(w)
  BY <1>2 DEF Held, RootConns, Unanswered
<1>4. Basics'
  <2>1. rootPc' = "connect" /\ rootNext' = 1 /\ 1 \in Workers
    BY BringUpAssumption DEF RootStart, Workers
  <2>2. session \in [Workers -> 0 .. attempt + 1]
    BY <1>1 DEF Basics
  <2>3. \A w \in Workers : \A c \in Held(w) : c.id <= attempt + 1
    <3> SUFFICES ASSUME NEW w \in Workers, NEW c \in Held(w)
                 PROVE  c.id <= attempt + 1
      OBVIOUS
    <3>1. c.id \in 1 .. attempt
      BY ConnsHeld
    <3> QED
      BY <1>1, <3>1
  <2>4. \A p \in wire : p[1].id <= attempt + 1
    <3> SUFFICES ASSUME NEW p \in wire
                 PROVE  p[1].id <= attempt + 1
      OBVIOUS
    <3>1. p[1].id <= attempt /\ p[1].id \in Int
      BY BringUpAssumption DEF Basics, Conns
    <3> QED
      BY <1>1, <3>1
  <2> QED
    BY <1>1, <1>2, <1>3, <2>1, <2>2, <2>3, <2>4 DEF Basics
<1>5. Indexed' /\ HeldOnce'
  BY <1>2 DEF Indexed, IndexedAt, HeldOnce
<1>6. RootFirst'
  BY <1>2, <1>3 DEF RootFirst
<1>7. LowerLeft'
  BY <1>2, <1>3 DEF LowerLeft
<1>8. NeverAgain'
  BY <1>2, <1>3 DEF NeverAgain
<1>9. Connected'
  BY <1>2, <1>3 DEF Connected
<1>10. FromReached'
  <2>1. ASSUME NEW w \in Workers
        PROVE  session[w] # attempt + 1
    <3>1. session[w] \in 0 .. attempt
      BY DEF Basics
    <3> QED
      BY <1>1, <3>1
  <2>2. ASSUME NEW w \in Workers, NEW c \in Held(w)
        PROVE  c.id # attempt + 1
    <3>1. c.id \in 1 .. attempt
      BY ConnsHeld
    <3> QED
      BY <1>1, <3>1
  <2> QED
    BY <1>1, <1>2, <1>3, <2>1, <2>2 DEF FromReached
<1>11. AnsweredAll'
  <2> SUFFICES ASSUME NEW w \in Answered' PROVE FALSE
    BY DEF AnsweredAll
  <2>1. w \in Workers /\ ~(w < 1) /\ rootPc' = "connect" /\ rootNext' = 1
    BY BringUpAssumption DEF Answered, RootStart, Workers
  <2>2. <<RootConn(w)', "ack">> \in wire
    BY <1>2, <2>1 DEF Answered
  <2>3. RootConn(w)'.id = attempt + 1
    BY <1>1 DEF RootConn, Conn
  <2>4. attempt + 1 <= attempt
    BY <2>2, <2>3 DEF Basics
  <2> QED
    BY <1>1, <2>4
<1> QED
  BY <1>4, <1>5, <1>6, <1>7, <1>8, <1>9, <1>10, <1>11

LEMMA RootDownKeeps ==
  ASSUME IInv, RootDown
  PROVE  IInv'
<1> USE DEF IInv
<1>1. /\ rootPc' = "down" /\ attempt' = attempt /\ rootNext' = rootNext
      /\ UNCHANGED <<pc, session, sockets, backlog, workerKilled>> /\ wire' \subseteq wire
  BY DEF RootDown
<1>2. Basics'
  <2>1. \A w : Held(w)' = Held(w)
    BY <1>1 DEF Held
  <2> QED
    BY <1>1, <2>1 DEF Basics
<1>3. Reached' = Workers /\ Answered' = {}
  BY <1>1 DEF Reached, Answered, Workers
<1> QED
  BY <1>1, <1>2, <1>3, RootMoves

LEMMA RootMovesOn ==
  ASSUME IInv, RootHello \/ RootReadAck \/ RootReady
  PROVE  IInv'
<1> USE DEF IInv
<1>1. /\ attempt' = attempt /\ rootPc' # "down"
      /\ UNCHANGED <<pc, session, sockets, backlog, workerKilled>>
  BY DEF RootHello, RootReadAck, RootReady
<1>2. /\ rootNext \in Workers /\ NWorkers \in Nat \ {0} /\ Workers = 1 .. NWorkers
      /\ rootNext # NWorkers => rootNext + 1 \in Workers
  BY BringUpAssumption DEF Basics, Workers
<1>3. \A w : RootConn(w)' = RootConn(w)
  BY <1>1 DEF RootConn, Conn
<1>4. RootConn(rootNext) \in Conns \/ rootPc = "down"
  BY <1>2, BringUpAssumption DEF Basics, Conns, RootConn, Conn, Root
<1>5. RootConn(rootNext).from = Root /\ RootConn(rootNext).id = attempt
  BY DEF RootConn, Conn
<1>6. \A p \in wire' :
        \/ p \in wire
        \/ p \in {<<RootConn(rootNext), "hello">>, <<RootConn(rootNext), "ready">>}
  BY DEF RootHello, RootReadAck, RootReady
<1>7. Basics'
  <2>1. \A w : Held(w)' = Held(w)
    BY <1>1 DEF Held
  <2>2. rootNext' \in Workers
    BY <1>2 DEF RootHello, RootReadAck, RootReady
  <2>3. rootPc' \in {"down", "connect", "hello", "ack", "ready", "up"} /\ rootPc # "down"
    BY DEF RootHello, RootReadAck, RootReady
  <2>4. /\ wire' \subseteq Conns \X {"hello", "ack", "ready"}
        /\ \A p \in wire' : p[2] \in {"hello", "ready"} => p[1].from = Root
        /\ \A p \in wire' : p[1].id <= attempt
    <3> SUFFICES ASSUME NEW p \in wire'
                 PROVE  /\ p \in Conns \X {"hello", "ack", "ready"}
                        /\ p[2] \in {"hello", "ready"} => p[1].from = Root
                        /\ p[1].id <= attempt
      OBVIOUS
    <3>1. CASE p \in wire
      BY <3>1 DEF Basics
    <3>2. CASE p \in {<<RootConn(rootNext), "hello">>, <<RootConn(rootNext), "ready">>}
      <4>1. p[1] = RootConn(rootNext) /\ p[2] \in {"hello", "ready"}
            /\ p = <<p[1], p[2]>>
        BY <3>2
      <4>2. attempt <= attempt
        BY BringUpAssumption DEF Basics
      <4> QED
        BY <1>4, <1>5, <2>3, <4>1, <4>2
    <3> QED
      BY <1>6, <3>1, <3>2
  <2> QED
    BY <1>1, <2>1, <2>2, <2>3, <2>4 DEF Basics
<1>8. Reached' = Reached
  <2>1. CASE RootHello
    BY <2>1 DEF RootHello, Reached
  <2>2. CASE RootReadAck
    BY <1>2, <2>2 DEF RootReadAck, Reached
  <2>3. CASE RootReady
    BY <2>3 DEF RootReady, Reached, Workers
  <2> QED
    BY <2>1, <2>2, <2>3
<1>9. Answered' \subseteq Answered
  <2> SUFFICES ASSUME NEW w \in Answered' PROVE w \in Answered
    OBVIOUS
  <2>1. w \in Workers /\ (<<RootConn(w), "ack">> \in wire' => <<RootConn(w), "ack">> \in wire)
    BY <1>6 DEF Answered
  <2>2. CASE RootHello
    BY <1>3, <2>1, <2>2 DEF RootHello, Answered
  <2>3. CASE RootReadAck
    <3>1. w = rootNext => w \in Answered
      BY <2>1, <2>3 DEF RootReadAck, Answered
    <3>2. CASE rootNext = NWorkers /\ w # rootNext
      <4>1. w < rootNext
        BY <1>2, <2>1, <3>2
      <4> QED
        BY <2>1, <2>3, <4>1 DEF RootReadAck, Answered
    <3>3. CASE rootNext # NWorkers /\ w # rootNext
      <4>1. rootPc' = "connect" /\ rootNext' = rootNext + 1 /\ rootPc = "ack"
        BY <2>3, <3>3 DEF RootReadAck
      <4>2. w < rootNext + 1 \/ <<RootConn(w), "ack">> \in wire
        BY <1>3, <2>1, <4>1 DEF Answered
      <4>3. w < rootNext + 1 => w < rootNext
        BY <1>2, <2>1, <3>3
      <4> QED
        BY <2>1, <4>1, <4>2, <4>3 DEF Answered
    <3> QED
      BY <3>1, <3>2, <3>3
  <2>4. CASE RootReady
    BY <2>1, <2>4 DEF RootReady, Answered
  <2> QED
    BY <2>2, <2>3, <2>4
<1> QED
  BY <1>1, <1>7, <1>8, <1>9, RootMoves

-----------------------------------------------------------------------------
(* A connection is made.                                                   *)

\* The listener's queue with one more at its end.
LEMMA Queued ==
  ASSUME NEW b \in Seq(Conns), IsInjective(b), InOrder(b), NEW c \in Conns, c \notin Range(b),
         \A d \in Range(b) : d.from = Root => d.id <= c.id
  PROVE  IsInjective(Append(b, c)) /\ InOrder(Append(b, c))
<1>1. PICK t : t = Append(b, c)
  OBVIOUS
<1>2. PICK n \in Nat : n = Len(b)
  OBVIOUS
<1>3. /\ DOMAIN b = 1 .. n /\ DOMAIN t = 1 .. n + 1
      /\ \A i \in 1 .. n : t[i] = b[i] /\ b[i] \in Range(b)
      /\ t[n + 1] = c
  BY <1>1, <1>2, Appended DEF Range
<1>4. IsInjective(t)
  <2> SUFFICES ASSUME NEW i \in 1 .. n + 1, NEW j \in 1 .. n + 1, t[i] = t[j]
               PROVE  i = j
    BY <1>3 DEF IsInjective
  <2>1. CASE i \in 1 .. n /\ j \in 1 .. n
    BY <1>3, <2>1 DEF IsInjective
  <2>2. CASE ~(i \in 1 .. n /\ j \in 1 .. n)
    <3>1. i = n + 1 \/ j = n + 1
      BY <1>2, <2>2
    <3>2. i \in 1 .. n \/ i = n + 1
      BY <1>2
    <3>3. j \in 1 .. n \/ j = n + 1
      BY <1>2
    <3> QED
      BY <1>3, <3>1, <3>2, <3>3
  <2> QED
    BY <2>1, <2>2
<1>5. InOrder(t)
  <2> SUFFICES ASSUME NEW i \in 1 .. n + 1, NEW j \in 1 .. n + 1, i < j, t[i].from = Root
               PROVE  t[i].id <= t[j].id
    BY <1>3 DEF InOrder
  <2>1. i \in 1 .. n
    BY <1>2
  <2>2. CASE j \in 1 .. n
    BY <1>3, <2>1, <2>2 DEF InOrder
  <2>3. CASE j = n + 1
    BY <1>3, <2>1, <2>3
  <2> QED
    BY <1>2, <2>2, <2>3
<1> QED
  BY <1>1, <1>4, <1>5

\* Nobody listens: the root has a connection that leads nowhere.
LEMMA RootRefused ==
  ASSUME IInv, RootConnect, ~Listening(rootNext)
  PROVE  IInv'
<1> USE DEF IInv
<1>1. /\ rootPc = "connect" /\ rootPc' = "hello" /\ rootNext \in Workers
      /\ UNCHANGED <<attempt, rootNext, pc, session, sockets, backlog, wire, workerKilled>>
  BY DEF RootConnect, Dialed, RootConn, Conn, Basics
<1>2. Basics'
  <2>1. \A w : Held(w)' = Held(w)
    BY <1>1 DEF Held
  <2> QED
    BY <1>1, <2>1 DEF Basics
<1>3. Reached \subseteq Reached'
  BY <1>1, BringUpAssumption DEF Reached, Workers
<1>4. Answered' = Answered
  BY <1>1 DEF Answered, RootConn, Conn
<1> QED
  BY <1>1, <1>2, <1>3, <1>4, RootMoves

LEMMA RootConnectKeeps ==
  ASSUME IInv, RootConnect, Listening(rootNext)
  PROVE  IInv'
<1> USE DEF IInv
<1> DEFINE h == rootNext
           c == RootConn(h)
<1>1. /\ rootPc = "connect" /\ rootPc' = "hello" /\ h \in Workers
      /\ backlog' = [backlog EXCEPT ![h] = Append(@, c)]
      /\ UNCHANGED <<attempt, rootNext, pc, session, sockets, wire, workerKilled>>
  BY DEF RootConnect, Dialed, RootConn, Conn, Basics
<1>2. /\ attempt \in Nat /\ attempt >= 1 /\ attempt <= MaxAttempts
      /\ NWorkers \in Nat /\ Workers = 1 .. NWorkers
  BY <1>1, BringUpAssumption DEF Basics, Workers
<1>3. /\ c = [from |-> 0, id |-> attempt, to |-> h] /\ c \in Conns /\ c.from = Root
      /\ c.id = attempt /\ c.to = h /\ 0 < h
  BY <1>1, <1>2 DEF RootConn, Conn, Root, Conns
<1>4. \A w \in Workers : backlog[w] \in Seq(Conns) /\ sockets[w] \in Seq(Conns)
  BY DEF Basics
<1>5. \A w \in Workers : backlog'[w] = IF w = h THEN Append(backlog[h], c) ELSE backlog[w]
  BY <1>1 DEF Basics
<1>6. \A w \in Workers : Held(w)' = IF w = h THEN Held(h) \cup {c} ELSE Held(w)
  <2>1. Range(Append(backlog[h], c)) = Range(backlog[h]) \cup {c}
    BY <1>1, <1>3, <1>4, Appended
  <2> QED
    BY <1>1, <1>5, <2>1 DEF Held
<1> HIDE DEF h, c
<1>7. Reached = 1 .. h - 1 /\ Reached' = 1 .. h
  BY <1>1 DEF Reached, h
<1>8. c \notin Held(h)
  <2>1. c \in Held(h) => h \in 1 .. h - 1
    BY <1>1, <1>3, <1>7 DEF FromReached
  <2> QED
    BY <1>1, <1>2, <2>1
<1>9. \A w \in Workers : \A d \in Held(w) : d.id \in 1 .. attempt
  BY ConnsHeld
<1>10. Basics'
  <2>1. backlog' \in [Workers -> Seq(Conns)]
    <3>1. Append(backlog[h], c) \in Seq(Conns)
      BY <1>1, <1>3, <1>4, Appended
    <3> QED
      BY <1>1, <3>1 DEF Basics, h
  <2>2. \A w \in Workers : \A d \in Held(w)' : d.id <= attempt
    <3> SUFFICES ASSUME NEW w \in Workers, NEW d \in Held(w)'
                 PROVE  d.id <= attempt
      OBVIOUS
    <3>1. CASE d = c
      BY <1>2, <1>3, <3>1
    <3>2. CASE d \in Held(w)
      BY <3>2 DEF Basics
    <3> QED
      BY <1>6, <3>1, <3>2
  <2> QED
    BY <1>1, <1>2, <2>1, <2>2 DEF Basics
<1>11. Indexed'
  <2> SUFFICES ASSUME NEW w \in Workers, NEW k \in DOMAIN backlog'[w]
               PROVE  backlog'[w][k].to = w /\ backlog'[w][k].from < w
    BY <1>1 DEF Indexed, IndexedAt
  <2>1. CASE w # h
    BY <1>5, <2>1 DEF Indexed, IndexedAt
  <2>2. CASE w = h
    <3>1. PICK n \in Nat : n = Len(backlog[h])
      BY <1>1, <1>4
    <3>2. /\ DOMAIN backlog[h] = 1 .. n /\ DOMAIN backlog'[w] = 1 .. n + 1
          /\ \A i \in 1 .. n : backlog'[w][i] = backlog[h][i]
          /\ backlog'[w][n + 1] = c
      <4>1. backlog'[w] = Append(backlog[h], c) /\ backlog[h] \in Seq(Conns) /\ c \in Conns
        BY <1>1, <1>3, <1>4, <1>5, <2>2
      <4> QED
        BY ONLY <3>1, <4>1, Appended
    <3>3. CASE k = n + 1
      BY <1>3, <2>2, <3>2, <3>3 DEF Root
    <3>4. CASE k \in 1 .. n
      BY <1>1, <2>2, <3>2, <3>4 DEF Indexed, IndexedAt
    <3> QED
      BY <3>1, <3>2, <3>3, <3>4
  <2> QED
    BY <2>1, <2>2
<1>12. \A d \in Range(backlog[h]) : d.from = Root => d.id <= c.id
  BY <1>1, <1>3 DEF Basics, Held
<1>13. HeldOnce' /\ RootFirst'
  <2>1. IsInjective(Append(backlog[h], c)) /\ InOrder(Append(backlog[h], c))
    BY <1>1, <1>3, <1>4, <1>8, <1>12, Queued DEF HeldOnce, RootFirst, Held
  <2>2. Range(Append(backlog[h], c)) = Range(backlog[h]) \cup {c}
    BY <1>1, <1>3, <1>4, Appended
  <2>3. HeldOnce'
    BY <1>1, <1>5, <1>8, <2>1, <2>2 DEF HeldOnce, Held
  <2>4. RootFirst'
    <3> SUFFICES ASSUME NEW w \in Workers
                 PROVE  /\ InOrder(backlog'[w])
                        /\ sockets[w] # <<>> /\ sockets[w][1].from = Root =>
                             \A d \in Held(w)' : sockets[w][1].id <= d.id
      BY <1>1 DEF RootFirst
    <3>1. InOrder(backlog'[w])
      BY <1>5, <2>1 DEF RootFirst
    <3>2. ASSUME sockets[w] # <<>>, sockets[w][1].from = Root, NEW d \in Held(w)'
          PROVE  sockets[w][1].id <= d.id
      <4>1. CASE d \in Held(w)
        BY <3>2, <4>1 DEF RootFirst
      <4>2. CASE d = c
        <5>1. sockets[w][1] \in Held(w)
          BY <1>4, <3>2, RangeIn DEF Held
        <5> QED
          BY <1>3, <4>2, <5>1 DEF Basics
      <4> QED
        BY <1>6, <4>1, <4>2
    <3> QED
      BY <3>1, <3>2
  <2> QED
    BY <2>3, <2>4
<1>14. FromReached'
  <2>1. Reached \subseteq Reached' /\ h \in Reached'
    BY <1>1, <1>2, <1>7
  <2>2. ASSUME NEW w \in Workers, session[w] = attempt
        PROVE  w \in Reached'
    BY <1>2, <2>1, <2>2 DEF FromReached
  <2>3. ASSUME NEW w \in Workers, NEW d \in Held(w)', d.id = attempt
        PROVE  (IF d.from = Root THEN d.to ELSE d.from) \in Reached'
    <3>1. CASE d = c
      BY <1>3, <2>1, <3>1
    <3>2. CASE d \in Held(w)
      BY <2>1, <2>3, <3>2 DEF FromReached
    <3> QED
      BY <1>6, <3>1, <3>2
  <2> QED
    BY <1>1, <2>2, <2>3 DEF FromReached
<1>15. Answered' = Answered /\ \A u \in 1 .. h - 1 : u \in Answered
  BY <1>1, <1>2 DEF Answered, RootConn, Conn, h
<1>16. \A w \in Workers : RootConns(w)' = IF w = h THEN RootConns(h) \cup {c} ELSE RootConns(w)
  BY <1>3, <1>6 DEF RootConns
<1>17. AnsweredAll'
  <2> SUFFICES ASSUME NEW w \in Answered
               PROVE  session[w] \in {0, attempt} /\ \A d \in RootConns(w)' : d.id = attempt
    BY <1>1, <1>15 DEF AnsweredAll
  <2>1. w \in Workers
    BY DEF Answered
  <2> QED
    BY <1>3, <1>16, <2>1 DEF AnsweredAll
<1>18. LowerLeft'
  <2> SUFFICES ASSUME NEW w \in Workers, NEW d \in RootConns(w)', NEW u \in 1 .. w - 1
               PROVE  /\ session[u] = 0 \/ d.id <= session[u]
                      /\ \A e \in RootConns(u)' : d.id <= e.id
    BY <1>1 DEF LowerLeft
  <2>1. u \in Workers
    BY <1>2
  <2>2. CASE d \in RootConns(w)
    <3>1. d.id <= attempt
      BY <2>2 DEF RootConns, Basics
    <3>2. \A e \in RootConns(u)' : e \in RootConns(u) \/ e.id = attempt
      BY <1>3, <1>16, <2>1
    <3> QED
      BY <2>1, <2>2, <3>1, <3>2 DEF LowerLeft
  <2>3. CASE d = c /\ w = h
    <3>1. u \in Answered /\ u # h
      BY <1>1, <1>2, <1>15, <2>3
    <3>2. RootConns(u)' = RootConns(u)
      BY <1>16, <2>1, <3>1
    <3> QED
      BY <1>2, <1>3, <2>3, <3>1, <3>2 DEF AnsweredAll
  <2> QED
    BY <1>16, <2>2, <2>3
<1>19. \A u \in Workers : Unanswered(u)' \subseteq Unanswered(u) \cup (IF u = h THEN {c} ELSE {})
  <2>1. Range(Append(backlog[h], c)) = Range(backlog[h]) \cup {c}
    BY <1>1, <1>3, <1>4, Appended
  <2> QED
    BY <1>1, <1>5, <2>1 DEF Unanswered
<1>20. NeverAgain'
  <2> SUFFICES ASSUME NEW w \in Workers, NEW d \in Held(w)', d.from # Root,
                      NEW e \in Unanswered(d.from)'
               PROVE  d.id < e.id
    BY DEF NeverAgain
  <2>1. d \in Held(w)
    BY <1>3, <1>6
  <2>2. d.from \in Workers /\ d.id \in 1 .. attempt
    BY <2>1, ConnsHeld
  <2>3. CASE e \in Unanswered(d.from)
    BY <2>1, <2>3 DEF NeverAgain
  <2>4. CASE e = c /\ d.from = h
    <3>1. d.id # attempt
      <4>1. d.id = attempt => h \in 1 .. h - 1
        BY <1>7, <2>1, <2>4 DEF FromReached
      <4> QED
        BY <1>1, <1>2, <4>1
    <3> QED
      BY <1>2, <1>3, <2>2, <2>4, <3>1
  <2> QED
    BY <1>19, <2>2, <2>3, <2>4
<1>21. Connected'
  <2> SUFFICES ASSUME NEW w \in Workers, NEW d \in Held(w)', d.from # Root,
                      session[d.from] # 0, d.id = session[d.from]
               PROVE  d.to <= Len(sockets[d.from])
    BY <1>1 DEF Connected
  <2>1. d \in Held(w)
    BY <1>3, <1>6
  <2> QED
    BY <2>1 DEF Connected
<1> QED
  BY <1>10, <1>11, <1>13, <1>14, <1>17, <1>18, <1>20, <1>21

-----------------------------------------------------------------------------
(* A worker that makes no connection and starts no session.                *)

LEMMA EndSessionKeeps ==
  ASSUME IInv, NEW w \in Workers, EndSession(w), UNCHANGED rootVars, workerKilled' \in BOOLEAN
  PROVE  IInv'
<1> USE DEF IInv
<1>1. /\ pc' = [pc EXCEPT ![w] = "closed"] /\ session' = [session EXCEPT ![w] = 0]
      /\ sockets' = [sockets EXCEPT ![w] = <<>>] /\ backlog' = [backlog EXCEPT ![w] = <<>>]
      /\ wire' \subseteq wire
      /\ attempt' = attempt /\ rootPc' = rootPc /\ rootNext' = rootNext
  BY DEF EndSession, rootVars
<1>2. \A v \in Workers :
        /\ sockets'[v] = IF v = w THEN <<>> ELSE sockets[v]
        /\ backlog'[v] = IF v = w THEN <<>> ELSE backlog[v]
        /\ session'[v] = IF v = w THEN 0 ELSE session[v]
        /\ pc'[v] = IF v = w THEN "closed" ELSE pc[v]
  BY <1>1 DEF Basics
<1>3. Range(<<>>) = {}
  BY DEF Range
<1>4. \A v \in Workers : /\ Held(v)' = IF v = w THEN {} ELSE Held(v)
                         /\ Unanswered(v)' \subseteq Unanswered(v)
  BY <1>2, <1>3 DEF Held, Unanswered
<1>5. Basics'
  <2>1. attempt \in Nat /\ <<>> \in Seq(Conns)
    BY BringUpAssumption DEF Basics
  <2>2. /\ pc' \in [Workers -> {"closed", "accept", "hello", "waitReady", "peers", "up"}]
        /\ session' \in [Workers -> 0 .. attempt]
    BY <1>1, <2>1 DEF Basics
  <2>3. sockets' \in [Workers -> Seq(Conns)] /\ backlog' \in [Workers -> Seq(Conns)]
    BY <1>1, <2>1 DEF Basics
  <2>4. \A v \in Workers : \A c \in Held(v)' : c.id <= attempt
    BY <1>4 DEF Basics
  <2> QED
    BY <1>1, <2>2, <2>3, <2>4 DEF Basics
<1>6. Indexed'
  <2> SUFFICES ASSUME NEW v \in Workers
               PROVE  IndexedAt(v)'
    BY DEF Indexed
  <2>1. CASE v = w
    BY <1>2, <2>1 DEF IndexedAt, Conn
  <2>2. CASE v # w
    BY <1>2, <2>2 DEF Indexed, IndexedAt
  <2> QED
    BY <2>1, <2>2
<1>7. HeldOnce'
  BY <1>2, <1>3 DEF HeldOnce, IsInjective
<1>8. RootFirst'
  BY <1>2, <1>4 DEF RootFirst, InOrder
<1>9. Sessions'
  <2>1. \A v \in Workers : session'[v] # 0 => Len(sockets[v]) <= Len(sockets'[v])
    BY <1>2 DEF Basics
  <2> QED
    BY <1>1, <1>2, <1>4, <2>1, SessionsShrink DEF Sessions
<1> QED
  BY <1>5, <1>6, <1>7, <1>8, <1>9 DEF Sessions

LEMMA RelistenKeeps ==
  ASSUME IInv, NEW w \in Workers, Relisten(w)
  PROVE  IInv'
<1> USE DEF IInv
<1>1. /\ pc[w] = "closed" /\ pc' = [pc EXCEPT ![w] = "accept"]
      /\ UNCHANGED <<rootVars, session, sockets, backlog, wire, workerKilled>>
      /\ attempt' = attempt /\ rootPc' = rootPc /\ rootNext' = rootNext
  BY DEF Relisten, rootVars
<1>2. \A v : Held(v)' = Held(v)
  BY <1>1 DEF Held
<1>3. Basics' /\ HeldOnce' /\ RootFirst'
  BY <1>1, <1>2 DEF Basics, HeldOnce, RootFirst
<1>4. Indexed'
  BY <1>1 DEF Indexed, IndexedAt, Basics
<1>5. \A v \in Workers : Unanswered(v)' \subseteq Unanswered(v)
  BY <1>1 DEF Unanswered, Basics
<1>6. Sessions'
  <2>1. \A v \in Workers : Len(sockets[v]) <= Len(sockets'[v])
    BY <1>1 DEF Basics
  <2> QED
    BY <1>1, <1>2, <1>5, <2>1, SessionsShrink DEF Sessions
<1> QED
  BY <1>3, <1>4, <1>6 DEF Sessions

\* What is left of a listener's queue without its head.
LEMMA Dequeued ==
  ASSUME NEW b \in Seq(Conns), b # <<>>, IsInjective(b), InOrder(b)
  PROVE  /\ IsInjective(Tail(b)) /\ InOrder(Tail(b)) /\ Head(b) \notin Range(Tail(b))
         /\ Head(b).from = Root => \A d \in Range(Tail(b)) : Head(b).id <= d.id
<1>1. PICK t : t = Tail(b)
  OBVIOUS
<1>2. PICK n \in Nat \ {0} : n = Len(b)
  BY Tailed
<1>3. /\ DOMAIN b = 1 .. n /\ DOMAIN t = 1 .. n - 1 /\ Head(b) = b[1]
      /\ \A i \in 1 .. n - 1 : t[i] = b[i + 1] /\ i + 1 \in 1 .. n /\ i + 1 # 1
      /\ 1 \in 1 .. n
  BY <1>1, <1>2, Tailed
<1>4. IsInjective(t)
  <2> SUFFICES ASSUME NEW i \in 1 .. n - 1, NEW j \in 1 .. n - 1, t[i] = t[j]
               PROVE  i = j
    BY <1>3 DEF IsInjective
  <2>1. i + 1 = j + 1
    BY <1>3 DEF IsInjective
  <2> QED
    BY <2>1
<1>5. InOrder(t)
  <2> SUFFICES ASSUME NEW i \in 1 .. n - 1, NEW j \in 1 .. n - 1, i < j, t[i].from = Root
               PROVE  t[i].id <= t[j].id
    BY <1>3 DEF InOrder
  <2>1. i + 1 < j + 1 /\ b[i + 1].from = Root
    BY <1>3
  <2> QED
    BY <1>3, <2>1 DEF InOrder
<1>6. Head(b) \notin Range(t)
  BY <1>3 DEF IsInjective, Range
<1>7. ASSUME Head(b).from = Root, NEW d \in Range(t)
      PROVE  Head(b).id <= d.id
  <2>1. PICK i \in 1 .. n - 1 : d = t[i]
    BY <1>3 DEF Range
  <2>2. 1 < i + 1
    OBVIOUS
  <2> QED
    BY <1>3, <1>7, <2>1, <2>2 DEF InOrder
<1> QED
  BY <1>1, <1>4, <1>5, <1>6, <1>7

\* The first connection of the queue goes to the end of the sockets; the rest
\* stays in the queue, or is dropped with the listener.
LEMMA Accepts ==
  ASSUME IInv, NEW w \in Workers, backlog[w] # <<>>,
         sockets' = [sockets EXCEPT ![w] = Append(sockets[w], Head(backlog[w]))],
         NEW b \in {Tail(backlog[w]), <<>>}, backlog' = [backlog EXCEPT ![w] = b]
  PROVE  /\ sockets' \in [Workers -> Seq(Conns)] /\ backlog' \in [Workers -> Seq(Conns)]
         /\ \A v \in Workers : Held(v)' \subseteq Held(v)
         /\ \A v \in Workers : Range(backlog'[v]) \subseteq Range(backlog[v])
         /\ Head(backlog[w]).to = w /\ Head(backlog[w]).from < w
         /\ Head(backlog[w]) \in Range(backlog[w])
         /\ \A k \in DOMAIN b : b[k].to = w /\ b[k].from < w
         /\ HeldOnce' /\ RootFirst'
<1> USE DEF IInv
<1> DEFINE s == sockets[w]
           q == backlog[w]
           x == Head(backlog[w])
<1>1. s \in Seq(Conns) /\ q \in Seq(Conns) /\ q # <<>>
  BY DEF Basics
<1>2. /\ IsInjective(s) /\ IsInjective(q) /\ InOrder(q) /\ Range(s) \cap Range(q) = {}
      /\ s # <<>> /\ s[1].from = Root => \A d \in Range(s) \cup Range(q) : s[1].id <= d.id
  BY DEF HeldOnce, RootFirst, Held
<1>3. \A k \in DOMAIN q : q[k].to = w /\ q[k].from < w
  BY DEF Indexed, IndexedAt
<1>4. \A v \in Workers : /\ sockets'[v] = IF v = w THEN Append(s, x) ELSE sockets[v]
                         /\ backlog'[v] = IF v = w THEN b ELSE backlog[v]
  BY DEF Basics
<1>5. b = Tail(q) \/ b = <<>>
  OBVIOUS
<1> HIDE DEF s, q, x
<1>6. PICK t : t = Tail(q)
  OBVIOUS
<1>7. /\ t \in Seq(Conns) /\ x = q[1] /\ x \in Conns /\ Range(q) = Range(t) \cup {x}
      /\ DOMAIN q = 1 .. Len(q) /\ Len(q) \in Nat \ {0} /\ DOMAIN t = 1 .. Len(q) - 1
      /\ \A i \in 1 .. Len(q) - 1 : t[i] = q[i + 1]
  BY <1>1, <1>6, Tailed DEF x, q
<1>8. /\ IsInjective(t) /\ InOrder(t) /\ x \notin Range(t)
      /\ x.from = Root => \A d \in Range(t) : x.id <= d.id
  BY <1>1, <1>2, <1>6, Dequeued DEF x, q
<1>9. PICK a : a = Append(s, x)
  OBVIOUS
<1>10. /\ a \in Seq(Conns) /\ Range(a) = Range(s) \cup {x} /\ s \in Seq(Conns)
       /\ DOMAIN a = 1 .. Len(s) + 1 /\ DOMAIN s = 1 .. Len(s) /\ Len(s) \in Nat
       /\ \A i \in 1 .. Len(s) : a[i] = s[i]
       /\ a[Len(s) + 1] = x
  BY <1>1, <1>7, <1>9, Appended
<1>11. /\ b \in Seq(Conns) /\ Range(b) \subseteq Range(t) /\ IsInjective(b) /\ InOrder(b)
  <2>1. CASE b = t
    BY <1>7, <1>8, <2>1
  <2>2. CASE b = <<>>
    BY <2>2 DEF Range, IsInjective, InOrder
  <2> QED
    BY <1>5, <1>6, <2>1, <2>2
<1>12. x.to = w /\ x.from < w /\ x \in Range(q)
  BY <1>3, <1>7 DEF Range
<1>13. \A k \in DOMAIN b : b[k].to = w /\ b[k].from < w
  <2>1. \A d \in Range(q) : d.to = w /\ d.from < w
    BY <1>3 DEF Range
  <2>2. \A k \in DOMAIN b : b[k] \in Range(b)
    BY DEF Range
  <2> QED
    BY <1>7, <1>11, <2>1, <2>2
<1>14. IsInjective(a)
  <2> SUFFICES ASSUME NEW i \in 1 .. Len(s) + 1, NEW j \in 1 .. Len(s) + 1, a[i] = a[j]
               PROVE  i = j
    BY <1>10 DEF IsInjective
  <2>1. x \notin Range(s)
    BY <1>2, <1>12
  <2>2. \A k \in 1 .. Len(s) : s[k] \in Range(s)
    BY <1>10 DEF Range
  <2>3. /\ i \in 1 .. Len(s) \/ i = Len(s) + 1
        /\ j \in 1 .. Len(s) \/ j = Len(s) + 1
    BY <1>10
  <2>4. CASE i \in 1 .. Len(s) /\ j \in 1 .. Len(s)
    BY <1>2, <1>10, <2>4 DEF IsInjective
  <2> QED
    BY <1>10, <2>1, <2>2, <2>3, <2>4
<1>15. \A v \in Workers : Held(v)' \subseteq Held(v) /\ Range(backlog'[v]) \subseteq Range(backlog[v])
  <2>1. Range(a) \cup Range(b) \subseteq Range(s) \cup Range(q)
    BY <1>7, <1>10, <1>11
  <2> QED
    BY <1>4, <1>7, <1>9, <1>11, <2>1 DEF Held, s, q
<1>16. sockets' \in [Workers -> Seq(Conns)] /\ backlog' \in [Workers -> Seq(Conns)]
  BY <1>9, <1>10, <1>11 DEF Basics, s, x
<1>17. HeldOnce'
  <2>1. Range(a) \cap Range(b) = {}
    BY <1>2, <1>7, <1>8, <1>10, <1>11
  <2> QED
    BY <1>4, <1>9, <1>11, <1>14, <2>1 DEF HeldOnce
<1>18. RootFirst'
  <2> SUFFICES ASSUME NEW v \in Workers
               PROVE  /\ InOrder(backlog'[v])
                      /\ sockets'[v] # <<>> /\ sockets'[v][1].from = Root =>
                           \A c \in Held(v)' : sockets'[v][1].id <= c.id
    BY DEF RootFirst
  <2>1. CASE v # w
    BY <1>4, <2>1 DEF RootFirst, Held
  <2>2. CASE v = w
    <3>1. sockets'[v] = a /\ backlog'[v] = b /\ Held(v)' = Range(a) \cup Range(b)
      BY <1>4, <1>9, <2>2 DEF Held
    <3>2. CASE s = <<>>
      <4>1. a[1] = x /\ Range(a) = {x}
        BY <1>10, <3>2 DEF Range
      <4>2. x.id <= x.id
        BY <1>7, BringUpAssumption DEF Conns
      <4> QED
        BY <1>8, <1>11, <3>1, <4>1, <4>2
    <3>3. CASE s # <<>>
      <4>1. 1 \in 1 .. Len(s)
        BY <1>1, <3>3, RangeIn
      <4>2. a[1] = s[1]
        BY <1>10, <4>1
      <4>3. Range(a) \cup Range(b) \subseteq Range(s) \cup Range(q)
        BY <1>7, <1>10, <1>11
      <4> QED
        BY <1>2, <1>11, <3>1, <3>3, <4>2, <4>3
    <3> QED
      BY <3>2, <3>3
  <2> QED
    BY <2>1, <2>2
<1> QED
  BY <1>12, <1>13, <1>15, <1>16, <1>17, <1>18 DEF x, q

LEMMA AcceptRootKeeps ==
  ASSUME IInv, NEW w \in Workers, AcceptRoot(w)
  PROVE  IInv'
<1> USE DEF IInv
<1>1. /\ pc[w] = "accept" /\ backlog[w] # <<>> /\ sockets[w] = <<>>
      /\ sockets' = [sockets EXCEPT ![w] = <<Head(backlog[w])>>]
      /\ backlog' = [backlog EXCEPT ![w] = Tail(backlog[w])]
      /\ pc' = [pc EXCEPT ![w] = "hello"]
      /\ UNCHANGED <<rootVars, session, wire, workerKilled>>
      /\ attempt' = attempt /\ rootPc' = rootPc /\ rootNext' = rootNext
  BY DEF AcceptRoot, Indexed, IndexedAt, rootVars
<1>2. sockets' = [sockets EXCEPT ![w] = Append(sockets[w], Head(backlog[w]))]
  <2>1. \A x : Append(<<>>, x) = <<x>>
    OBVIOUS
  <2> QED
    BY <1>1, <2>1
<1>3. /\ sockets' \in [Workers -> Seq(Conns)] /\ backlog' \in [Workers -> Seq(Conns)]
      /\ \A v \in Workers : Held(v)' \subseteq Held(v)
      /\ Head(backlog[w]).to = w /\ Head(backlog[w]).from < w
      /\ Head(backlog[w]) \in Range(backlog[w])
      /\ \A k \in DOMAIN Tail(backlog[w]) :
           Tail(backlog[w])[k].to = w /\ Tail(backlog[w])[k].from < w
      /\ HeldOnce' /\ RootFirst'
      /\ \A v \in Workers : Range(backlog'[v]) \subseteq Range(backlog[v])
  BY <1>1, <1>2, Accepts
<1>4. \A v \in Workers : /\ sockets'[v] = IF v = w THEN <<Head(backlog[w])>> ELSE sockets[v]
                         /\ backlog'[v] = IF v = w THEN Tail(backlog[w]) ELSE backlog[v]
                         /\ pc'[v] = IF v = w THEN "hello" ELSE pc[v]
  BY <1>1 DEF Basics
<1>5. Basics'
  <2>1. pc' \in [Workers -> {"closed", "accept", "hello", "waitReady", "peers", "up"}]
    BY <1>1 DEF Basics
  <2>2. \A v \in Workers : \A c \in Held(v)' : c.id <= attempt
    BY <1>3 DEF Basics
  <2> QED
    BY <1>1, <1>3, <2>1, <2>2 DEF Basics
<1>6. Indexed'
  <2> SUFFICES ASSUME NEW v \in Workers
               PROVE  IndexedAt(v)'
    BY DEF Indexed
  <2>0. session' = session
    BY <1>1
  <2>1. CASE v # w
    BY <1>4, <2>0, <2>1 DEF Indexed, IndexedAt, Conn
  <2>2. CASE v = w
    <3>1. /\ sockets'[v] = <<Head(backlog[w])>> /\ pc'[v] = "hello"
          /\ backlog'[v] = Tail(backlog[w]) /\ session[v] = 0
      BY <1>1, <1>4, <2>2 DEF Indexed, IndexedAt
    <3>2. DOMAIN sockets'[v] = {1} /\ Len(sockets'[v]) = 1 /\ sockets'[v][1] = Head(backlog[w])
      BY <3>1
    <3>3. 1 <= v
      BY BringUpAssumption DEF Workers
    <3> QED
      BY <1>3, <2>0, <2>2, <3>1, <3>2, <3>3 DEF IndexedAt, Conn
  <2> QED
    BY <2>1, <2>2
<1>7. Sessions'
  <2>1. \A v \in Workers : session[v] # 0 => Len(sockets[v]) <= Len(sockets'[v])
    <3> SUFFICES ASSUME NEW v \in Workers, session[v] # 0
                 PROVE  Len(sockets[v]) <= Len(sockets'[v])
      OBVIOUS
    <3>1. v # w
      BY <1>1 DEF Indexed, IndexedAt
    <3> QED
      BY <1>4, <3>1 DEF Basics
  <2>2. \A v \in Workers : Unanswered(v)' \subseteq Unanswered(v)
    <3> SUFFICES ASSUME NEW v \in Workers
                 PROVE  Unanswered(v)' \subseteq Unanswered(v)
      OBVIOUS
    <3>1. CASE v # w
      BY <1>4, <3>1 DEF Unanswered
    <3>2. CASE v = w
      <4>1. Range(sockets'[v]) = {Head(backlog[w])}
        BY <1>4, <3>2 DEF Range
      <4> QED
        BY <1>3, <3>2, <4>1 DEF Unanswered
    <3> QED
      BY <3>1, <3>2
  <2> QED
    BY <1>1, <1>3, <2>1, <2>2, SessionsShrink DEF Sessions
<1> QED
  BY <1>3, <1>5, <1>6, <1>7 DEF Sessions

LEMMA AcceptPeerKeeps ==
  ASSUME IInv, NEW w \in Workers, AcceptPeer(w)
  PROVE  IInv'
<1> USE DEF IInv
<1> DEFINE list == Append(sockets[w], Head(backlog[w]))
           b == IF HasAll(list) THEN <<>> ELSE Tail(backlog[w])
           L == Len(sockets[w])
<1>1. /\ pc[w] = "peers" /\ backlog[w] # <<>> /\ OtherWorker(w, L) < w
      /\ sockets' = [sockets EXCEPT ![w] = list]
      /\ backlog' = [backlog EXCEPT ![w] = b]
      /\ pc' = [pc EXCEPT ![w] = IF HasAll(list) THEN "up" ELSE "peers"]
      /\ UNCHANGED <<rootVars, session, wire, workerKilled>>
      /\ attempt' = attempt /\ rootPc' = rootPc /\ rootNext' = rootNext
  BY DEF AcceptPeer, AfterPeer, rootVars
<1>2. b \in {Tail(backlog[w]), <<>>}
  OBVIOUS
<1>3. /\ sockets' \in [Workers -> Seq(Conns)] /\ backlog' \in [Workers -> Seq(Conns)]
      /\ \A v \in Workers : Held(v)' \subseteq Held(v)
      /\ Head(backlog[w]).to = w /\ Head(backlog[w]).from < w
      /\ Head(backlog[w]) \in Range(backlog[w])
      /\ \A k \in DOMAIN b : b[k].to = w /\ b[k].from < w
      /\ HeldOnce' /\ RootFirst'
      /\ \A v \in Workers : Range(backlog'[v]) \subseteq Range(backlog[v])
  BY <1>1, <1>2, Accepts
<1>4. \A v \in Workers : /\ sockets'[v] = IF v = w THEN list ELSE sockets[v]
                         /\ backlog'[v] = IF v = w THEN b ELSE backlog[v]
                         /\ pc'[v] = IF v = w THEN IF HasAll(list) THEN "up" ELSE "peers"
                                     ELSE pc[v]
  BY <1>1 DEF Basics
<1>5. /\ w \in Nat /\ L \in Nat /\ NWorkers \in Nat /\ L < NWorkers
      /\ sockets[w] \in Seq(Conns) /\ backlog[w] \in Seq(Conns) /\ Head(backlog[w]) \in Conns
  <2>1. sockets[w] \in Seq(Conns) /\ backlog[w] \in Seq(Conns)
    BY DEF Basics
  <2>2. Head(backlog[w]) \in Conns
    BY <1>1, <2>1, Tailed
  <2> QED
    BY <1>1, <2>1, <2>2, BringUpAssumption DEF Indexed, IndexedAt, Workers
<1>6. /\ Len(list) = L + 1 /\ DOMAIN list = 1 .. L + 1 /\ DOMAIN sockets[w] = 1 .. L
      /\ \A i \in 1 .. L : list[i] = sockets[w][i]
      /\ list[L + 1] = Head(backlog[w])
  BY <1>5, Appended
<1>7. L + 1 <= w
  BY <1>1, <1>5 DEF OtherWorker
<1> HIDE DEF list, b, L
<1>8. Basics'
  <2>1. pc' \in [Workers -> {"closed", "accept", "hello", "waitReady", "peers", "up"}]
    BY <1>1 DEF Basics
  <2>2. \A v \in Workers : \A c \in Held(v)' : c.id <= attempt
    BY <1>3 DEF Basics
  <2> QED
    BY <1>1, <1>3, <2>1, <2>2 DEF Basics
<1>9. session[w] # 0 /\ L >= 1 /\ sockets[w][1] = Conn(Root, session[w], w)
  <2>1. session[w] # 0 /\ sockets[w] # <<>> /\ sockets[w][1] = Conn(Root, session[w], w)
    BY <1>1 DEF Indexed, IndexedAt
  <2> QED
    BY <1>5, <2>1, RangeIn DEF L
<1>10. Indexed'
  <2> SUFFICES ASSUME NEW v \in Workers
               PROVE  IndexedAt(v)'
    BY DEF Indexed
  <2>0. session' = session
    BY <1>1
  <2>1. CASE v # w
    BY <1>4, <2>0, <2>1 DEF Indexed, IndexedAt, Conn
  <2>2. CASE v = w
    <3>1. sockets'[v] = list /\ backlog'[v] = b /\ pc'[v] = IF HasAll(list) THEN "up" ELSE "peers"
      BY <1>4, <2>2
    <3>2. /\ pc'[v] = "up" => Len(list) = NWorkers
          /\ pc'[v] = "peers" => Len(list) < NWorkers
      BY <1>5, <1>6, <3>1 DEF HasAll
    <3>3. list # <<>> /\ list[1] = Conn(Root, session[w], w)
      <4>1. 1 \in 1 .. L /\ 1 \in DOMAIN list
        BY <1>5, <1>6, <1>9
      <4> QED
        BY <1>6, <1>9, <4>1
    <3>4. \A k \in DOMAIN list : IF k <= w THEN list[k].to = w /\ list[k].from < w
                                 ELSE list[k] = Conn(w, session[w], k)
      <4> SUFFICES ASSUME NEW k \in 1 .. L + 1
                   PROVE  list[k].to = w /\ list[k].from < w
        BY <1>5, <1>6, <1>7
      <4>1. CASE k = L + 1
        BY <1>3, <1>6, <4>1
      <4>2. CASE k \in 1 .. L
        BY <1>5, <1>6, <1>7, <4>2 DEF Indexed, IndexedAt
      <4> QED
        BY <1>5, <4>1, <4>2
    <3> QED
      BY <1>3, <2>0, <1>9, <2>2, <3>1, <3>2, <3>3, <3>4 DEF IndexedAt, Conn
  <2> QED
    BY <2>1, <2>2
<1>11. Sessions'
  <2>1. \A v \in Workers : Len(sockets[v]) <= Len(sockets'[v])
    BY SMTT(60), <1>4, <1>5, <1>6 DEF Basics, L
  <2>2. \A v \in Workers : Unanswered(v)' \subseteq Unanswered(v)
    BY <1>3, <1>4 DEF Unanswered
  <2> QED
    BY <1>1, <1>3, <2>1, <2>2, SessionsShrink DEF Sessions
<1> QED
  BY <1>3, <1>8, <1>10, <1>11 DEF Sessions

LEMMA ReadReadyKeeps ==
  ASSUME IInv, NEW w \in Workers, ReadReady(w)
  PROVE  IInv'
<1> USE DEF IInv
<1>1. /\ pc[w] = "waitReady" /\ wire' \subseteq wire
      /\ sockets' = [sockets EXCEPT ![w] = sockets[w]]
      /\ backlog' = IF HasAll(sockets[w]) THEN [backlog EXCEPT ![w] = <<>>] ELSE backlog
      /\ pc' = [pc EXCEPT ![w] = IF HasAll(sockets[w]) THEN "up" ELSE "peers"]
      /\ UNCHANGED <<rootVars, session, workerKilled>>
      /\ attempt' = attempt /\ rootPc' = rootPc /\ rootNext' = rootNext
  BY DEF ReadReady, AfterPeer, rootVars
<1>2. sockets' = sockets
  BY <1>1 DEF Basics
<1>3. \A v \in Workers : /\ backlog'[v] \in {backlog[v], <<>>}
                         /\ pc'[v] = IF v = w THEN IF HasAll(sockets[w]) THEN "up" ELSE "peers"
                                     ELSE pc[v]
  BY <1>1 DEF Basics
<1>4. Range(<<>>) = {} /\ IsInjective(<<>>) /\ InOrder(<<>>)
  BY DEF Range, IsInjective, InOrder
<1>5. \A v \in Workers : Held(v)' \subseteq Held(v) /\ Range(backlog'[v]) \subseteq Range(backlog[v])
  BY <1>2, <1>3, <1>4 DEF Held
<1>6. Basics'
  <2>1. pc' \in [Workers -> {"closed", "accept", "hello", "waitReady", "peers", "up"}]
    BY <1>1 DEF Basics
  <2>2. backlog' \in [Workers -> Seq(Conns)]
    BY <1>1 DEF Basics
  <2> QED
    BY <1>1, <1>2, <1>5, <2>1, <2>2 DEF Basics
<1>7. Indexed'
  <2> SUFFICES ASSUME NEW v \in Workers
               PROVE  IndexedAt(v)'
    BY DEF Indexed
  <2>0. session' = session /\ sockets' = sockets
    BY <1>1, <1>2
  <2>1. \A k \in DOMAIN backlog'[v] : backlog'[v][k].to = v /\ backlog'[v][k].from < v
    BY <1>3 DEF Indexed, IndexedAt
  <2>2. CASE v # w
    BY <1>3, <2>0, <2>1, <2>2 DEF Indexed, IndexedAt, Conn
  <2>3. CASE v = w
    <3>1. Len(sockets[v]) = 1 /\ session[v] # 0
      BY <1>1, <2>3 DEF Indexed, IndexedAt
    <3>2. NWorkers = 1 \/ 1 < NWorkers
      BY BringUpAssumption
    <3>3. pc'[v] = IF Len(sockets[v]) = NWorkers THEN "up" ELSE "peers"
      BY <1>3, <2>3 DEF HasAll
    <3> QED
      BY <2>0, <2>1, <3>1, <3>2, <3>3 DEF Indexed, IndexedAt, Conn
  <2> QED
    BY <2>2, <2>3
<1>8. HeldOnce' /\ RootFirst'
  <2>1. HeldOnce'
    BY <1>2, <1>3, <1>4 DEF HeldOnce
  <2>2. RootFirst'
    BY <1>2, <1>3, <1>4, <1>5 DEF RootFirst
  <2> QED
    BY <2>1, <2>2
<1>9. Sessions'
  <2>1. \A v \in Workers : Len(sockets[v]) <= Len(sockets'[v])
    BY <1>2 DEF Basics
  <2>2. \A v \in Workers : Unanswered(v)' \subseteq Unanswered(v)
    BY <1>2, <1>3, <1>5 DEF Unanswered
  <2> QED
    BY <1>1, <1>5, <2>1, <2>2, SessionsShrink DEF Sessions
<1> QED
  BY <1>6, <1>7, <1>8, <1>9 DEF Sessions

-----------------------------------------------------------------------------
(* A session starts.                                                       *)

LEMMA ReadHelloKeeps ==
  ASSUME IInv, NEW w \in Workers, ReadHello(w)
  PROVE  IInv'
<1> USE DEF IInv
<1> DEFINE c == sockets[w][1]
<1>1. /\ pc[w] = "hello" /\ <<c, "hello">> \in wire
      /\ wire' = (wire \ {<<c, "hello">>}) \cup (IF OpenAtMaker(c) THEN {<<c, "ack">>} ELSE {})
      /\ session' = [session EXCEPT ![w] = c.id]
      /\ pc' = [pc EXCEPT ![w] = "waitReady"]
      /\ UNCHANGED <<rootVars, sockets, backlog, workerKilled>>
      /\ attempt' = attempt /\ rootPc' = rootPc /\ rootNext' = rootNext
  BY DEF ReadHello, AfterHello, rootVars
<1>2. c.from = Root /\ Len(sockets[w]) = 1 /\ session[w] = 0
  BY <1>1 DEF Basics, Indexed, IndexedAt
<1>3. sockets[w] \in Seq(Conns) /\ sockets[w] # <<>> /\ DOMAIN sockets[w] = {1}
  <2>1. sockets[w] \in Seq(Conns)
    BY DEF Basics
  <2> QED
    BY <1>2, <2>1
<1>4. c \in Range(sockets[w]) /\ c \in Held(w) /\ c \in RootConns(w)
  BY <1>2, <1>3, RangeIn DEF Held, RootConns
<1>5. c \in Conns /\ c.id \in 1 .. attempt /\ c.to = w
  BY <1>2, <1>4, ConnsHeld
<1>6. c = Conn(Root, c.id, w)
  BY <1>2, <1>5 DEF Conn, Conns
<1>7. OpenAtMaker(c) => rootPc # "down" /\ c.id = attempt
  BY <1>2 DEF OpenAtMaker
<1> HIDE DEF c
<1>8. \A v : Held(v)' = Held(v) /\ RootConns(v)' = RootConns(v)
  BY <1>1 DEF Held, RootConns
<1>9. \A v \in Workers : /\ session'[v] = IF v = w THEN c.id ELSE session[v]
                         /\ pc'[v] = IF v = w THEN "waitReady" ELSE pc[v]
  BY <1>1 DEF Basics
<1>10. Basics'
  <2>1. pc' \in [Workers -> {"closed", "accept", "hello", "waitReady", "peers", "up"}]
    BY <1>1 DEF Basics
  <2>2. session' \in [Workers -> 0 .. attempt]
    <3>1. c.id \in 0 .. attempt
      BY <1>5, BringUpAssumption DEF Basics
    <3> QED
      BY <1>1, <3>1 DEF Basics
  <2>3. /\ wire' \subseteq Conns \X {"hello", "ack", "ready"}
        /\ \A p \in wire' : p[2] \in {"hello", "ready"} => p[1].from = Root
        /\ \A p \in wire' : p[1].id <= attempt
    <3> SUFFICES ASSUME NEW p \in wire'
                 PROVE  /\ p \in Conns \X {"hello", "ack", "ready"}
                        /\ p[2] \in {"hello", "ready"} => p[1].from = Root
                        /\ p[1].id <= attempt
      OBVIOUS
    <3>1. CASE p \in wire
      BY <3>1 DEF Basics
    <3>2. CASE p = <<c, "ack">>
      BY <1>5, <3>2
    <3> QED
      BY <1>1, <3>1, <3>2
  <2> QED
    BY <1>1, <1>8, <2>1, <2>2, <2>3 DEF Basics
<1>11. Indexed'
  <2> SUFFICES ASSUME NEW v \in Workers
               PROVE  IndexedAt(v)'
    BY DEF Indexed
  <2>0. sockets' = sockets /\ backlog' = backlog
    BY <1>1
  <2>1. CASE v # w
    BY <1>9, <2>0, <2>1 DEF Indexed, IndexedAt, Conn
  <2>2. CASE v = w
    <3>1. session'[v] = c.id /\ pc'[v] = "waitReady" /\ c.id # 0
      BY <1>5, <1>9, <2>2
    <3>2. 1 <= v
      BY BringUpAssumption DEF Workers
    <3>3. \A k \in DOMAIN sockets[v] : k <= v /\ sockets[v][k].to = v /\ sockets[v][k].from < v
      BY <1>3, <2>2, <3>2 DEF Indexed, IndexedAt
    <3>4. \A k \in DOMAIN backlog[v] : backlog[v][k].to = v /\ backlog[v][k].from < v
      BY DEF Indexed, IndexedAt
    <3>5. sockets[v][1] = Conn(Root, session'[v], v)
      BY <1>6, <2>2, <3>1 DEF c
    <3> QED
      BY <1>2, <2>0, <1>3, <2>2, <3>1, <3>3, <3>4, <3>5 DEF IndexedAt, Conn
  <2> QED
    BY <2>1, <2>2
<1>12. HeldOnce' /\ RootFirst'
  BY <1>1, <1>8 DEF HeldOnce, RootFirst
<1>13. Reached' = Reached
  BY <1>1 DEF Reached
<1>14. FromReached'
  <2>1. ASSUME NEW v \in Workers, session'[v] = attempt, attempt # 0
        PROVE  v \in Reached
    <3>1. CASE v = w
      BY <1>2, <1>4, <1>5, <1>9, <2>1, <3>1 DEF FromReached
    <3>2. CASE v # w
      BY <1>9, <2>1, <3>2 DEF FromReached
    <3> QED
      BY <3>1, <3>2
  <2> QED
    BY <1>1, <1>8, <1>13, <2>1 DEF FromReached
<1>15. AnsweredAll'
  <2> SUFFICES ASSUME NEW v \in Answered'
               PROVE  session'[v] \in {0, attempt} /\ \A d \in RootConns(v) : d.id = attempt
    BY <1>1, <1>8 DEF AnsweredAll
  <2>1. v \in Workers
    BY DEF Answered
  <2>2. CASE v \in Answered
    <3>1. session[v] \in {0, attempt} /\ \A d \in RootConns(v) : d.id = attempt
      BY <2>2 DEF AnsweredAll
    <3>2. v = w => c.id = attempt
      BY <1>4, <3>1
    <3> QED
      BY <1>9, <2>1, <3>1, <3>2
  <2>3. CASE v \notin Answered
    <3>1. RootConn(v)' = RootConn(v) /\ RootConn(v) = [from |-> Root, id |-> attempt, to |-> v]
      BY <1>1 DEF RootConn, Conn
    <3>2. <<RootConn(v), "ack">> \in wire' /\ <<RootConn(v), "ack">> \notin wire
      BY <1>1, <2>1, <2>3, <3>1 DEF Answered
    <3>3. RootConn(v) = c
      BY <1>1, <3>2
    <3>4. v = w /\ c.id = attempt
      BY <1>5, <3>1, <3>3
    <3>5. \A d \in RootConns(w) : d.id \in 1 .. attempt /\ c.id <= d.id
      <4>1. \A d \in RootConns(w) : d \in Held(w)
        BY DEF RootConns
      <4>2. \A d \in RootConns(w) : d.id \in 1 .. attempt
        BY <4>1, ConnsHeld
      <4> QED
        BY <1>2, <1>3, <4>1, <4>2 DEF RootFirst, c
    <3>6. attempt \in Nat
      BY BringUpAssumption DEF Basics
    <3> QED
      BY <1>9, <2>1, <3>4, <3>5, <3>6
  <2> QED
    BY <2>2, <2>3
<1>16. LowerLeft'
  <2> SUFFICES ASSUME NEW v \in Workers, NEW d \in RootConns(v), NEW u \in 1 .. v - 1
               PROVE  /\ session'[u] = 0 \/ d.id <= session'[u]
                      /\ \A e \in RootConns(u) : d.id <= e.id
    BY <1>8 DEF LowerLeft
  <2>1. u \in Workers
    BY BringUpAssumption DEF Workers
  <2>2. session[u] = 0 \/ d.id <= session[u]
    BY DEF LowerLeft
  <2>3. \A e \in RootConns(u) : d.id <= e.id
    BY DEF LowerLeft
  <2> QED
    BY <1>4, <1>9, <2>1, <2>2, <2>3
<1>17. NeverAgain'
  <2>1. \A u \in Workers : Unanswered(u)' \subseteq Unanswered(u)
    BY <1>1, <1>9 DEF Unanswered
  <2> SUFFICES ASSUME NEW v \in Workers, NEW d \in Held(v), d.from # Root,
                      NEW e \in Unanswered(d.from)'
               PROVE  d.id < e.id
    BY <1>8 DEF NeverAgain
  <2>2. d.from \in Workers
    BY ConnsHeld
  <2> QED
    BY <2>1, <2>2 DEF NeverAgain
<1>18. Connected'
  <2> SUFFICES ASSUME NEW v \in Workers, NEW d \in Held(v), d.from # Root,
                      session'[d.from] # 0, d.id = session'[d.from]
               PROVE  d.to <= Len(sockets[d.from])
    BY <1>1, <1>8 DEF Connected
  <2>1. d.from \in Workers /\ d.id \in Int
    BY ConnsHeld
  <2>2. CASE d.from = w
    <3>1. c \in Unanswered(w)
      BY <1>1, <1>2, <1>4 DEF Unanswered
    <3>2. d.id < c.id
      BY <2>2, <3>1 DEF NeverAgain
    <3> QED
      BY <1>5, <1>9, <2>1, <2>2, <3>2
  <2>3. CASE d.from # w
    BY <1>9, <2>1, <2>3 DEF Connected
  <2> QED
    BY <2>2, <2>3
<1> QED
  BY <1>10, <1>11, <1>12, <1>14, <1>15, <1>16, <1>17, <1>18

LEMMA ConnectPeerKeeps ==
  ASSUME IInv, NEW w \in Workers, ConnectPeer(w)
  PROVE  IInv'
<1> USE DEF IInv
<1> DEFINE s == sockets[w]
           h == OtherWorker(w, Len(s))
           c == Conn(w, session[w], h)
           list == Append(s, c)
           queued == Dialed(c)
<1>1. /\ pc[w] = "peers" /\ h >= w
      /\ sockets' = [sockets EXCEPT ![w] = list]
      /\ pc' = [pc EXCEPT ![w] = IF HasAll(list) THEN "up" ELSE "peers"]
      /\ backlog' = IF HasAll(list) THEN [queued EXCEPT ![w] = <<>>] ELSE queued
      /\ UNCHANGED <<rootVars, session, wire, workerKilled>>
      /\ attempt' = attempt /\ rootPc' = rootPc /\ rootNext' = rootNext
  BY DEF ConnectPeer, AfterPeer, rootVars
<1>2. /\ s \in Seq(Conns) /\ Len(s) < NWorkers /\ session[w] # 0 /\ s # <<>>
      /\ s[1] = Conn(Root, session[w], w)
      /\ session[w] \in 1 .. attempt /\ attempt \in Nat /\ attempt <= MaxAttempts
  <2>1. s \in Seq(Conns) /\ session[w] \in 0 .. attempt /\ attempt \in 0 .. MaxAttempts
    BY DEF Basics
  <2>2. Len(s) < NWorkers /\ session[w] # 0 /\ s # <<>> /\ s[1] = Conn(Root, session[w], w)
    BY <1>1 DEF Indexed, IndexedAt
  <2> QED
    BY <2>1, <2>2, BringUpAssumption
<1>3. /\ w \in Nat \ {0} /\ Len(s) \in Nat /\ NWorkers \in Nat
      /\ h = Len(s) + 1 /\ w < h /\ h \in Workers
  <2>1. w \in Nat \ {0} /\ Len(s) \in Nat /\ NWorkers \in Nat
    BY <1>2, BringUpAssumption DEF Workers
  <2>2. h = Len(s) + 1 /\ w < h
    BY <1>1, <2>1 DEF OtherWorker
  <2> QED
    BY <1>2, <2>1, <2>2 DEF Workers
<1>4. /\ c \in Conns /\ c.from = w /\ c.id = session[w] /\ c.to = h /\ c.from # Root
      /\ c = Conn(w, session[w], h)
  BY <1>2, <1>3, BringUpAssumption DEF Conn, Conns, Root
<1>5. \A v \in Workers : backlog[v] \in Seq(Conns) /\ sockets[v] \in Seq(Conns)
  BY DEF Basics
<1> HIDE DEF h, c, list
<1>6. /\ list \in Seq(Conns) /\ Len(list) = Len(s) + 1 /\ DOMAIN list = 1 .. Len(s) + 1
      /\ DOMAIN s = 1 .. Len(s) /\ \A i \in 1 .. Len(s) : list[i] = s[i]
      /\ list[Len(s) + 1] = c /\ Range(list) = Range(s) \cup {c}
  BY <1>2, <1>4, Appended DEF list
<1>7. PICK q : q = IF Listening(h) THEN Append(backlog[h], c) ELSE backlog[h]
  OBVIOUS
<1>7a. queued = [backlog EXCEPT ![h] = q]
  <2>1. CASE Listening(h)
    BY <1>4, <1>7, <2>1 DEF Dialed
  <2>2. CASE ~Listening(h)
    BY <1>3, <1>4, <1>7, <2>2 DEF Dialed, Basics
  <2> QED
    BY <2>1, <2>2
<1>8. \A v \in Workers :
        /\ sockets'[v] = IF v = w THEN list ELSE sockets[v]
        /\ pc'[v] = IF v = w THEN IF HasAll(list) THEN "up" ELSE "peers" ELSE pc[v]
        /\ v = h => backlog'[v] = q
        /\ v = w => backlog'[v] \in {backlog[v], <<>>}
        /\ v \notin {w, h} => backlog'[v] = backlog[v]
  <2>1. sockets \in [Workers -> Seq(Conns)] /\ backlog \in [Workers -> Seq(Conns)]
        /\ DOMAIN pc = Workers
    BY DEF Basics
  <2>2. w # h
    BY <1>3
  <2>3. \A v \in Workers :
          /\ sockets'[v] = IF v = w THEN list ELSE sockets[v]
          /\ pc'[v] = IF v = w THEN IF HasAll(list) THEN "up" ELSE "peers" ELSE pc[v]
    BY <1>1, <2>1
  <2>4. queued = [backlog EXCEPT ![h] = q]
    BY <1>7a
  <2> HIDE DEF queued
  <2>5. backlog' \in {queued, [queued EXCEPT ![w] = <<>>]}
    BY <1>1
  <2>6. \A v \in Workers : queued[v] = IF v = h THEN q ELSE backlog[v]
    BY <2>1, <2>4
  <2>7. \A v \in Workers :
          /\ v # w => backlog'[v] = queued[v]
          /\ v = w => backlog'[v] \in {queued[v], <<>>}
    BY <2>1, <2>4, <2>5
  <2> QED
    BY ONLY <2>2, <2>3, <2>6, <2>7
<1>9. \A v \in Workers : c \notin Held(v)
  BY <1>2, <1>3, <1>4 DEF Connected
<1>10. /\ q \in Seq(Conns) /\ Range(q) \subseteq Range(backlog[h]) \cup {c}
       /\ IsInjective(q) /\ InOrder(q)
       /\ \A k \in DOMAIN q : q[k].to = h /\ q[k].from < h
  <2>1. \A d \in Range(backlog[h]) : d.from = Root => d.id <= c.id
    <3> SUFFICES ASSUME NEW d \in Range(backlog[h]), d.from = Root
                 PROVE  d.id <= c.id
      OBVIOUS
    <3>1. d \in RootConns(h) /\ w \in 1 .. h - 1
      BY <1>3, BringUpAssumption DEF RootConns, Held, Workers
    <3>2. session[w] = 0 \/ d.id <= session[w]
      BY <1>3, <3>1 DEF LowerLeft
    <3> QED
      BY <1>2, <1>4, <3>2
  <2>2. IsInjective(q) /\ InOrder(q)
    <3>1. CASE Listening(h)
      <4>1. q = Append(backlog[h], c)
        BY <1>7, <3>1
      <4> QED
        BY <1>3, <1>4, <1>5, <1>9, <2>1, <4>1, Queued DEF HeldOnce, RootFirst, Held
    <3>2. CASE ~Listening(h)
      BY <1>3, <1>7, <3>2 DEF HeldOnce, RootFirst
    <3> QED
      BY <3>1, <3>2
  <2>3. q \in Seq(Conns) /\ Range(q) \subseteq Range(backlog[h]) \cup {c}
    BY <1>3, <1>4, <1>5, <1>7, Appended
  <2>4. \A d \in Range(q) : d.to = h /\ d.from < h
    <3>1. \A d \in Range(backlog[h]) : d.to = h /\ d.from < h
      BY <1>3 DEF Indexed, IndexedAt, Range
    <3> QED
      BY <1>3, <1>4, <2>3, <3>1
  <2>5. \A k \in DOMAIN q : q[k] \in Range(q)
    BY DEF Range
  <2> QED
    BY <2>2, <2>3, <2>4, <2>5
<1>11. Range(<<>>) = {} /\ IsInjective(<<>>) /\ InOrder(<<>>)
  BY DEF Range, IsInjective, InOrder
<1>12. \A v \in Workers :
         /\ Held(v)' \subseteq Held(v) \cup {c}
         /\ v \notin {w, h} => Held(v)' = Held(v)
         /\ \A d \in Range(backlog'[v]) : d \in Range(backlog[v]) \/ d = c
  BY <1>3, <1>6, <1>8, <1>10, <1>11 DEF Held
<1>13. Basics'
  <2>1. pc' \in [Workers -> {"closed", "accept", "hello", "waitReady", "peers", "up"}]
    BY <1>1 DEF Basics
  <2>2. sockets' \in [Workers -> Seq(Conns)]
    BY <1>1, <1>6 DEF Basics
  <2>3. queued \in [Workers -> Seq(Conns)]
    <3> HIDE DEF queued
    <3> QED
      BY <1>3, <1>7a, <1>10 DEF Basics
  <2>4. backlog' \in [Workers -> Seq(Conns)]
    <3> HIDE DEF queued
    <3>1. <<>> \in Seq(Conns)
      OBVIOUS
    <3> QED
      BY <1>1, <2>3, <3>1
  <2>5. \A v \in Workers : \A d \in Held(v)' : d.id <= attempt
    <3> SUFFICES ASSUME NEW v \in Workers, NEW d \in Held(v)'
                 PROVE  d.id <= attempt
      OBVIOUS
    <3>1. CASE d = c
      BY <1>2, <1>4, <3>1
    <3>2. CASE d \in Held(v)
      BY <3>2 DEF Basics
    <3> QED
      BY <1>12, <3>1, <3>2
  <2> QED
    BY <1>1, <2>1, <2>2, <2>4, <2>5 DEF Basics
<1>14. Indexed'
  <2> SUFFICES ASSUME NEW v \in Workers
               PROVE  IndexedAt(v)'
    BY DEF Indexed
  <2>0. session' = session
    BY <1>1
  <2>1. \A k \in DOMAIN backlog'[v] : backlog'[v][k].to = v /\ backlog'[v][k].from < v
    <3>1. CASE v = h
      BY <1>3, <1>8, <1>10, <3>1
    <3>2. CASE v # h
      <4>1. backlog'[v] = backlog[v] \/ backlog'[v] = <<>>
        BY <1>8, <3>2
      <4>2. \A k \in DOMAIN backlog[v] : backlog[v][k].to = v /\ backlog[v][k].from < v
        BY DEF Indexed, IndexedAt
      <4> QED
        BY <4>1, <4>2
    <3> QED
      BY <3>1, <3>2
  <2>2. CASE v # w
    BY <1>8, <2>0, <2>1, <2>2 DEF Indexed, IndexedAt, Conn
  <2>3. CASE v = w
    <3>1. sockets'[v] = list /\ pc'[v] = IF HasAll(list) THEN "up" ELSE "peers"
      BY <1>8, <2>3
    <3>2. /\ pc'[v] = "up" => Len(list) = NWorkers
          /\ pc'[v] = "peers" => Len(list) < NWorkers
      BY <1>2, <1>3, <1>6, <3>1 DEF HasAll
    <3>3. list # <<>> /\ list[1] = Conn(Root, session[w], w)
      <4>1. 1 \in 1 .. Len(s) /\ 1 \in DOMAIN list
        <5>1. Len(s) >= 1
          BY <1>2, RangeIn
        <5> QED
          BY <1>3, <1>6, <5>1
      <4> QED
        BY <1>2, <1>6, <4>1
    <3>4. \A k \in DOMAIN list : IF k <= w THEN list[k].to = w /\ list[k].from < w
                                 ELSE list[k] = Conn(w, session[w], k)
      <4> SUFFICES ASSUME NEW k \in 1 .. Len(s) + 1
                   PROVE  IF k <= w THEN list[k].to = w /\ list[k].from < w
                          ELSE list[k] = Conn(w, session[w], k)
        BY <1>6
      <4>1. CASE k = Len(s) + 1
        <5>1. k = h /\ ~(k <= w)
          BY <1>3, <4>1
        <5> QED
          BY <1>4, <1>6, <4>1, <5>1
      <4>2. CASE k \in 1 .. Len(s)
        <5>1. IF k <= w THEN s[k].to = w /\ s[k].from < w ELSE s[k] = Conn(w, session[w], k)
          BY <1>6, <4>2 DEF Indexed, IndexedAt
        <5> QED
          BY <1>6, <4>2, <5>1
      <4> QED
        BY <1>3, <4>1, <4>2
    <3>5. session[w] # 0 /\ pc'[v] \in {"up", "peers"}
      BY <1>2, <3>1
    <3> QED
      BY <2>0, <2>1, <2>3, <3>1, <3>2, <3>3, <3>4, <3>5 DEF IndexedAt, Conn
  <2> QED
    BY <2>2, <2>3
<1>15. HeldOnce'
  <2> SUFFICES ASSUME NEW v \in Workers
               PROVE  /\ IsInjective(sockets'[v]) /\ IsInjective(backlog'[v])
                      /\ Range(sockets'[v]) \cap Range(backlog'[v]) = {}
    BY DEF HeldOnce
  <2>1. CASE v = w
    <3>1. IsInjective(list)
      <4> SUFFICES ASSUME NEW i \in 1 .. Len(s) + 1, NEW j \in 1 .. Len(s) + 1, list[i] = list[j]
                   PROVE  i = j
        BY <1>6 DEF IsInjective
      <4>1. c \notin Range(s)
        BY <1>9 DEF Held
      <4>2. \A k \in 1 .. Len(s) : s[k] \in Range(s)
        BY <1>6 DEF Range
      <4>3. /\ i \in 1 .. Len(s) \/ i = Len(s) + 1
            /\ j \in 1 .. Len(s) \/ j = Len(s) + 1
        BY <1>3
      <4>4. CASE i \in 1 .. Len(s) /\ j \in 1 .. Len(s)
        BY <1>6, <4>4 DEF HeldOnce, IsInjective
      <4> QED
        BY <1>6, <4>1, <4>2, <4>3, <4>4
    <3>2. c \notin Range(backlog[w])
      BY <1>9 DEF Held
    <3>3. /\ IsInjective(backlog[w]) /\ Range(s) \cap Range(backlog[w]) = {}
      BY DEF HeldOnce
    <3> QED
      BY <1>6, <1>8, <1>11, <2>1, <3>1, <3>2, <3>3
  <2>2. CASE v = h
    <3>1. sockets'[h] = sockets[h] /\ backlog'[h] = q
      BY <1>3, <1>8
    <3>2. IsInjective(sockets[h]) /\ Range(sockets[h]) \cap Range(backlog[h]) = {}
      BY <1>3 DEF HeldOnce
    <3>3. c \notin Range(sockets[h])
      BY <1>3, <1>9 DEF Held
    <3> QED
      BY <1>10, <2>2, <3>1, <3>2, <3>3
  <2>3. CASE v \notin {w, h}
    BY <1>8, <2>3 DEF HeldOnce
  <2> QED
    BY <2>1, <2>2, <2>3
<1>16. RootFirst'
  <2> SUFFICES ASSUME NEW v \in Workers
               PROVE  /\ InOrder(backlog'[v])
                      /\ sockets'[v] # <<>> /\ sockets'[v][1].from = Root =>
                           \A d \in Held(v)' : sockets'[v][1].id <= d.id
    BY DEF RootFirst
  <2>1. InOrder(backlog'[v])
    BY <1>8, <1>10, <1>11 DEF RootFirst
  <2>2. ASSUME sockets'[v] # <<>>, sockets'[v][1].from = Root, NEW d \in Held(v)'
        PROVE  sockets'[v][1].id <= d.id
    <3>1. sockets[v] # <<>> /\ sockets'[v][1] = sockets[v][1]
      <4>1. CASE v = w
        <5>1. Len(s) >= 1
          BY <1>2, RangeIn
        <5>2. list[1] = s[1]
          BY <1>3, <1>6, <5>1
        <5> QED
          BY <1>2, <1>8, <4>1, <5>2
      <4>2. CASE v # w
        BY <1>8, <2>2, <4>2
      <4> QED
        BY <4>1, <4>2
    <3>2. CASE d \in Held(v)
      BY <2>2, <3>1, <3>2 DEF RootFirst
    <3>3. CASE d = c /\ v = w
      <4>1. s[1].id = session[w]
        BY <1>2 DEF Conn
      <4> QED
        BY <1>2, <1>4, <3>1, <3>3, <4>1
    <3>4. CASE d = c /\ v = h
      <4>1. sockets[h][1] \in RootConns(h) /\ w \in 1 .. h - 1
        BY <1>3, <1>5, <2>2, <3>1, <3>4, RangeIn, BringUpAssumption DEF RootConns, Held, Workers
      <4>2. session[w] = 0 \/ sockets[h][1].id <= session[w]
        BY <1>3, <4>1 DEF LowerLeft
      <4> QED
        BY <1>2, <1>4, <3>1, <3>4, <4>2
    <3> QED
      BY <1>12, <2>2, <3>2, <3>3, <3>4
  <2> QED
    BY <2>1, <2>2
<1>17. Reached' = Reached /\ Answered' = Answered
  BY <1>1 DEF Reached, Answered, RootConn, rootVars
<1>18. \A v \in Workers : RootConns(v)' \subseteq RootConns(v)
  BY <1>4, <1>12 DEF RootConns
<1>19. FromReached'
  <2>1. c.id = attempt => w \in Reached
    BY <1>2, <1>4 DEF FromReached
  <2>2. ASSUME NEW v \in Workers, NEW d \in Held(v)', d.id = attempt
        PROVE  (IF d.from = Root THEN d.to ELSE d.from) \in Reached
    <3>1. CASE d = c
      BY <1>4, <2>1, <2>2, <3>1
    <3>2. CASE d \in Held(v)
      BY <2>2, <3>2 DEF FromReached
    <3> QED
      BY <1>12, <3>1, <3>2
  <2> QED
    BY <1>1, <1>17, <2>2 DEF FromReached
<1>20. AnsweredAll'
  <2> SUFFICES ASSUME NEW v \in Answered
               PROVE  session[v] \in {0, attempt} /\ \A d \in RootConns(v)' : d.id = attempt
    BY <1>1, <1>17 DEF AnsweredAll
  <2>1. v \in Workers
    BY DEF Answered
  <2> QED
    BY <1>18, <2>1 DEF AnsweredAll
<1>21. LowerLeft'
  <2> SUFFICES ASSUME NEW v \in Workers, NEW d \in RootConns(v)', NEW u \in 1 .. v - 1
               PROVE  /\ session[u] = 0 \/ d.id <= session[u]
                      /\ \A e \in RootConns(u)' : d.id <= e.id
    BY <1>1 DEF LowerLeft
  <2>1. u \in Workers
    BY BringUpAssumption DEF Workers
  <2> QED
    BY <1>18, <2>1 DEF LowerLeft
<1>22. \A u \in Workers : Unanswered(u)' \subseteq Unanswered(u)
  <2> SUFFICES ASSUME NEW u \in Workers, NEW e \in Unanswered(u)'
               PROVE  e \in Unanswered(u)
    OBVIOUS
  <2>1. /\ e.from = Root
        /\ \/ e \in Range(backlog'[u])
           \/ pc'[u] = "hello" /\ e \in Range(sockets'[u])
    BY DEF Unanswered
  <2>2. CASE e \in Range(backlog'[u])
    BY <1>4, <1>12, <2>1, <2>2 DEF Unanswered
  <2>3. CASE pc'[u] = "hello" /\ e \in Range(sockets'[u])
    BY <1>8, <2>1, <2>3 DEF Unanswered
  <2> QED
    BY <2>1, <2>2, <2>3
<1>23. NeverAgain'
  <2> SUFFICES ASSUME NEW v \in Workers, NEW d \in Held(v)', d.from # Root,
                      NEW e \in Unanswered(d.from)'
               PROVE  d.id < e.id
    BY DEF NeverAgain
  <2>1. CASE d \in Held(v)
    <3>1. d.from \in Workers
      BY <2>1, ConnsHeld
    <3> QED
      BY <1>22, <2>1, <3>1 DEF NeverAgain
  <2>2. CASE d = c
    <3>1. e \in Unanswered(w)
      BY <1>4, <1>22, <2>2
    <3>2. e \in Range(backlog[w]) /\ e.from = Root
      BY <1>1, <3>1 DEF Unanswered
    <3>3. e \in Held(w) /\ e \in Conns /\ e.to = w /\ e.id \in 1 .. attempt
      BY <3>2, ConnsHeld DEF Held
    <3>4. s[1].id = session[w] /\ s[1].from = Root /\ s[1] \in Range(s)
      BY <1>2, RangeIn DEF Conn
    <3>5. session[w] <= e.id
      BY <1>2, <3>3, <3>4 DEF RootFirst
    <3>6. e.id # session[w]
      <4>1. e.id = session[w] => e = Conn(Root, session[w], w)
        BY <3>2, <3>3 DEF Conn, Conns
      <4>2. e # s[1]
        BY <3>2, <3>4 DEF HeldOnce
      <4> QED
        BY <1>2, <4>1, <4>2
    <3> QED
      BY <1>2, <1>4, <2>2, <3>3, <3>5, <3>6
  <2> QED
    BY <1>12, <2>1, <2>2
<1>24. Connected'
  <2> SUFFICES ASSUME NEW v \in Workers, NEW d \in Held(v)', d.from # Root,
                      session[d.from] # 0, d.id = session[d.from]
               PROVE  d.to <= Len(sockets'[d.from])
    BY <1>1 DEF Connected
  <2>1. CASE d = c
    <3>1. Len(sockets'[w]) = h
      BY <1>3, <1>6, <1>8
    <3> QED
      BY <1>3, <1>4, <2>1, <3>1, BringUpAssumption DEF Workers
  <2>2. CASE d \in Held(v)
    <3>1. d.from \in Workers /\ d.to \in Int
      BY <2>2, ConnsHeld, BringUpAssumption DEF Workers
    <3>2. d.to <= Len(sockets[d.from])
      BY <2>2 DEF Connected
    <3>3. Len(sockets[d.from]) \in Nat
      BY <1>5, <3>1
    <3>4. Len(sockets[d.from]) <= Len(sockets'[d.from]) /\ Len(sockets'[d.from]) \in Nat
      <4>1. CASE d.from = w
        BY <1>3, <1>6, <1>8, <4>1
      <4>2. CASE d.from # w
        BY <1>8, <3>1, <3>3, <4>2
      <4> QED
        BY <4>1, <4>2
    <3> QED
      BY <3>1, <3>2, <3>3, <3>4
  <2> QED
    BY <1>12, <2>1, <2>2
<1> QED
  BY <1>13, <1>14, <1>15, <1>16, <1>19, <1>20, <1>21, <1>23, <1>24

-----------------------------------------------------------------------------
(* The invariant.                                                          *)

LEMMA InitHolds == Init => IInv
<1> SUFFICES ASSUME Init PROVE IInv
  OBVIOUS
<1> USE DEF Init
<1>1. Range(<<>>) = {} /\ IsInjective(<<>>) /\ InOrder(<<>>) /\ <<>> \in Seq(Conns)
  BY DEF Range, IsInjective, InOrder
<1>2. \A w \in Workers : Held(w) = {} /\ RootConns(w) = {}
  BY <1>1 DEF Held, RootConns
<1>3. 1 \in Workers
  BY BringUpAssumption DEF Workers
<1>4. Basics
  <2>1. session \in [Workers -> 0 .. attempt] /\ attempt \in 0 .. MaxAttempts
    BY BringUpAssumption
  <2>2. sockets \in [Workers -> Seq(Conns)] /\ backlog \in [Workers -> Seq(Conns)]
    BY <1>1
  <2>3. pc \in [Workers -> {"closed", "accept", "hello", "waitReady", "peers", "up"}]
    OBVIOUS
  <2>4. wire \subseteq Conns \X {"hello", "ack", "ready"} /\ \A p \in wire : FALSE
    OBVIOUS
  <2>5. \A w \in Workers : \A c \in Held(w) : c.id <= attempt
    BY <1>2
  <2> QED
    BY <1>3, <2>1, <2>2, <2>3, <2>4, <2>5 DEF Basics
<1>5. Indexed /\ HeldOnce /\ RootFirst
  BY <1>1, <1>2 DEF Indexed, IndexedAt, HeldOnce, RootFirst
<1>6. FromReached /\ AnsweredAll /\ LowerLeft
  <2>1. Answered = {}
    BY DEF Answered
  <2> QED
    BY <1>2, <2>1 DEF FromReached, AnsweredAll, LowerLeft
<1>7. NeverAgain /\ Connected
  BY <1>2 DEF NeverAgain, Connected
<1> QED
  BY <1>4, <1>5, <1>6, <1>7 DEF IInv

LEMMA StepKeeps == IInv /\ [Next]_vars => IInv'
<1> SUFFICES ASSUME IInv, [Next]_vars PROVE IInv'
  OBVIOUS
<1>1. CASE RootStart
  BY <1>1, RootStartKeeps
<1>2. CASE RootConnect
  <2>1. CASE Listening(rootNext)
    BY <1>2, <2>1, RootConnectKeeps
  <2>2. CASE ~Listening(rootNext)
    BY <1>2, <2>2, RootRefused
  <2> QED
    BY <2>1, <2>2
<1>3. CASE RootHello \/ RootReadAck \/ RootReady
  BY <1>3, RootMovesOn
<1>4. CASE RootFails \/ RootKilled
  BY <1>4, RootDownKeeps DEF RootFails, RootKilled
<1>5. ASSUME NEW w \in Workers, Relisten(w)
      PROVE  IInv'
  BY <1>5, RelistenKeeps
<1>6. ASSUME NEW w \in Workers, AcceptRoot(w)
      PROVE  IInv'
  BY <1>6, AcceptRootKeeps
<1>7. ASSUME NEW w \in Workers, ReadHello(w)
      PROVE  IInv'
  BY <1>7, ReadHelloKeeps
<1>8. ASSUME NEW w \in Workers, ReadReady(w)
      PROVE  IInv'
  BY <1>8, ReadReadyKeeps
<1>9. ASSUME NEW w \in Workers, AcceptPeer(w)
      PROVE  IInv'
  BY <1>9, AcceptPeerKeeps
<1>10. ASSUME NEW w \in Workers, ConnectPeer(w)
       PROVE  IInv'
  BY <1>10, ConnectPeerKeeps
<1>11. ASSUME NEW w \in Workers, PeerRefuses(w) \/ LosesRoot(w) \/ LosesPeer(w)
       PROVE  IInv'
  <2>1. EndSession(w) /\ UNCHANGED <<rootVars, workerKilled>>
    BY <1>11 DEF PeerRefuses, LosesRoot, LosesPeer
  <2> QED
    BY <2>1, EndSessionKeeps DEF IInv, Basics
<1>12. ASSUME NEW w \in Workers, WorkerKilled(w)
       PROVE  IInv'
  BY <1>12, EndSessionKeeps DEF WorkerKilled
<1>13. CASE UNCHANGED vars
  <2>1. UNCHANGED <<attempt, rootPc, rootNext, pc, session, sockets, backlog, wire, workerKilled>>
    BY <1>13 DEF vars, rootVars
  <2>2. /\ \A v : Held(v)' = Held(v)
        /\ \A v : RootConns(v)' = RootConns(v)
        /\ \A v : Unanswered(v)' = Unanswered(v)
    BY <2>1 DEF Held, RootConns, Unanswered
  <2>3. Basics'
    BY <2>1, <2>2 DEF IInv, Basics
  <2>4. Reached' = Reached /\ Answered' = Answered
    BY <2>1 DEF Reached, Answered, RootConn, Conn
  <2>5. rootPc = "down" => Reached = Workers /\ Answered = {}
    BY DEF Reached, Answered
  <2> QED
    BY <2>1, <2>3, <2>4, <2>5, RootMoves
<1> QED
  BY <1>1, <1>2, <1>3, <1>4, <1>5, <1>6, <1>7, <1>8, <1>9, <1>10, <1>11, <1>12, <1>13
     DEF Next, RootStep, WorkerStep

-----------------------------------------------------------------------------
(* What follows from it.                                                   *)

LEMMA Typed == IInv => TypeOK
<1> SUFFICES ASSUME IInv PROVE TypeOK
  OBVIOUS
<1> USE DEF IInv
<1>1. attempt \in 0 .. MaxAttempts /\ session \in [Workers -> 0 .. MaxAttempts]
  <2>1. attempt \in 0 .. MaxAttempts /\ session \in [Workers -> 0 .. attempt]
    BY DEF Basics
  <2>2. 0 .. attempt \subseteq 0 .. MaxAttempts
    BY <2>1, BringUpAssumption
  <2> QED
    BY <2>1, <2>2
<1>2. ASSUME NEW w \in Workers
      PROVE  /\ Len(sockets[w]) <= NWorkers
             /\ Range(sockets[w]) \cup Range(backlog[w]) \subseteq {c \in Conns : c.from < c.to}
             /\ Range(sockets[w]) \cap Range(backlog[w]) = {}
  <2>1. Len(sockets[w]) <= NWorkers
    <3>1. pc[w] \in {"closed", "accept"} => Len(sockets[w]) = 0
      BY DEF Indexed, IndexedAt
    <3>2. pc[w] \in {"hello", "waitReady"} => Len(sockets[w]) = 1
      BY DEF Indexed, IndexedAt
    <3>3. pc[w] \in {"peers", "up"} => Len(sockets[w]) <= NWorkers
      <4>1. sockets[w] \in Seq(Conns)
        BY DEF Basics
      <4> QED
        BY <4>1, BringUpAssumption DEF Indexed, IndexedAt
    <3>4. pc[w] \in {"closed", "accept", "hello", "waitReady", "peers", "up"}
      BY DEF Basics
    <3>5. 0 <= NWorkers /\ 1 <= NWorkers
      BY BringUpAssumption
    <3> HIDE DEF IInv
    <3> QED
      BY ONLY <3>1, <3>2, <3>3, <3>4, <3>5
  <2>2. Range(sockets[w]) \cup Range(backlog[w]) \subseteq {c \in Conns : c.from < c.to}
    BY ConnsHeld DEF Held
  <2> QED
    BY <2>1, <2>2 DEF HeldOnce
<1> QED
  BY <1>1, <1>2 DEF TypeOK, Basics

\* As many sockets as there are lower workers, from lower workers, no two from
\* the same one: there is one from each.
LEMMA OneFromEach ==
  ASSUME NEW w \in Nat \ {0}, NEW f, f \in [2 .. w -> 1 .. w - 1],
         \A i, j \in 2 .. w : f[i] = f[j] => i = j
  PROVE  \A u \in 1 .. w - 1 : \E i \in 2 .. w : f[i] = u
<1> DEFINE g == [i \in 1 .. w - 1 |-> f[i + 1]]
<1>1. \A i \in 1 .. w - 1 : i + 1 \in 2 .. w /\ g[i] = f[i + 1]
  OBVIOUS
<1>2. g \in [1 .. w - 1 -> 1 .. w - 1]
  BY <1>1
<1>3. \A i, j \in 1 .. w - 1 : g[i] = g[j] => i = j
  BY <1>1
<1>4. IsFiniteSet(1 .. w - 1)
  BY FS_Interval, w - 1 \in Int, 1 \in Int
<1> HIDE DEF g
<1>5. g \in Surjection(1 .. w - 1, 1 .. w - 1)
  <2>1. g \in Injection(1 .. w - 1, 1 .. w - 1)
    BY <1>2, <1>3 DEF Injection, IsInjective
  <2> QED
    BY <1>4, <2>1, FS_Injection
<1>6. \A u \in 1 .. w - 1 : \E i \in 1 .. w - 1 : g[i] = u
  BY <1>5 DEF Surjection
<1> QED
  BY <1>1, <1>6


LEMMA AllMet == IInv => OneSocketPerNode
<1> SUFFICES ASSUME IInv, NEW w \in Workers, Joined(w)
             PROVE  /\ \A i \in DOMAIN sockets[w] : sockets[w][i].id = attempt
                    /\ {IF c.from = w THEN c.to ELSE c.from : c \in Range(sockets[w])}
                         = (Root .. NWorkers) \ {w}
  BY DEF OneSocketPerNode
<1>1. w \in Nat \ {0} /\ w <= NWorkers /\ NWorkers \in Nat \ {0}
  BY BringUpAssumption DEF Workers
<1>2. attempt \in Nat \ {0} /\ session[w] = attempt /\ pc[w] = "up"
  BY BringUpAssumption DEF IInv, Basics, Joined
<1>3. sockets[w] \in Seq(Conns)
  BY DEF IInv, Basics
<1>4. DOMAIN sockets[w] = 1 .. NWorkers /\ \A k \in 1 .. NWorkers : sockets[w][k] \in Conns
  <2>1. Len(sockets[w]) = NWorkers
    BY <1>2 DEF IInv, Indexed, IndexedAt
  <2> QED
    BY <1>3, <2>1
<1>5. sockets[w][1] = Conn(Root, attempt, w)
  BY <1>2 DEF IInv, Indexed, IndexedAt
<1>6. \A k \in 1 .. NWorkers :
        IF k <= w THEN sockets[w][k].to = w /\ sockets[w][k].from < w
                  ELSE sockets[w][k] = Conn(w, attempt, k)
  BY <1>2, <1>4 DEF IInv, Indexed, IndexedAt
<1>7. ASSUME NEW k \in 1 .. NWorkers
      PROVE  sockets[w][k].id = attempt
  <2>1. sockets[w][k] \in Held(w)
    BY <1>4 DEF Held, Range
  <2>2. sockets[w][k].id <= attempt
    BY <2>1 DEF IInv, Basics
  <2>3. sockets[w][1].from = Root /\ sockets[w][1].id = attempt
    BY <1>5 DEF Conn
  <2>4. sockets[w] # <<>>
    BY <1>4, <1>1
  <2>5. attempt <= sockets[w][k].id
    BY <2>1, <2>3, <2>4 DEF IInv, RootFirst
  <2>6. sockets[w][k].id \in Int
    BY <1>4, BringUpAssumption DEF Conns
  <2> QED
    BY ONLY <1>2, <2>2, <2>5, <2>6
<1>8. \A j, k \in 1 .. NWorkers : sockets[w][j] = sockets[w][k] => j = k
  BY <1>4 DEF IInv, HeldOnce, IsInjective
<1>9. ASSUME NEW j \in 1 .. w, NEW k \in 1 .. w, sockets[w][j].from = sockets[w][k].from
      PROVE  j = k
  <2>1. j \in 1 .. NWorkers /\ k \in 1 .. NWorkers
    BY <1>1
  <2>2. sockets[w][j] \in Conns /\ sockets[w][k] \in Conns
    BY <1>4, <2>1
  <2>3. sockets[w][j].to = w /\ sockets[w][k].to = w
    BY <1>6, <2>1
  <2>4. sockets[w][j].id = attempt /\ sockets[w][k].id = attempt
    BY <1>7, <2>1
  <2>5. sockets[w][j] = sockets[w][k]
    BY <1>9, <2>2, <2>3, <2>4 DEF Conns
  <2> QED
    BY <1>8, <2>1, <2>5
<1>10. ASSUME NEW k \in 2 .. w
       PROVE  sockets[w][k].from \in 1 .. w - 1
  <2>1. k \in 1 .. NWorkers /\ k \in 1 .. w /\ 1 \in 1 .. w /\ k # 1
    BY <1>1
  <2>2. sockets[w][k].from \in Root .. NWorkers /\ sockets[w][k].from < w
    BY <1>4, <1>6, <2>1 DEF Conns
  <2>3. sockets[w][1].from = Root
    BY <1>5 DEF Conn
  <2>4. sockets[w][k].from # Root
    BY <1>9, <2>1, <2>3
  <2> QED
    BY <1>1, <2>2, <2>4 DEF Root
<1>11. ASSUME NEW u \in 1 .. w - 1
       PROVE  \E i \in 2 .. w : sockets[w][i].from = u
  <2> DEFINE f == [i \in 2 .. w |-> sockets[w][i].from]
  <2>1. f \in [2 .. w -> 1 .. w - 1]
    BY <1>10
  <2>2. \A i, j \in 2 .. w : f[i] = f[j] => i = j
    <3>1. \A i \in 2 .. w : i \in 1 .. w
      OBVIOUS
    <3> QED
      BY <1>9, <3>1
  <2> HIDE DEF f
  <2>3. PICK i \in 2 .. w : f[i] = u
    <3>1. w \in Nat \ {0}
      BY <1>1
    <3>2. \A v \in 1 .. w - 1 : \E i \in 2 .. w : f[i] = v
      BY ONLY ZenonT(60), <2>1, <2>2, <3>1, OneFromEach
    <3> QED
      BY <3>2
  <2> QED
    BY <2>3 DEF f
<1> DEFINE Other(c) == IF c.from = w THEN c.to ELSE c.from
<1>12. ASSUME NEW k \in 1 .. NWorkers
       PROVE  Other(sockets[w][k]) \in (Root .. NWorkers) \ {w}
  <2>1. CASE k <= w
    <3>1. sockets[w][k].from < w /\ sockets[w][k].from \in Root .. NWorkers
      BY <1>4, <1>6, <2>1 DEF Conns
    <3> QED
      BY <1>1, <3>1 DEF Root
  <2>2. CASE ~(k <= w)
    <3>1. sockets[w][k] = Conn(w, attempt, k)
      BY <1>6, <2>2
    <3>2. Conn(w, attempt, k).from = w /\ Conn(w, attempt, k).to = k
      BY DEF Conn
    <3> QED
      BY <1>1, <2>2, <3>1, <3>2 DEF Root
  <2> QED
    BY <2>1, <2>2
<1>13. ASSUME NEW n \in (Root .. NWorkers) \ {w}
       PROVE  \E k \in 1 .. NWorkers : Other(sockets[w][k]) = n
  <2>1. CASE n = Root
    <3>1. sockets[w][1].from = Root /\ Root # w
      BY <1>1, <1>5 DEF Conn, Root
    <3> QED
      BY <1>1, <2>1, <3>1
  <2>2. CASE n \in 1 .. w - 1
    <3>1. PICK i \in 2 .. w : sockets[w][i].from = n
      BY <1>11, <2>2
    <3> QED
      BY <1>1, <2>2, <3>1
  <2>3. CASE n > w
    <3>1. n \in 1 .. NWorkers /\ ~(n <= w)
      BY <1>1, <2>3 DEF Root
    <3>2. sockets[w][n] = Conn(w, attempt, n)
      BY <1>6, <3>1
    <3>3. Conn(w, attempt, n).from = w /\ Conn(w, attempt, n).to = n
      BY DEF Conn
    <3> QED
      BY <3>1, <3>2, <3>3
  <2> QED
    BY <1>1, <2>1, <2>2, <2>3 DEF Root
<1>14. Range(sockets[w]) = {sockets[w][k] : k \in 1 .. NWorkers}
  BY <1>4 DEF Range
<1> QED
  BY <1>4, <1>7, <1>12, <1>13, <1>14

\* The types of NnNetwork::connect and NnNetwork::serve: a connection leads to
\* a node with a higher index, no socket list is longer than the number of the
\* other nodes, and what was accepted is no longer queued.
THEOREM TypeCorrect == Spec => []TypeOK
<1>1. IInv /\ [Next]_vars => IInv'
  BY StepKeeps
<1> QED
  BY <1>1, InitHolds, Typed, PTL DEF Spec

\* The mesh that NnNetwork::connect and NnNetwork::serve build is complete and
\* of one attempt: a worker that is up in a session of the running root has
\* exactly one socket for each other node, however many roots and workers died
\* before.
THEOREM OneSocketEach == Spec => []OneSocketPerNode
<1>1. IInv /\ [Next]_vars => IInv'
  BY StepKeeps
<1> QED
  BY <1>1, InitHolds, AllMet, PTL DEF Spec

=============================================================================
