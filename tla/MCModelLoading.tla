--------------------------- MODULE MCModelLoading ---------------------------
\* A configuration with every count of zero and more in it.
EXTENDS ModelLoading, Slices

SmallNet  == [pipes |-> 2, preSyncs |-> 1]
SmallNode ==
  [buffers  |-> 1,
   segments |-> <<[syncs |-> 0, ops |-> <<>>], [syncs |-> 1, ops |-> <<TRUE, FALSE>>]>>]

\* The examples of the repository's own test (nn-cpu-ops-test.cpp:34).
ASSUME SplitThreadsTest ==
  /\ \A t \in 0 .. 2 : <<SplitStart(32, 3, t), SplitEnd(32, 3, t)>> =
                         <<<<0, 11>>, <<11, 22>>, <<22, 32>>>>[t + 1]
  /\ <<SplitStart(4, 8, 0), SplitEnd(4, 8, 0)>> = <<0, 1>>
  /\ <<SplitStart(4, 8, 3), SplitEnd(4, 8, 3)>> = <<3, 4>>
  /\ \A t \in {4, 7} : <<SplitStart(4, 8, t), SplitEnd(4, 8, t)>> = <<4, 4>>

\* Heads that the nodes do not divide: six key-value heads of 128 numbers on
\* four nodes pass the checks of app.cpp:1604 and of the slicers, and node 1
\* reads from the middle of a head.
ASSUME HeadsDoNotDivide ==
  /\ 4 <= 6 /\ (128 * 6) % 4 = 0 /\ (128 * 12) % 4 = 0 /\ 12 % 4 = 0
  /\ ((128 * 6) \div 4) % 2 = 0 /\ ((128 * 12) \div 4) % 2 = 0
  /\ KvRead(12, 6, 128, 4, 1, 0) # KvOwn(12, 6, 128, 4, 1, 0)
=============================================================================
