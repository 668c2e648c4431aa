----------------------------- MODULE MCRootApp -----------------------------
\* The programs of the root, one of them per behaviour: a driver of dllama or
\* the server of dllama-api.
EXTENDS Drivers, ApiServer

TokensOfContent == [c \in Contents |-> IF c = "a" THEN 1 ELSE 2]

Init ==
  \/ /\ DriversInit
     /\ cache = <<>> /\ messages = <<>> /\ params = NoParams /\ delta = <<>>
     /\ start = 0 /\ promptEnd = 0 /\ maxPred = 0
     /\ workers = "up" /\ unevaluated = FALSE
  \/ /\ ApiInit
     /\ prompt = <<>> /\ base = 0 /\ maxPos = 0 /\ reqs = <<>>
     /\ cursor = 1 /\ dialog = <<>>

Next ==
  \/ mode # "server" /\ DriversNext /\ UNCHANGED serverVars
  \/ mode = "server" /\ ApiNext /\ UNCHANGED driverVars

vars == <<contextVars, driverVars, serverVars>>

\* The steps of the programs, never the user's next line or the next client.
Progress ==
  \/ mode # "server" /\ DriversLoops /\ UNCHANGED serverVars
  \/ mode = "server" /\ Serve /\ UNCHANGED driverVars

FairSpec == Init /\ [][Next]_vars /\ WF_vars(Progress)

Resting == {"user", "accept", "done", "aborted", "terminated"}

\* Whatever was asked ends: the prefill comes to the end of the prompt for
\* every chunk size, every answer within the context, and the rounds of
\* continuous batching when the last request of the file is finished.
Ends == pc \notin Resting ~> pc \in Resting
=============================================================================
