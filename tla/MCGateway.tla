----------------------------- MODULE MCGateway -----------------------------
(* Gateway for TLC: the slots of requests are interchangeable.             *)
EXTENDS Gateway, TLC

RequestSymmetry == Permutations(Requests)

=============================================================================
