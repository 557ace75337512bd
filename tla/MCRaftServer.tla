---------------------------- MODULE MCRaftServer ----------------------------
(* Model checking of RaftServer: a bound on the messages in flight, symmetry *)
EXTENDS RaftServer, TLC

CONSTANT MaxInFlight

ServerSymmetry == Permutations(Server)
InFlightBound == Cardinality(net) <= MaxInFlight
=============================================================================
