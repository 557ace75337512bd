------------------------------ MODULE Election ------------------------------
(***************************************************************************)
(* What the vote exchange of raft_server promises, without messages, roles *)
(* or failures: a server votes at most once in a term, and a candidate is  *)
(* elected only on the votes of more than half of the servers.             *)
(***************************************************************************)
EXTENDS Integers, FiniteSets

CONSTANTS Server, Term

ElectionAssumption == IsFiniteSet(Server) /\ Term \subseteq Nat

VARIABLES
  votes,      \* <<voter, term, candidate>>: every vote ever cast
  elections   \* <<term, leader>>: every election ever won

Voters(vs, t, c) == {v \in Server : <<v, t, c>> \in vs}
Majority(S) == Cardinality(S) > Cardinality(Server) \div 2

Init == votes = {} /\ elections = {}

\* mutant: voted_for_ is not read
CastAgain(v, t, c) == votes' = votes \cup {<<v, t, c>>}
Cast(v, t, c) ==
  /\ \A d \in Server : <<v, t, d>> \in votes => d = c
  /\ votes' = votes \cup {<<v, t, c>>}

Elect(t, c) ==
  /\ Majority(Voters(votes', t, c))
  /\ elections' = elections \cup {<<t, c>>}

\* A vote, a won election, or (in a cluster of one) both at once
Next ==
  \E t \in Term, c \in Server :
    \/ UNCHANGED votes /\ Elect(t, c)
    \/ \E v \in Server : Cast(v, t, c) /\ (UNCHANGED elections \/ Elect(t, c))

Spec == Init /\ [][Next]_<<votes, elections>>

-----------------------------------------------------------------------------
TypeOK ==
  /\ votes \subseteq Server \X Term \X Server
  /\ elections \subseteq Term \X Server

\* Every election was won on the votes of a majority.
ElectedByMajority ==
  \A e \in elections : Majority(Voters(votes, e[1], e[2]))

\* No server votes for two candidates in a term: raft_server::handle_vote_req
\* compares voted_for_ before it grants.
VoteOnce ==
  \A x, y \in votes : x[1] = y[1] /\ x[2] = y[2] => x = y

\* No two servers are elected in a term, which is what
\* raft_server::handle_append_entries takes for granted when it exits.
OneLeaderPerTerm ==
  \A e, f \in elections : e[1] = f[1] => e = f
=============================================================================
