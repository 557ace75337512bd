---------------------------- MODULE MCMembership ----------------------------
(***************************************************************************)
(* Model checking of membership changes, with the founders other than the  *)
(* leader interchangeable, or of prevote among other servers, one of which *)
(* lacks an entry.                                                         *)
(***************************************************************************)
EXTENDS Membership, TLC

CONSTANTS Voter, Rank, MaxTerm, MaxSteps, MaxLate   \* RaftPrevote

VARIABLES
  part,
  term, role, round, armed, defensive, pv_net, granted, unheard, steps

Symmetry == Permutations(Founders \ {Leader})
\* No behaviour uses up both bounds.
TogetherBound == requests + errors + Cardinality(restarted) < MaxRequests + MaxFaults

MCRank == <<1, 1, 0>>

Pv == INSTANCE RaftPrevote WITH Server <- Voter, net <- pv_net

ASSUME VoterAssumption == Pv!PrevoteAssumption

pv_vars == <<term, role, round, armed, defensive, pv_net, granted, unheard, steps>>

EitherInit ==
  /\ Init /\ Pv!Init /\ part \in {"membership", "prevote"}
  /\ part = "membership" => ~defensive /\ \A s \in Voter : role[s] = "follower"

EitherNext ==
  \/ part = "membership" /\ Next /\ UNCHANGED <<part, pv_vars>>
  \/ part = "prevote" /\ Pv!Next /\ UNCHANGED <<part, vars>>

EitherSpec == EitherInit /\ [][EitherNext]_<<part, vars, pv_vars>>

-----------------------------------------------------------------------------
\* handle_prevote_resp makes no candidate without a majority of its term.
CandidateHadMajority == Pv!CandidateHadMajority
\* A failed round of prevote restarts the election timer.
NeverIdle == part = "prevote" => Pv!NeverIdle
\* A round of prevote waits for an answer, not for nothing.
RoundGoesOn == part = "prevote" => Pv!RoundGoesOn
=============================================================================
