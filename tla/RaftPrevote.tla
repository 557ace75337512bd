---------------------------- MODULE RaftPrevote ----------------------------
(***************************************************************************)
(* Prevote: before a follower whose election timer has gone off raises its *)
(* term it asks the others whether they would vote for it.  The votes      *)
(* themselves are RaftServer's, and here only what they do to the terms    *)
(* and roles.  No entry is appended meanwhile; Rank compares the logs.     *)
(***************************************************************************)
EXTENDS Integers, FiniteSets

CONSTANTS
  Server,
  Rank,       \* how up to date the log of each server is
  MaxTerm, MaxSteps, MaxLate   \* bounds: terms; rounds and lost messages together;
                               \* messages in flight when a round begins

\* A server that is alone in its cluster asks nobody.
PrevoteAssumption == IsFiniteSet(Server) /\ Cardinality(Server) > 1 /\ MaxTerm \in Nat

VARIABLES
  term, role,
  round,      \* prevote_state_: off, or the voters and the votes accepted so far
  armed,      \* the election timer runs
  defensive,  \* defensive_prevote_
  net,
  granted,    \* history: <<voter, candidate, term>>, both being in that term
  unheard,    \* history: <<voter, candidate>> of which in this round a message was
              \* lost or an answer of another term came
  steps       \* used up of the bound

serverVars == <<term, role, round, armed>>
vars == <<serverVars, defensive, net, granted, unheard, steps>>

Majority == Cardinality(Server) \div 2 + 1
Off == [on |-> FALSE, voters |-> {}, accepted |-> 0]
Empty == [Off EXCEPT !.on = TRUE]
Round == [on : BOOLEAN, voters : SUBSET Server, accepted : 0 .. Cardinality(Server)]

Request == [type : {"request"}, src : Server, dst : Server, term : 0 .. MaxTerm]
Response == [type : {"response"}, src : Server, dst : Server, term : 0 .. MaxTerm,
             accepted : BOOLEAN]

TypeOK ==
  /\ term \in [Server -> 0 .. MaxTerm]
  /\ role \in [Server -> {"follower", "candidate", "leader"}]
  /\ round \in [Server -> Round] /\ armed \in [Server -> BOOLEAN]
  /\ defensive \in BOOLEAN
  /\ net \subseteq Request \cup Response
  /\ granted \subseteq Server \X Server \X (0 .. MaxTerm) /\ unheard \subseteq Server \X Server
  /\ steps \in 0 .. MaxSteps

\* All are followers in one term, or one has just gone on to the next.
Init ==
  /\ \E C \in SUBSET Server :
       /\ Cardinality(C) <= 1
       /\ term = [s \in Server |-> IF s \in C THEN 1 ELSE 0]
       /\ role = [s \in Server |-> IF s \in C THEN "candidate" ELSE "follower"]
  /\ round = [s \in Server |-> Off] /\ armed = [s \in Server |-> TRUE]
  /\ defensive \in BOOLEAN
  /\ net = {} /\ granted = {} /\ unheard = {} /\ steps = 0

\* become_candidate, in a cluster of more than one server
BecomeCandidate(s) ==
  /\ term[s] < MaxTerm
  /\ term' = [term EXCEPT ![s] = @ + 1] /\ role' = [role EXCEPT ![s] = "candidate"]
  /\ round' = [round EXCEPT ![s] = Off] /\ armed' = [armed EXCEPT ![s] = TRUE]

BecomeFollower(s) ==
  /\ role' = [role EXCEPT ![s] = "follower"]
  /\ round' = [round EXCEPT ![s] = Off] /\ armed' = [armed EXCEPT ![s] = TRUE]

\* handle_election_timeout: a follower asks, or waits for the round that is on; a
\* candidate has asked before.
ElectionTimeout(s) ==
  /\ armed[s] /\ UNCHANGED <<defensive, granted>>
  /\ \/ /\ role[s] = "candidate"
        /\ BecomeCandidate(s) /\ UNCHANGED <<net, unheard, steps>>
     \/ /\ role[s] = "follower" /\ round[s].voters # {}
        /\ armed' = [armed EXCEPT ![s] = FALSE] /\ UNCHANGED <<term, role, round, net, unheard, steps>>
     \/ /\ role[s] = "follower" /\ round[s].voters = {}
        /\ term[s] < MaxTerm /\ Cardinality(net) <= MaxLate
        /\ steps < MaxSteps /\ steps' = steps + 1
        /\ armed' = [armed EXCEPT ![s] = FALSE]
        /\ round' = [round EXCEPT ![s] = [on |-> TRUE, voters |-> {s},
                                          accepted |-> round[s].accepted + 1]]
        /\ net' = net \cup {[type |-> "request", src |-> s, dst |-> v, term |-> term[s]] :
                              v \in Server \ {s}}
        /\ unheard' = {u \in unheard : u[2] # s}
        /\ UNCHANGED <<term, role>>

\* handle_prevote_req changes nothing.  In defensive mode prevote_state_ must exist,
\* be it empty.
HandlePrevoteReq(m) ==
  LET v == m.dst
      grant == /\ m.term >= term[v] /\ Rank[m.src] >= Rank[v]
               /\ defensive => round[v].on IN
  /\ m.type = "request"
  /\ net' = (net \ {m}) \cup {[type |-> "response", src |-> v, dst |-> m.src,
                               term |-> term[v], accepted |-> grant]}
  /\ granted' = IF grant /\ m.term = term[v]
                THEN granted \cup {<<v, m.src, m.term>>} ELSE granted
  /\ UNCHANGED <<serverVars, defensive, unheard, steps>>

\* An answer that comes twice, or when prevote_state_ is gone, does not count; nor
\* does one of another term, not even as a refusal.
IgnoredDespiteTerm(m) ==   \* mutant: the term is not compared
  ~round[m.dst].on \/ m.src \in round[m.dst].voters
Ignored(m) ==
  m.term # term[m.dst] \/ ~round[m.dst].on \/ m.src \in round[m.dst].voters

FailedNever(r) == Cardinality(r.voters) > Cardinality(Server)   \* mutant: > for >=
Failed(r) == r.voters = Server

GiveUpForGood(s) ==   \* mutant: the timer is not restarted
  round' = [round EXCEPT ![s] = Empty] /\ UNCHANGED armed
GiveUp(s) ==
  round' = [round EXCEPT ![s] = Empty] /\ armed' = [armed EXCEPT ![s] = TRUE]

\* handle_prevote_resp
HandlePrevoteResp(m) ==
  LET s == m.dst
      r == [on |-> TRUE, voters |-> round[s].voters \cup {m.src},
            accepted |-> round[s].accepted + (IF m.accepted THEN 1 ELSE 0)] IN
  /\ m.type = "response"
  /\ net' = net \ {m} /\ UNCHANGED <<defensive, granted, steps>>
  /\ unheard' = IF m.term # term[s] THEN unheard \cup {<<m.src, s>>} ELSE unheard
  /\ \/ Ignored(m) /\ UNCHANGED serverVars
     \/ ~Ignored(m) /\ r.accepted >= Majority /\ BecomeCandidate(s)
     \/ /\ ~Ignored(m) /\ r.accepted < Majority /\ UNCHANGED <<term, role>>
        /\ IF Failed(r) THEN GiveUp(s)
           ELSE round' = [round EXCEPT ![s] = r] /\ UNCHANGED armed

\* update_term, on a request for a vote, append entries or an answer to them
UpdateTerm(s) ==
  /\ \E c \in Server : /\ role[c] # "follower" /\ term[c] > term[s]
                       /\ term' = [term EXCEPT ![s] = term[c]]
  /\ BecomeFollower(s)
  /\ UNCHANGED <<defensive, net, granted, unheard, steps>>

\* become_leader, once in a term
BecomeLeader(s) ==
  /\ role[s] = "candidate" /\ \A c \in Server : role[c] = "leader" => term[c] # term[s]
  /\ role' = [role EXCEPT ![s] = "leader"] /\ armed' = [armed EXCEPT ![s] = FALSE]
  /\ UNCHANGED <<term, round, defensive, net, granted, unheard, steps>>

\* handle_append_entries
HearFromLeader(s) ==
  /\ role[s] # "leader"
  /\ \E c \in Server : role[c] = "leader" /\ term[c] = term[s]
  /\ IF role[s] = "candidate" THEN BecomeFollower(s)
     ELSE armed' = [armed EXCEPT ![s] = TRUE] /\ UNCHANGED <<role, round>>
  /\ UNCHANGED <<term, defensive, net, granted, unheard, steps>>

\* handle_ext_resp_err does nothing about a prevote_request.
Lose(m) ==
  /\ steps < MaxSteps /\ steps' = steps + 1
  /\ unheard' = unheard \cup {IF m.type = "request" THEN <<m.dst, m.src>>
                            ELSE <<m.src, m.dst>>}
  /\ net' = net \ {m} /\ UNCHANGED <<serverVars, defensive, granted>>

Next ==
  \/ \E m \in net : HandlePrevoteReq(m) \/ HandlePrevoteResp(m) \/ Lose(m)
  \/ \E s \in Server : \/ ElectionTimeout(s) \/ UpdateTerm(s) \/ BecomeLeader(s)
                       \/ HearFromLeader(s)

Spec == Init /\ [][Next]_vars

-----------------------------------------------------------------------------
\* A server raises its term only when more than half of the servers, in the same
\* term as the server, would vote for it: what a late answer of an earlier term
\* could break (handle_prevote_resp).
CandidateHadMajority ==
  [][\A s \in Server :
       role[s] = "follower" /\ role'[s] = "candidate"
       => Cardinality({v \in Server : v = s \/ <<v, s, term[s]>> \in granted}) >= Majority]_vars

\* A server that does not lead waits for its timer or for a round to end.
NeverIdle ==
  \A s \in Server : role[s] # "leader" => armed[s] \/ round[s].voters # {}

\* A round that a server has begun waits for the answer of another, which is on its
\* way, lost, or from another term.  (Answers of another term are ignored, and one
\* that comes after the round has failed starts a round without the server's own
\* vote: either may leave a server waiting for ever.)
RoundGoesOn ==
  \A s \in Server : s \in round[s].voters =>
    \E v \in Server \ round[s].voters :
      \/ <<v, s>> \in unheard
      \/ \E m \in net :
           \/ m.type = "request" /\ m.src = s /\ m.dst = v
           \/ m.type = "response" /\ m.src = v /\ m.dst = s
=============================================================================
