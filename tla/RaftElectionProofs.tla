------------------------- MODULE RaftElectionProofs -------------------------
(***************************************************************************)
(* With a state_mgr that saves, RaftServer implements Election, and so it  *)
(* elects at most one leader per term.  The inductive invariant says what  *)
(* the code relies on and never states: a vote once cast is remembered in  *)
(* term_ and voted_for_ until the term is left behind, every granting      *)
(* response in flight stands for such a vote, and a candidate counts no    *)
(* more votes than the servers it heard from have cast for it.             *)
(***************************************************************************)
EXTENDS RaftServerProofs

\* A voter's term_ and voted_for_ recall every vote of its current term.
VotesRemembered ==
  \A v, c \in Server, t \in Term : <<v, t, c>> \in votes =>
    t <= term[v] /\ (t = term[v] => voted_for[v] = c)

\* A granting response in flight reports a vote that was cast.
ResponsesBacked ==
  \A m \in net : m.type = "vote_response" /\ m.accepted =>
    <<m.src, m.term, m.dst>> \in votes

\* The servers i heard from in its term that did vote for it
Granted(i) == {v \in voted_servers[i] : <<v, term[i], i>> \in votes}
CountBacked == \A i \in Server : votes_granted[i] <= Cardinality(Granted(i))

IInv == TypeOK /\ VotesRemembered /\ ResponsesBacked /\ CountBacked

-----------------------------------------------------------------------------
(* Sets of voters *)

LEMMA ServersFinite ==
  ASSUME NEW S \in SUBSET Server
  PROVE  IsFiniteSet(S) /\ Cardinality(S) \in Nat
BY ServerAssumption, FS_Subset, FS_CardinalityType

\* A count survives any step that keeps the term and the servers heard from.
LEMMA CountKept ==
  ASSUME TypeOK, CountBacked, votes \subseteq votes', NEW i \in Server,
         term'[i] = term[i], voted_servers'[i] = voted_servers[i],
         votes_granted'[i] = votes_granted[i]
  PROVE  votes_granted'[i] <= Cardinality(Granted(i)')
<1>1. Granted(i) \subseteq Granted(i)'
  BY DEF Granted
<1>2. Granted(i)' \in SUBSET Server
  BY DEF Granted, TypeOK, ServerTypes
<1>3. Cardinality(Granted(i)) <= Cardinality(Granted(i)')
  BY <1>1, <1>2, ServersFinite, FS_Subset
<1>4. /\ votes_granted[i] \in Nat /\ Cardinality(Granted(i)) \in Nat
      /\ Cardinality(Granted(i)') \in Nat
  BY <1>1, <1>2, ServersFinite DEF TypeOK, ServerTypes
<1>5. QED
  BY <1>3, <1>4 DEF CountBacked

\* The instance of Election counts with the same Cardinality.
LEMMA SameCardinality == \A S : Promise!Cardinality(S) = Cardinality(S)
BY DEF Promise!Cardinality, Cardinality

\* More votes counted than Half are the votes of a majority.
LEMMA WinnersVoters ==
  ASSUME TypeOK', NEW i \in Server, NEW n \in Nat, Wins(n),
         n <= Cardinality(Granted(i)')
  PROVE  Promise!Majority(Promise!Voters(votes', term'[i], i))
<1> DEFINE V == Promise!Voters(votes', term'[i], i)
<1>1. V \in SUBSET Server /\ Granted(i)' \in SUBSET V
  BY DEF Promise!Voters, Granted, TypeOK, ServerTypes
<1>2. Cardinality(Granted(i)') <= Cardinality(V)
  BY <1>1, ServersFinite, FS_Subset
<1>3. Cardinality(V) \in Nat /\ Cardinality(Granted(i)') \in Nat /\ Half \in Nat
  BY <1>1, ServersFinite, ServerCount
<1>4. Promise!Majority(V) <=> Cardinality(V) > Half
  BY SameCardinality DEF Promise!Majority, Half
<1>5. QED
  BY <1>2, <1>3, <1>4 DEF Wins

-----------------------------------------------------------------------------
(* Steps that touch the election, one lemma each; the rest in Bystander *)

\* What a step leaves alone that neither votes, campaigns nor counts: votes are
\* untouched, a term only rises and with it a count falls to zero, and no vote
\* is reported.
Bystander ==
  /\ UNCHANGED <<votes, elections>>
  /\ \A v \in Server :
       \/ /\ term'[v] = term[v] /\ voted_for'[v] = voted_for[v]
          /\ \/ /\ votes_granted'[v] = votes_granted[v]
                /\ voted_servers'[v] = voted_servers[v]
             \/ votes_granted'[v] = 0
       \/ term'[v] > term[v] /\ votes_granted'[v] = 0
  /\ \A m \in net' : m.type = "vote_response" /\ m.accepted => m \in net

LEMMA BystanderKeeps ==
  ASSUME IInv, TypeOK', Bystander
  PROVE  IInv'
<1> USE DEF IInv
<1>1. term \in [Server -> Term] /\ term' \in [Server -> Term] /\ Term \subseteq Nat
  BY Bounds DEF TypeOK, ServerTypes, Term
<1>2. VotesRemembered'
  <2> SUFFICES ASSUME NEW v \in Server, NEW c \in Server, NEW t \in Term,
                      <<v, t, c>> \in votes'
               PROVE  t <= term'[v] /\ (t = term'[v] => voted_for'[v] = c)
    BY DEF VotesRemembered
  <2>1. t <= term[v] /\ (t = term[v] => voted_for[v] = c)
    BY DEF VotesRemembered, Bystander
  <2>2. \/ term'[v] = term[v] /\ voted_for'[v] = voted_for[v]
        \/ term'[v] > term[v]
    BY DEF Bystander
  <2>3. t \in Nat /\ term[v] \in Nat /\ term'[v] \in Nat
    BY <1>1
  <2>4. QED
    BY <2>1, <2>2, <2>3
<1>3. ResponsesBacked'
  BY DEF ResponsesBacked, Bystander
<1>4. CountBacked'
  <2> SUFFICES ASSUME NEW i \in Server
               PROVE  votes_granted'[i] <= Cardinality(Granted(i)')
    BY DEF CountBacked
  <2>1. CASE votes_granted'[i] = 0
    <3>1. Granted(i)' \in SUBSET Server
      BY DEF Granted, TypeOK, ServerTypes
    <3>2. QED
      BY <2>1, <3>1, ServersFinite
  <2>2. CASE votes_granted'[i] # 0
    BY <2>2, <1>1, CountKept DEF Bystander
  <2>3. QED
    BY <2>1, <2>2
<1>5. QED
  BY <1>2, <1>3, <1>4

LEMMA AppendReqKind ==
  \A i, p, t, lg, n, commit :
    AppendReq(i, p, t, lg, n, commit).type = "append_entries_request"
BY DEF AppendReq

\* request_append_entries sends no responses to votes.
LEMMA RequestAppendEntriesMessages ==
  ASSUME NEW i, NEW P, NEW rest, NEW lg, NEW nx, NEW bz, NEW qc,
         RequestAppendEntries(i, P, rest, lg, nx, bz, qc)
  PROVE  \A m \in net' : m.type = "vote_response" => m \in rest
<1> DEFINE start == [p \in Server |->
                      IF p \in {r \in P : ~bz[r]} /\ nx[p] = 0
                      THEN Len(lg) + 1 ELSE nx[p]]
<1>1. \E Q : net' = rest \cup {AppendReq(i, p, term[i], lg, start[p], qc) : p \in Q}
  BY Zenon DEF RequestAppendEntries
<1> HIDE DEF start
<1>2. QED
  BY <1>1, AppendReqKind

LEMMA BecomeLeaderMessages ==
  ASSUME NEW i, NEW t, NEW rest, BecomeLeader(i, t, rest)
  PROVE  \A m \in net' : m.type = "vote_response" => m \in rest
<1> SUFFICES ASSUME NEW m \in net', m \notin rest
             PROVE  m.type = "append_entries_request"
  OBVIOUS
<1>1. \E p, lg, n, commit : m = AppendReq(i, p, t, lg, n, commit)
  BY DEF BecomeLeader
<1>2. QED
  BY <1>1, AppendReqKind

\* update_term by itself: the vote is forgotten only together with its term.
LEMMA UpdateTermKeeps ==
  ASSUME TypeOK, NEW i \in Server, NEW t \in Term, UpdateTerm(i, t),
         voted_for' = [voted_for EXCEPT ![i] = VotedFor(i, t)]
  PROVE  \A v \in Server :
           \/ /\ term'[v] = term[v] /\ voted_for'[v] = voted_for[v]
              /\ votes_granted'[v] = votes_granted[v]
              /\ voted_servers'[v] = voted_servers[v]
           \/ term'[v] > term[v] /\ votes_granted'[v] = 0
BY DEF UpdateTerm, VotedFor, TypeOK, ServerTypes

LEMMA HandleAppendEntriesBystander ==
  ASSUME TypeOK, NEW m \in net, HandleAppendEntries(m)
  PROVE  Bystander
<1>1. m.dst \in Server /\ m.term \in Term
  BY MessageMembers DEF TypeOK, HandleAppendEntries
<1>2. \A n \in net' : n.type = "vote_response" => n \in net
  BY DEF HandleAppendEntries, Reply
<1>3. /\ UpdateTerm(m.dst, m.term)
      /\ voted_for' = [voted_for EXCEPT ![m.dst] = VotedFor(m.dst, m.term)]
      /\ UNCHANGED <<votes, elections>>
  BY DEF HandleAppendEntries, histVars
<1>4. QED
  BY <1>1, <1>2, <1>3, UpdateTermKeeps DEF Bystander

LEMMA HandleNewerTermRespBystander ==
  ASSUME TypeOK, NEW m \in net, HandleNewerTermResp(m)
  PROVE  Bystander
<1>1. m.dst \in Server /\ m.term \in Term
  BY MessageMembers DEF TypeOK, HandleNewerTermResp
<1>2. /\ UpdateTerm(m.dst, m.term)
      /\ voted_for' = [voted_for EXCEPT ![m.dst] = VotedFor(m.dst, m.term)]
      /\ UNCHANGED <<votes, elections>>
      /\ \A n \in net' : n.type = "vote_response" => n \in net
  BY DEF HandleNewerTermResp, histVars, VotedFor
<1>3. QED
  BY <1>1, <1>2, UpdateTermKeeps DEF Bystander

LEMMA HandleAppendEntriesRespBystander ==
  ASSUME NEW m \in net, HandleAppendEntriesResp(m)
  PROVE  Bystander
<1>1. /\ \E P, nx, bz, qc :
           RequestAppendEntries(m.dst, P, net \ {m}, log[m.dst], nx, bz, qc)
      /\ UNCHANGED <<stateVars, electionVars, histVars>>
  BY DEF HandleAppendEntriesResp
<1>2. \A n \in net' : n.type = "vote_response" => n \in net
  BY <1>1, RequestAppendEntriesMessages
<1>3. QED
  BY <1>1, <1>2 DEF Bystander, stateVars, electionVars, histVars

LEMMA HbTimeoutBystander ==
  ASSUME NEW i \in Server, NEW p \in Server, HbTimeout(i, p)
  PROVE  Bystander
<1>1. \A n \in net' : n.type = "vote_response" => n \in net
  BY RequestAppendEntriesMessages DEF HbTimeout
<1>2. QED
  BY <1>1 DEF HbTimeout, Bystander, stateVars, electionVars, histVars

LEMMA HandleCliReqMessages ==
  ASSUME NEW i, NEW rest, HandleCliReq(i, rest)
  PROVE  \A m \in net' : m.type = "vote_response" => m \in rest
BY RequestAppendEntriesMessages DEF HandleCliReq, ClientReq

LEMMA ClientRequestBystander ==
  ASSUME NEW i \in Server, ClientRequest(i)
  PROVE  Bystander
BY HandleCliReqMessages DEF ClientRequest, Bystander, stateVars, electionVars, histVars

LEMMA ForwardedRequestBystander ==
  ASSUME NEW m \in net, ForwardedRequest(m)
  PROVE  Bystander
BY HandleCliReqMessages
   DEF ForwardedRequest, Bystander, stateVars, electionVars, histVars

LEMMA CommitInBgBystander ==
  ASSUME NEW i \in Server, CommitInBg(i)
  PROVE  Bystander
BY DEF CommitInBg, Bystander, stateVars, electionVars

LEMMA RivalLeaderExitBystander ==
  ASSUME NEW m \in net, RivalLeaderExit(m)
  PROVE  Bystander
BY DEF RivalLeaderExit, Bystander, stateVars, electionVars, histVars

\* An error makes no response out of a request.
LEMMA RpcErrorBystander ==
  ASSUME TypeOK, NEW m \in net, RpcError(m)
  PROVE  Bystander
<1>1. IsRequest(m) => [m EXCEPT !.open = FALSE].type = m.type
  BY DEF TypeOK, Message, VoteRequest, AppendRequest, ClientMessage, IsRequest,
         VoteResponse, AppendResponse
<1>2. \A n \in net' : n.type = "vote_response" => n \in net
  BY <1>1 DEF RpcError, IsRequest
<1>3. QED
  BY <1>2 DEF RpcError, Bystander, stateVars, electionVars, histVars

\* A server that saved its term and its vote finds them again.
LEMMA RestartBystander ==
  ASSUME TypeOK, DurableState, NEW i \in Server, Restart(i)
  PROVE  Bystander
<1>1. \A m \in net : IsRequest(m) => [m EXCEPT !.open = FALSE].type = m.type
  BY DEF TypeOK, Message, VoteRequest, AppendRequest, ClientMessage, IsRequest,
         VoteResponse, AppendResponse
<1>2. \A n \in net' : n.type = "vote_response" => n \in net
  BY <1>1 DEF Restart, IsRequest
<1>3. /\ \A v \in Server : term'[v] = term[v] /\ voted_for'[v] = voted_for[v]
      /\ \A v \in Server : \/ /\ votes_granted'[v] = votes_granted[v]
                              /\ voted_servers'[v] = voted_servers[v]
                           \/ votes_granted'[v] = 0
  BY DEF Restart, TypeOK, ServerTypes
<1>4. QED
  BY <1>2, <1>3 DEF Restart, Bystander, histVars

-----------------------------------------------------------------------------
(* Votes, campaigns and counts: each is a step of Election *)

PromiseStep == Promise!Next \/ UNCHANGED <<votes, elections>>

\* A vote the code casts when nothing it remembers stands against it is a
\* vote Election allows.
LEMMA CastAllowed ==
  ASSUME VotesRemembered, NEW v \in Server, NEW t \in Term, NEW c \in Server,
         t >= term[v], t = term[v] => voted_for[v] \in {c, None},
         votes' = votes \cup {<<v, t, c>>}, TypeOK
  PROVE  Promise!Cast(v, t, c)
<1> SUFFICES ASSUME NEW d \in Server, <<v, t, d>> \in votes PROVE d = c
  BY DEF Promise!Cast
<1>1. t <= term[v] /\ (t = term[v] => voted_for[v] = d)
  BY DEF VotesRemembered
<1>2. t \in Nat /\ term[v] \in Nat
  BY Bounds DEF TypeOK, ServerTypes, Term
<1>3. voted_for[v] = d /\ voted_for[v] \in {c, None}
  BY <1>1, <1>2
<1>4. QED
  BY <1>3, ServerAssumption

\* The voter's own state recalls the vote it has just cast.
LEMMA CastRemembered ==
  ASSUME VotesRemembered, TypeOK, TypeOK',
         NEW v \in Server, NEW t \in Term, NEW c \in Server,
         t >= term[v], t = term[v] => voted_for[v] \in {c, None},
         votes' = votes \cup {<<v, t, c>>},
         term' = [term EXCEPT ![v] = t], voted_for' = [voted_for EXCEPT ![v] = c]
  PROVE  VotesRemembered'
<1> SUFFICES ASSUME NEW w \in Server, NEW d \in Server, NEW u \in Term,
                    <<w, u, d>> \in votes'
             PROVE  u <= term'[w] /\ (u = term'[w] => voted_for'[w] = d)
  BY DEF VotesRemembered
<1>1. u \in Nat /\ term[w] \in Nat /\ t \in Nat /\ Term \subseteq Nat
  BY Bounds DEF TypeOK, ServerTypes, Term
<1>2. /\ term'[w] = IF w = v THEN t ELSE term[w]
      /\ voted_for'[w] = IF w = v THEN c ELSE voted_for[w]
  BY DEF TypeOK, ServerTypes
<1>3. CASE <<w, u, d>> = <<v, t, c>>
  BY <1>1, <1>2, <1>3
<1>4. CASE <<w, u, d>> \in votes
  <2>1. u <= term[w] /\ (u = term[w] => voted_for[w] = d)
    BY <1>4 DEF VotesRemembered
  <2>2. CASE w # v
    BY <1>2, <2>1, <2>2
  <2>3. CASE w = v
    <3>1. u <= t
      BY <1>1, <2>1, <2>3
    <3>2. u = t => d = c
      BY <1>1, <2>1, <2>3, ServerAssumption
    <3>3. QED
      BY <1>2, <2>3, <3>1, <3>2
  <2>4. QED
    BY <2>2, <2>3
<1>5. QED
  BY <1>3, <1>4

LEMMA ElectionTimeoutStep ==
  ASSUME IInv, TypeOK', NEW i \in Server, ElectionTimeout(i)
  PROVE  IInv' /\ PromiseStep
<1> DEFINE t == term[i] + 1
<1> USE DEF IInv
<1>1. t \in Term /\ t \in Nat /\ t > term[i] /\ term[i] \in Nat
  BY Bounds DEF ElectionTimeout, TypeOK, ServerTypes, Term
<1>2. /\ term' = [term EXCEPT ![i] = t]
      /\ voted_for' = [voted_for EXCEPT ![i] = i]
      /\ votes' = votes \cup {<<i, t, i>>}
      /\ votes_granted' = [votes_granted EXCEPT ![i] = 1]
      /\ voted_servers' = [voted_servers EXCEPT ![i] = {i}]
  BY DEF ElectionTimeout
<1>3. \A m \in net' : m.type = "vote_response" => m \in net
  BY BecomeLeaderMessages DEF ElectionTimeout, VoteReq
<1> HIDE DEF t
<1>4. t >= term[i] /\ (t = term[i] => voted_for[i] \in {i, None})
  BY <1>1
<1>5. VotesRemembered'
  BY <1>1, <1>2, <1>4, CastRemembered
<1>6. ResponsesBacked'
  BY <1>2, <1>3 DEF ResponsesBacked
<1>7. Granted(i)' = {i} /\ term'[i] = t /\ votes_granted'[i] = 1
  BY <1>2 DEF Granted, TypeOK, ServerTypes
<1>8. 1 <= Cardinality(Granted(i)')
  BY <1>7, FS_Singleton
<1>9. CountBacked'
  <2> SUFFICES ASSUME NEW j \in Server
               PROVE  votes_granted'[j] <= Cardinality(Granted(j)')
    BY DEF CountBacked
  <2>1. CASE j = i
    BY <1>7, <1>8, <2>1
  <2>2. CASE j # i
    BY <1>2, <2>2, CountKept DEF TypeOK, ServerTypes
  <2>3. QED
    BY <2>1, <2>2
<1>10. Promise!Cast(i, t, i)
  BY <1>1, <1>2, <1>4, CastAllowed
<1>11. UNCHANGED elections \/ Promise!Elect(t, i)
  <2>1. CASE Wins(1) /\ BecomeLeader(i, t, net)
    <3>1. Promise!Majority(Promise!Voters(votes', term'[i], i))
      BY <1>8, <2>1, WinnersVoters
    <3>2. QED
      BY <1>7, <2>1, <3>1 DEF BecomeLeader, Promise!Elect
  <2>2. CASE UNCHANGED elections
    BY <2>2
  <2>3. QED
    BY <2>1, <2>2 DEF ElectionTimeout, t
<1>12. PromiseStep
  BY <1>1, <1>10, <1>11 DEF PromiseStep, Promise!Next
<1>13. QED
  BY <1>5, <1>6, <1>9, <1>12

LEMMA HandleVoteReqStep ==
  ASSUME IInv, TypeOK', NEW m \in net, HandleVoteReq(m)
  PROVE  IInv' /\ PromiseStep
<1> DEFINE i == m.dst
           grant == /\ m.term >= term[i]
                    /\ VoteLogOkay(i, m)
                    /\ VotedFor(i, m.term) \in {m.src, None}
<1> USE DEF IInv
<1>1. /\ i \in Server /\ m.src \in Server /\ m.term \in Term
      /\ term[i] \in Nat /\ m.term \in Nat
  <2>1. m.type = "vote_request" /\ m \in Message
    BY DEF HandleVoteReq, TypeOK
  <2>2. i \in Server /\ m.src \in Server /\ m.term \in Term
    BY <2>1, MessageMembers
  <2>3. QED
    BY <2>2, Bounds DEF TypeOK, ServerTypes, Term
<1>2. /\ UpdateTerm(i, m.term)
      /\ voted_for' = [voted_for EXCEPT ![i] =
                         IF grant THEN m.src ELSE VotedFor(i, m.term)]
      /\ votes' = IF grant THEN votes \cup {<<i, m.term, m.src>>} ELSE votes
      /\ net' = Reply(m, [type |-> "vote_response",
                          term |-> Larger(term[i], m.term),
                          src |-> i, dst |-> m.src, accepted |-> grant])
      /\ UNCHANGED elections
  BY DEF HandleVoteReq
<1>3. CASE ~grant
  <2>1. voted_for' = [voted_for EXCEPT ![i] = VotedFor(i, m.term)]
    BY <1>2, <1>3
  <2>2. \A v \in Server :
           \/ /\ term'[v] = term[v] /\ voted_for'[v] = voted_for[v]
              /\ votes_granted'[v] = votes_granted[v]
              /\ voted_servers'[v] = voted_servers[v]
           \/ term'[v] > term[v] /\ votes_granted'[v] = 0
    BY <1>1, <1>2, <2>1, UpdateTermKeeps
  <2>3. \A n \in net' : n.type = "vote_response" /\ n.accepted => n \in net
    BY <1>2, <1>3 DEF Reply
  <2>4. UNCHANGED <<votes, elections>>
    BY <1>2, <1>3
  <2>5. IInv'
    BY <2>2, <2>3, <2>4, BystanderKeeps DEF Bystander
  <2>6. QED
    BY <2>4, <2>5 DEF PromiseStep
<1>4. CASE grant
  <2>1. /\ m.term >= term[i]
        /\ m.term = term[i] => voted_for[i] \in {m.src, None}
    BY <1>1, <1>4 DEF VotedFor
  <2>2. /\ votes' = votes \cup {<<i, m.term, m.src>>}
        /\ voted_for' = [voted_for EXCEPT ![i] = m.src]
        /\ term' = [term EXCEPT ![i] = m.term]
    <3>1. term' = [term EXCEPT ![i] = IF m.term > term[i] THEN m.term ELSE term[i]]
      BY <1>2 DEF UpdateTerm
    <3>2. (IF m.term > term[i] THEN m.term ELSE term[i]) = m.term
      BY <1>1, <2>1
    <3>3. QED
      BY <1>2, <1>4, <3>1, <3>2
  <2>3. Promise!Cast(i, m.term, m.src)
    BY <1>1, <2>1, <2>2, CastAllowed
  <2>4. VotesRemembered'
    BY <1>1, <2>1, <2>2, CastRemembered
  <2>5. ResponsesBacked'
    <3>1. Larger(term[i], m.term) = m.term
      BY <1>1, <2>1 DEF Larger
    <3>2. QED
      BY <1>2, <1>4, <2>2, <3>1 DEF ResponsesBacked, Reply
  <2>6. CountBacked'
    <3> SUFFICES ASSUME NEW j \in Server
                 PROVE  votes_granted'[j] <= Cardinality(Granted(j)')
      BY DEF CountBacked
    <3>1. CASE j # i \/ m.term = term[i]
      BY <1>1, <1>2, <2>2, <3>1, CountKept DEF UpdateTerm, TypeOK, ServerTypes
    <3>2. CASE j = i /\ m.term # term[i]
      <4>1. votes_granted'[j] = 0
        <5>1. m.term > term[i]
          BY <1>1, <2>1, <3>2
        <5>2. votes_granted' = [votes_granted EXCEPT ![i] = 0]
          BY <1>2, <5>1 DEF UpdateTerm
        <5>3. QED
          BY <1>1, <3>2, <5>2 DEF TypeOK, ServerTypes
      <4>2. Granted(j)' \in SUBSET Server
        BY DEF Granted, TypeOK, ServerTypes
      <4>3. QED
        BY <4>1, <4>2, ServersFinite
    <3>3. QED
      BY <3>1, <3>2
  <2>7. QED
    BY <1>1, <1>2, <2>3, <2>4, <2>5, <2>6 DEF PromiseStep, Promise!Next
<1>5. QED
  BY <1>3, <1>4

LEMMA HandleVotingRespStep ==
  ASSUME IInv, TypeOK', NEW m \in net, HandleVotingResp(m)
  PROVE  IInv' /\ PromiseStep
<1> DEFINE i == m.dst
           granted == votes_granted[i] + (IF m.accepted THEN 1 ELSE 0)
           voted == voted_servers[i] \cup {m.src}
<1> USE DEF IInv
<1>1. /\ i \in Server /\ m.src \in Server /\ m.type = "vote_response"
      /\ m.accepted \in BOOLEAN /\ term[i] \in Term
      /\ votes_granted[i] \in Nat /\ voted_servers[i] \in SUBSET Server
  BY MessageMembers DEF TypeOK, ServerTypes, HandleVotingResp
<1>2. /\ UNCHANGED <<stateVars, votes>>
      /\ \A n \in net' : n.type = "vote_response" => n \in net
  BY BecomeLeaderMessages DEF HandleVotingResp
<1>3. VotesRemembered' /\ ResponsesBacked'
  BY <1>2 DEF VotesRemembered, ResponsesBacked, stateVars
<1>4. CASE UNCHANGED <<electionVars, elections>>
  <2>1. CountBacked'
    BY <1>2, <1>4 DEF CountBacked, Granted, electionVars, stateVars
  <2>2. QED
    BY <1>2, <1>3, <1>4, <2>1 DEF PromiseStep
<1>5. CASE /\ m.term = term[i] /\ m.src \notin voted_servers[i]
           /\ votes_granted' = [votes_granted EXCEPT ![i] = granted]
           /\ voted_servers' = [voted_servers EXCEPT ![i] = voted]
           /\ \/ Wins(granted) /\ BecomeLeader(i, term[i], net \ {m})
              \/ UNCHANGED elections
  <2>1. /\ votes_granted'[i] = granted /\ voted_servers'[i] = voted
        /\ term' = term /\ votes' = votes /\ granted \in Nat
    BY <1>1, <1>2, <1>5 DEF TypeOK, ServerTypes, stateVars
  <2>2. Granted(i)' = Granted(i) \cup (IF <<m.src, term[i], i>> \in votes
                                       THEN {m.src} ELSE {})
    BY <2>1 DEF Granted
  <2>3. granted <= Cardinality(Granted(i)')
    <3>1. IsFiniteSet(Granted(i)) /\ Cardinality(Granted(i)) \in Nat
      BY <1>1, ServersFinite DEF Granted
    <3>2. m.src \notin Granted(i)
      BY <1>5 DEF Granted
    <3>3. Cardinality(Granted(i) \cup {m.src}) = Cardinality(Granted(i)) + 1
      BY <3>1, <3>2, FS_AddElement
    <3>4. m.accepted => <<m.src, term[i], i>> \in votes
      BY <1>1, <1>5 DEF ResponsesBacked
    <3>5. votes_granted[i] <= Cardinality(Granted(i))
      BY <1>1 DEF CountBacked
    <3>6. CASE <<m.src, term[i], i>> \in votes
      BY <1>1, <2>2, <3>1, <3>3, <3>5, <3>6
    <3>7. CASE <<m.src, term[i], i>> \notin votes
      <4>1. Granted(i)' = Granted(i)
        BY <2>2, <3>7
      <4>2. granted = votes_granted[i]
        BY <1>1, <3>4, <3>7
      <4>3. QED
        BY <3>5, <4>1, <4>2
    <3>8. QED
      BY <3>6, <3>7
  <2>4. CountBacked'
    <3> SUFFICES ASSUME NEW j \in Server
                 PROVE  votes_granted'[j] <= Cardinality(Granted(j)')
      BY DEF CountBacked
    <3>1. CASE j = i
      BY <2>1, <2>3, <3>1
    <3>2. CASE j # i
      BY <1>5, <2>1, <3>2, CountKept DEF TypeOK, ServerTypes
    <3>3. QED
      BY <3>1, <3>2
  <2>5. CASE Wins(granted) /\ BecomeLeader(i, term[i], net \ {m})
    <3>1. Promise!Majority(Promise!Voters(votes', term'[i], i))
      <4> HIDE DEF granted
      <4>1. QED
        BY <1>1, <2>1, <2>3, <2>5, WinnersVoters
    <3>2. Promise!Elect(term[i], i)
      BY <2>1, <2>5, <3>1 DEF BecomeLeader, Promise!Elect
    <3>3. PromiseStep
      BY <1>1, <2>1, <3>2 DEF PromiseStep, Promise!Next
    <3>4. QED
      BY <1>3, <2>4, <3>3
  <2>6. CASE UNCHANGED elections
    BY <1>3, <2>1, <2>4, <2>6 DEF PromiseStep
  <2>7. QED
    BY <1>5, <2>5, <2>6
<1>6. QED
  BY <1>4, <1>5 DEF HandleVotingResp

-----------------------------------------------------------------------------
(* Every step, and the theorems *)

LEMMA InitIInv == Init => IInv
<1>1. ASSUME Init PROVE CountBacked
  <2>1. \A i \in Server : votes_granted[i] = 0 /\ Granted(i) \in SUBSET Server
    BY <1>1 DEF Init, Granted
  <2>2. QED
    BY <2>1, ServersFinite DEF CountBacked
<1>2. QED
  BY <1>1, InitType DEF Init, IInv, VotesRemembered, ResponsesBacked

LEMMA BystanderStep ==
  ASSUME IInv, TypeOK', Bystander
  PROVE  IInv' /\ PromiseStep
BY BystanderKeeps DEF Bystander, PromiseStep

LEMMA NextIInv ==
  ASSUME DurableState
  PROVE  IInv /\ [Next]_vars => IInv' /\ PromiseStep
<1> SUFFICES ASSUME IInv, [Next]_vars PROVE IInv' /\ PromiseStep
  OBVIOUS
<1>1. TypeOK /\ TypeOK'
  BY NextType DEF IInv
<1>2. CASE UNCHANGED vars
  <2>1. Bystander
    BY <1>2 DEF Bystander, vars, stateVars, electionVars, histVars
  <2>2. QED
    BY <1>1, <2>1, BystanderStep
<1>3. ASSUME NEW i \in Server, ElectionTimeout(i) PROVE IInv' /\ PromiseStep
  BY <1>1, <1>3, ElectionTimeoutStep
<1>4. ASSUME NEW i \in Server, ClientRequest(i) PROVE IInv' /\ PromiseStep
  BY <1>1, <1>4, ClientRequestBystander, BystanderStep
<1>5. ASSUME NEW i \in Server, CommitInBg(i) PROVE IInv' /\ PromiseStep
  BY <1>1, <1>5, CommitInBgBystander, BystanderStep
<1>6. ASSUME NEW i \in Server, Restart(i) PROVE IInv' /\ PromiseStep
  BY <1>1, <1>6, RestartBystander, BystanderStep
<1>7. ASSUME NEW i \in Server, NEW p \in Server, HbTimeout(i, p)
      PROVE  IInv' /\ PromiseStep
  BY <1>1, <1>7, HbTimeoutBystander, BystanderStep
<1>8. ASSUME NEW m \in net, RpcError(m) PROVE IInv' /\ PromiseStep
  BY <1>1, <1>8, RpcErrorBystander, BystanderStep
<1>9. ASSUME NEW m \in net, Deliver(m) PROVE IInv' /\ PromiseStep
  <2>1. CASE HandleVoteReq(m)
    BY <1>1, <2>1, HandleVoteReqStep
  <2>2. CASE HandleVotingResp(m)
    BY <1>1, <2>2, HandleVotingRespStep
  <2>3. CASE HandleAppendEntries(m)
    BY <1>1, <2>3, HandleAppendEntriesBystander, BystanderStep
  <2>4. CASE RivalLeaderExit(m)
    BY <1>1, <2>4, RivalLeaderExitBystander, BystanderStep
  <2>5. CASE HandleAppendEntriesResp(m)
    BY <1>1, <2>5, HandleAppendEntriesRespBystander, BystanderStep
  <2>6. CASE HandleNewerTermResp(m)
    BY <1>1, <2>6, HandleNewerTermRespBystander, BystanderStep
  <2>7. CASE ForwardedRequest(m)
    BY <1>1, <2>7, ForwardedRequestBystander, BystanderStep
  <2>8. QED
    BY <1>9, <2>1, <2>2, <2>3, <2>4, <2>5, <2>6, <2>7 DEF Deliver
<1>10. QED
  BY <1>2, <1>3, <1>4, <1>5, <1>6, <1>7, <1>8, <1>9 DEF Next

\* With a state_mgr that saves term and vote, the whole vote exchange, messages,
\* failures and restarts included, implements the abstract election.
THEOREM Refinement == DurableState => (Spec => ImplementsElection)
<1> SUFFICES ASSUME DurableState PROVE Spec => ImplementsElection
  OBVIOUS
<1>1. Init => Promise!Init
  BY DEF Init, Promise!Init
<1>2. IInv /\ [Next]_vars => IInv' /\ [Promise!Next]_<<votes, elections>>
  BY NextIInv DEF PromiseStep
<1>3. QED
  BY <1>1, <1>2, InitIInv, PTL DEF Spec, ImplementsElection, Promise!Spec

\* What is proved of Election holds of the votes and elections here.
PromiseProofs == INSTANCE ElectionProofs

\* At most one server is elected in a term, so two leaders never meet: the exit
\* in handle_append_entries is unreachable with a state_mgr that saves.
THEOREM OneRaftLeader == DurableState => (Spec => []ElectionSafety)
<1> SUFFICES ASSUME DurableState PROVE Spec => []ElectionSafety
  OBVIOUS
<1>1. Promise!Init => PromiseProofs!Init
  BY DEF Promise!Init, PromiseProofs!Init
<1>2. [Promise!Next]_<<votes, elections>> => [PromiseProofs!Next]_<<votes, elections>>
  <2>1. \A S : Promise!Majority(S) <=> PromiseProofs!Majority(S)
    BY DEF Promise!Majority, PromiseProofs!Majority, Promise!Cardinality,
           PromiseProofs!Cardinality
  <2>2. Promise!Next => PromiseProofs!Next
    BY <2>1 DEF Promise!Next, PromiseProofs!Next, Promise!Cast, PromiseProofs!Cast,
       Promise!Elect, PromiseProofs!Elect, Promise!Voters, PromiseProofs!Voters
  <2>3. QED
    BY <2>2
<1>3. PromiseProofs!OneLeaderPerTerm => ElectionSafety
  BY DEF PromiseProofs!OneLeaderPerTerm, ElectionSafety
<1>4. Spec => PromiseProofs!Spec
  BY <1>1, <1>2, Refinement, PTL DEF ImplementsElection, Promise!Spec,
     PromiseProofs!Spec
<1>5. PromiseProofs!ElectionAssumption
  BY ServerAssumption, Bounds DEF PromiseProofs!ElectionAssumption,
     PromiseProofs!IsFiniteSet, IsFiniteSet, Term
<1>6. PromiseProofs!Spec => []PromiseProofs!OneLeaderPerTerm
  BY <1>5, PromiseProofs!OneLeader
<1>7. QED
  BY <1>3, <1>4, <1>6, PTL
=============================================================================
