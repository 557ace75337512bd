-------------------------- MODULE RaftLeaderProofs --------------------------
(***************************************************************************)
(* Who sends entries: every leader and every request for entries belongs   *)
(* to a won election of its term.  With one winner per term, no leader     *)
(* ever gets such a request of its own term, and an index and a term tell  *)
(* one entry and all before it, so that logs match.                        *)
(***************************************************************************)
EXTENDS RaftElectionProofs

LeaderElected ==
  \A i \in Server : role[i] = "leader" => <<term[i], i>> \in elections

\* Entries travel between different servers, and from elected leaders.
Elected(m, es) ==
  /\ IsAppend(m) => m.src # m.dst
  /\ m.type = "append_entries_request" => <<m.term, m.src>> \in es
AppendsElected == \A m \in net : Elected(m, elections)

LInv == TypeOK /\ LeaderElected /\ AppendsElected

-----------------------------------------------------------------------------
(* What is sent *)

LEMMA AppendReqElected ==
  ASSUME NEW i \in Server, NEW p \in Server, i # p, NEW t,
         NEW lg, NEW n, NEW commit, <<t, i>> \in elections'
  PROVE  Elected(AppendReq(i, p, t, lg, n, commit), elections')
BY DEF Elected, AppendReq, IsAppend

LEMMA ElectedKept ==
  ASSUME NEW m, Elected(m, elections), elections \subseteq elections'
  PROVE  Elected(m, elections')
BY DEF Elected, IsAppend

LEMMA RequestAppendEntriesElected ==
  ASSUME AppendsElected, UNCHANGED elections, NEW i \in Server,
         <<term[i], i>> \in elections, NEW P \in SUBSET Peers(i),
         NEW rest \in SUBSET net, NEW lg, NEW nx, NEW bz, NEW qc,
         RequestAppendEntries(i, P, rest, lg, nx, bz, qc)
  PROVE  AppendsElected'
<1> DEFINE start == [p \in Server |->
                      IF p \in {r \in P : ~bz[r]} /\ nx[p] = 0
                      THEN Len(lg) + 1 ELSE nx[p]]
<1>1. \E Q \in SUBSET P :
        net' = rest \cup {AppendReq(i, p, term[i], lg, start[p], qc) : p \in Q}
  <2> DEFINE free == {p \in P : ~bz[p]}
             over == {p \in free : start[p] > Len(lg) + 1}
  <2>1. CASE net' = rest \cup {AppendReq(i, p, term[i], lg, start[p], qc) : p \in free}
    <3>1. free \in SUBSET P
      OBVIOUS
    <3> HIDE DEF start, free
    <3>2. QED
      BY <2>1, <3>1
  <2>2. ASSUME NEW Q \in SUBSET (free \ over),
               net' = rest \cup {AppendReq(i, p, term[i], lg, start[p], qc) : p \in Q}
        PROVE  \E R \in SUBSET P :
                 net' = rest \cup {AppendReq(i, p, term[i], lg, start[p], qc) : p \in R}
    <3>1. Q \in SUBSET P
      OBVIOUS
    <3> HIDE DEF start
    <3>2. QED
      BY <2>2, <3>1
  <2>3. QED
    BY <2>1, <2>2, Zenon DEF RequestAppendEntries
<1> HIDE DEF start
<1>2. PICK Q \in SUBSET P :
        net' = rest \cup {AppendReq(i, p, term[i], lg, start[p], qc) : p \in Q}
  BY <1>1
<1>3. \A p \in Q : p \in Server /\ i # p
  BY DEF Peers
<1>4. \A p \in Q : Elected(AppendReq(i, p, term[i], lg, start[p], qc), elections')
  BY <1>3, AppendReqElected
<1>5. \A m \in rest : Elected(m, elections')
  BY ElectedKept DEF AppendsElected
<1>6. \A m \in net' : Elected(m, elections')
  BY <1>2, <1>4, <1>5
<1>7. QED
  BY <1>6 DEF AppendsElected

LEMMA BecomeLeaderElected ==
  ASSUME AppendsElected, NEW i \in Server, NEW t, NEW rest \in SUBSET net,
         BecomeLeader(i, t, rest)
  PROVE  AppendsElected'
<1>1. elections' = elections \cup {<<t, i>>}
  BY DEF BecomeLeader
<1>2. \E lg, n, commit :
        net' = rest \cup {AppendReq(i, p, t, lg, n, commit) : p \in Peers(i)}
  <2> DEFINE lg == IF conf_idx[i] = 0
                   THEN Append(log[i], [term |-> t, kind |-> "conf"]) ELSE log[i]
             n == Len(log[i]) + 1
             commit == quick_commit_idx[i]
  <2>1. net' = rest \cup {AppendReq(i, p, t, lg, n, commit) : p \in Peers(i)}
    BY DEF BecomeLeader
  <2> HIDE DEF lg, n, commit
  <2>2. QED
    BY <2>1
<1>3. \A p \in Peers(i) : p \in Server /\ i # p
  BY DEF Peers
<1>4. \A m \in rest : Elected(m, elections')
  BY <1>1, ElectedKept DEF AppendsElected
<1>5. \A p \in Peers(i) : \A lg, n, commit :
        Elected(AppendReq(i, p, t, lg, n, commit), elections')
  BY <1>1, <1>3, AppendReqElected
<1>6. \A m \in net' : Elected(m, elections')
  BY <1>2, <1>4, <1>5
<1>7. QED
  BY <1>6 DEF AppendsElected

\* A request whose caller is gone still comes from the same leader.
LEMMA ClosedElected ==
  ASSUME NEW m \in Message, IsRequest(m), Elected(m, elections), elections \subseteq elections'
  PROVE  Elected([m EXCEPT !.open = FALSE], elections')
<1> DEFINE c == [m EXCEPT !.open = FALSE]
<1>1. c.type = m.type /\ c.src = m.src /\ c.dst = m.dst
  BY DEF Message, VoteRequest, AppendRequest, ClientMessage, IsRequest,
         VoteResponse, AppendResponse
<1>2. m.type = "append_entries_request" => c.term = m.term
  BY DEF Message, VoteRequest, AppendRequest, ClientMessage,
         VoteResponse, AppendResponse
<1> HIDE DEF c
<1>3. Elected(c, elections')
  BY <1>1, <1>2 DEF Elected, IsAppend
<1>4. QED
  BY <1>3 DEF c

\* Steps that elect nobody leave a leader in its term or unseat it.
LEMMA LeadersKept ==
  ASSUME LeaderElected, UNCHANGED elections,
         \A i \in Server : role'[i] = "leader" =>
           role[i] = "leader" /\ term'[i] = term[i]
  PROVE  LeaderElected'
BY DEF LeaderElected

-----------------------------------------------------------------------------
(* One lemma per action *)

LEMMA ElectionTimeoutElected ==
  ASSUME LInv, NEW i \in Server, ElectionTimeout(i)
  PROVE  LeaderElected' /\ AppendsElected'
<1> DEFINE t == term[i] + 1
<1> USE DEF LInv
<1>1. /\ term' = [term EXCEPT ![i] = t] /\ role[i] # "leader"
      /\ \/ BecomeLeader(i, t, net)
         \/ /\ role' = [role EXCEPT ![i] = "candidate"]
            /\ net' = net \cup {VoteReq(i, p, t) : p \in Peers(i)}
            /\ UNCHANGED elections
  BY DEF ElectionTimeout
<1>2. CASE BecomeLeader(i, t, net)
  <2>1. LeaderElected'
    BY <1>1, <1>2 DEF BecomeLeader, LeaderElected, TypeOK, ServerTypes
  <2>2. net \in SUBSET net
    OBVIOUS
  <2> HIDE DEF t
  <2>3. QED
    BY <1>2, <2>1, <2>2, BecomeLeaderElected
<1>3. CASE /\ role' = [role EXCEPT ![i] = "candidate"]
           /\ net' = net \cup {VoteReq(i, p, t) : p \in Peers(i)}
           /\ UNCHANGED elections
  <2>1. LeaderElected'
    BY <1>1, <1>3, LeadersKept DEF TypeOK, ServerTypes
  <2>2. \A p : Elected(VoteReq(i, p, t), elections')
    BY DEF Elected, VoteReq, IsAppend
  <2>3. AppendsElected'
    BY <1>3, <2>2 DEF AppendsElected
  <2>4. QED
    BY <2>1, <2>3
<1>4. QED
  BY <1>1, <1>2, <1>3

LEMMA HandleVoteReqElected ==
  ASSUME LInv, NEW m \in net, HandleVoteReq(m)
  PROVE  LeaderElected' /\ AppendsElected'
<1> USE DEF LInv
<1>1. m.dst \in Server /\ m.term \in Term /\ UNCHANGED elections
  BY MessageMembers DEF TypeOK, HandleVoteReq
<1>2. LeaderElected'
  BY <1>1, LeadersKept DEF HandleVoteReq, UpdateTerm, TypeOK, ServerTypes
<1>3. \A n \in net' : n \in net \/ n.type = "vote_response"
  BY DEF HandleVoteReq, Reply
<1>4. AppendsElected'
  BY <1>1, <1>3 DEF AppendsElected, Elected, IsAppend
<1>5. QED
  BY <1>2, <1>4

LEMMA HandleVotingRespElected ==
  ASSUME LInv, NEW m \in net, HandleVotingResp(m)
  PROVE  LeaderElected' /\ AppendsElected'
<1> DEFINE i == m.dst
<1> USE DEF LInv
<1>1. i \in Server /\ UNCHANGED term
  BY MessageMembers DEF TypeOK, HandleVotingResp, stateVars
<1>2. CASE BecomeLeader(i, term[i], net \ {m})
  <2>1. LeaderElected'
    BY <1>1, <1>2 DEF BecomeLeader, LeaderElected, TypeOK, ServerTypes
  <2>2. net \ {m} \in SUBSET net
    OBVIOUS
  <2>3. QED
    BY <1>1, <1>2, <2>1, <2>2, BecomeLeaderElected
<1>3. CASE net' = net \ {m} /\ UNCHANGED <<role, elections>>
  BY <1>1, <1>3, LeadersKept DEF AppendsElected
<1>4. QED
  BY <1>2, <1>3 DEF HandleVotingResp

LEMMA HandleAppendEntriesElected ==
  ASSUME LInv, NEW m \in net, HandleAppendEntries(m)
  PROVE  LeaderElected' /\ AppendsElected'
<1> USE DEF LInv
<1>1. /\ m.dst \in Server /\ m.src # m.dst
      /\ m.term \in Term /\ UNCHANGED elections
  BY MessageMembers
     DEF TypeOK, HandleAppendEntries, histVars, AppendsElected, Elected, IsAppend
<1>2. LeaderElected'
  BY <1>1, Bounds, LeadersKept
     DEF HandleAppendEntries, UpdateTerm, TypeOK, ServerTypes, Term
<1>3. \A n \in net' : \/ n \in net
                      \/ /\ n.type = "append_entries_response"
                         /\ n.src = m.dst /\ n.dst = m.src
  BY DEF HandleAppendEntries, Reply
<1>4. AppendsElected'
  BY <1>1, <1>3 DEF AppendsElected, Elected, IsAppend
<1>5. QED
  BY <1>2, <1>4

LEMMA RivalLeaderExitElected ==
  ASSUME LInv, NEW m \in net, RivalLeaderExit(m)
  PROVE  LeaderElected' /\ AppendsElected'
BY LeadersKept DEF LInv, RivalLeaderExit, AppendsElected, stateVars, histVars

LEMMA HandleAppendEntriesRespElected ==
  ASSUME LInv, NEW m \in net, HandleAppendEntriesResp(m)
  PROVE  LeaderElected' /\ AppendsElected'
<1> DEFINE i == m.dst
<1> USE DEF LInv
<1>1. /\ i \in Server /\ m.src \in Peers(i) /\ net \ {m} \in SUBSET net
      /\ UNCHANGED <<term, role, elections>>
  BY MessageMembers DEF TypeOK, HandleAppendEntriesResp, Peers, stateVars, histVars,
     AppendsElected, Elected, IsAppend
<1>2. PICK P, nx, bz, qc :
        /\ P \in SUBSET Peers(i)
        /\ RequestAppendEntries(i, P, net \ {m}, log[i], nx, bz, qc)
        /\ role[i] = "leader" \/ P = {}
  BY <1>1 DEF HandleAppendEntriesResp
<1>3. CASE role[i] = "leader"
  <2>1. <<term[i], i>> \in elections
    BY <1>1, <1>3 DEF LeaderElected
  <2>2. AppendsElected'
    BY <1>1, <1>2, <2>1, RequestAppendEntriesElected
  <2>3. QED
    BY <1>1, <2>2, LeadersKept
<1>4. CASE P = {}
  <2>1. net' = net \ {m}
    BY <1>2, <1>4 DEF RequestAppendEntries
  <2>2. QED
    BY <1>1, <2>1, LeadersKept DEF AppendsElected
<1>5. QED
  BY <1>2, <1>3, <1>4

LEMMA HandleNewerTermRespElected ==
  ASSUME LInv, NEW m \in net, HandleNewerTermResp(m)
  PROVE  LeaderElected' /\ AppendsElected'
<1> USE DEF LInv
<1>1. m.dst \in Server
  BY MessageMembers DEF TypeOK
<1>2. LeaderElected'
  BY <1>1, LeadersKept
     DEF HandleNewerTermResp, UpdateTerm, TypeOK, ServerTypes, histVars
<1>3. QED
  BY <1>2 DEF HandleNewerTermResp, AppendsElected, histVars

LEMMA HbTimeoutElected ==
  ASSUME LInv, NEW i \in Server, NEW p \in Server, HbTimeout(i, p)
  PROVE  LeaderElected' /\ AppendsElected'
<1> USE DEF LInv
<1>1. /\ {p} \in SUBSET Peers(i) /\ net \in SUBSET net
      /\ <<term[i], i>> \in elections /\ UNCHANGED <<term, role, elections>>
  BY DEF HbTimeout, LeaderElected, stateVars, histVars
<1>2. RequestAppendEntries(i, {p}, net, log[i], next_log_idx[i], busy[i],
                           quick_commit_idx[i])
  BY DEF HbTimeout
<1>3. QED
  BY <1>1, <1>2, LeadersKept, RequestAppendEntriesElected

LEMMA HandleCliReqElected ==
  ASSUME LInv, NEW i \in Server, NEW rest \in SUBSET net, HandleCliReq(i, rest),
         UNCHANGED elections
  PROVE  AppendsElected'
<1> USE DEF LInv
<1>1. CASE /\ role[i] = "leader"
           /\ \E lg : RequestAppendEntries(i, Peers(i), rest, lg, next_log_idx[i],
                                           busy[i], quick_commit_idx[i])
  <2>1. <<term[i], i>> \in elections /\ Peers(i) \in SUBSET Peers(i)
    BY <1>1 DEF LeaderElected
  <2>2. QED
    BY <1>1, <2>1, RequestAppendEntriesElected
<1>2. CASE net' = rest
  BY <1>2 DEF AppendsElected
<1>3. CASE net' = rest \cup {ClientReq(i, leader_[i])}
  <2>1. Elected(ClientReq(i, leader_[i]), elections)
    BY DEF Elected, ClientReq, IsAppend
  <2>2. QED
    BY <1>3, <2>1 DEF AppendsElected
<1>4. QED
  BY <1>1, <1>2, <1>3 DEF HandleCliReq

LEMMA ClientRequestElected ==
  ASSUME LInv, NEW i \in Server, ClientRequest(i)
  PROVE  LeaderElected' /\ AppendsElected'
<1>1. /\ HandleCliReq(i, net) /\ net \in SUBSET net
      /\ UNCHANGED <<term, role, elections>>
  BY DEF ClientRequest, stateVars, histVars
<1>2. QED
  BY <1>1, LeadersKept, HandleCliReqElected DEF LInv

LEMMA ForwardedRequestElected ==
  ASSUME LInv, NEW m \in net, ForwardedRequest(m)
  PROVE  LeaderElected' /\ AppendsElected'
<1>1. /\ HandleCliReq(m.dst, net \ {m}) /\ net \ {m} \in SUBSET net
      /\ m.dst \in Server /\ UNCHANGED <<term, role, elections>>
  BY MessageMembers DEF ForwardedRequest, stateVars, histVars, LInv, TypeOK
<1>2. QED
  BY <1>1, LeadersKept, HandleCliReqElected DEF LInv

LEMMA CommitInBgElected ==
  ASSUME LInv, NEW i \in Server, CommitInBg(i)
  PROVE  LeaderElected' /\ AppendsElected'
BY LeadersKept DEF LInv, CommitInBg, AppendsElected, stateVars

LEMMA RpcErrorElected ==
  ASSUME LInv, NEW m \in net, RpcError(m)
  PROVE  LeaderElected' /\ AppendsElected'
<1>1. UNCHANGED <<term, role, elections>>
  BY DEF RpcError, stateVars, histVars
<1>2. IsRequest(m) => Elected([m EXCEPT !.open = FALSE], elections')
  BY <1>1, ClosedElected DEF LInv, TypeOK, AppendsElected
<1>3. AppendsElected'
  BY <1>1, <1>2 DEF RpcError, LInv, AppendsElected
<1>4. QED
  BY <1>1, <1>3, LeadersKept DEF LInv

LEMMA RestartElected ==
  ASSUME LInv, NEW i \in Server, Restart(i)
  PROVE  LeaderElected' /\ AppendsElected'
<1>1. UNCHANGED elections
  BY DEF Restart, histVars
<1>2. \A m \in net : IsRequest(m) => Elected([m EXCEPT !.open = FALSE], elections')
  BY <1>1, ClosedElected DEF LInv, TypeOK, AppendsElected
<1>3. AppendsElected'
  BY <1>1, <1>2 DEF Restart, LInv, AppendsElected
<1>4. LeaderElected'
  BY <1>1, LeadersKept DEF Restart, LInv, TypeOK, ServerTypes
<1>5. QED
  BY <1>3, <1>4

-----------------------------------------------------------------------------

LEMMA InitLInv == Init => LInv
BY InitType DEF LInv, Init, LeaderElected, AppendsElected

LEMMA NextLInv == LInv /\ [Next]_vars => LInv'
<1> SUFFICES ASSUME LInv, [Next]_vars PROVE LeaderElected' /\ AppendsElected'
  BY NextType DEF LInv
<1> DEFINE Goal == LeaderElected' /\ AppendsElected'
<1>1. CASE UNCHANGED vars
  BY <1>1 DEF LInv, LeaderElected, AppendsElected, vars, stateVars, histVars
<1>2. ASSUME NEW i \in Server, \/ ElectionTimeout(i) \/ ClientRequest(i)
                               \/ CommitInBg(i) \/ Restart(i)
      PROVE  Goal
  BY <1>2, ElectionTimeoutElected, ClientRequestElected, CommitInBgElected,
     RestartElected
<1>3. ASSUME NEW i \in Server, NEW p \in Server, HbTimeout(i, p) PROVE Goal
  BY <1>3, HbTimeoutElected
<1>4. ASSUME NEW m \in net, RpcError(m) PROVE Goal
  BY <1>4, RpcErrorElected
<1>5. ASSUME NEW m \in net, Deliver(m) PROVE Goal
  BY <1>5, HandleVoteReqElected, HandleVotingRespElected, HandleAppendEntriesElected,
     RivalLeaderExitElected, HandleAppendEntriesRespElected,
     HandleNewerTermRespElected, ForwardedRequestElected DEF Deliver
<1>6. QED
  BY <1>1, <1>2, <1>3, <1>4, <1>5 DEF Next

\* request_append_entries may end the process, but not for a rival.
LEMMA StatusAfterRequests ==
  ASSUME ServerTypes, NoRivalLeader, NEW i, NEW P, NEW rest, NEW lg, NEW nx, NEW bz,
         NEW qc, RequestAppendEntries(i, P, rest, lg, nx, bz, qc)
  PROVE  NoRivalLeader'
<1>1. \/ UNCHANGED status
      \/ status' = [status EXCEPT ![i] = "index_too_large"]
  BY Zenon DEF RequestAppendEntries
<1>2. QED
  BY <1>1 DEF NoRivalLeader, ServerTypes

\* A leader that gets entries of its own term would have lost an election that
\* it won.
LEMMA NextNoRival ==
  ASSUME LInv, ElectionSafety, NoRivalLeader, [Next]_vars
  PROVE  NoRivalLeader'
<1> USE DEF LInv
<1>1. ASSUME NEW m \in net, RivalLeaderExit(m) PROVE FALSE
  <2>1. /\ m.dst \in Server /\ m.src # m.dst
        /\ <<m.term, m.src>> \in elections /\ <<term[m.dst], m.dst>> \in elections
        /\ m.term = term[m.dst]
    BY <1>1, MessageMembers DEF RivalLeaderExit, TypeOK, AppendsElected, Elected,
       IsAppend, LeaderElected
  <2>2. <<m.term, m.src>> = <<term[m.dst], m.dst>>
    BY <2>1 DEF ElectionSafety
  <2>3. QED
    BY <2>1, <2>2
<1>2. CASE UNCHANGED status
  BY <1>2 DEF NoRivalLeader
<1>3. ASSUME NEW i, NEW P, NEW rest, NEW lg, NEW nx, NEW bz, NEW qc,
             RequestAppendEntries(i, P, rest, lg, nx, bz, qc)
      PROVE  NoRivalLeader'
  BY <1>3, StatusAfterRequests DEF TypeOK
<1>4. ASSUME NEW i, NEW rest, HandleCliReq(i, rest) PROVE NoRivalLeader'
  BY <1>2, <1>3, <1>4 DEF HandleCliReq
<1>5. ASSUME NEW i \in Server, \/ ElectionTimeout(i) \/ ClientRequest(i)
                               \/ CommitInBg(i) \/ Restart(i)
      PROVE  NoRivalLeader'
  <2>1. CASE ElectionTimeout(i) \/ CommitInBg(i)
    BY <1>2, <2>1 DEF ElectionTimeout, CommitInBg
  <2>2. CASE ClientRequest(i)
    BY <1>4, <2>2 DEF ClientRequest
  <2>3. CASE Restart(i)
    BY <2>3 DEF Restart, NoRivalLeader, TypeOK, ServerTypes
  <2>4. QED
    BY <1>5, <2>1, <2>2, <2>3
<1>6. ASSUME NEW i \in Server, NEW p \in Server, HbTimeout(i, p)
      PROVE  NoRivalLeader'
  BY <1>3, <1>6 DEF HbTimeout
<1>7. ASSUME NEW m \in net, RpcError(m) PROVE NoRivalLeader'
  BY <1>2, <1>7 DEF RpcError
<1>8. ASSUME NEW m \in net, Deliver(m) PROVE NoRivalLeader'
  <2>1. CASE HandleVoteReq(m)
    BY <1>2, <2>1 DEF HandleVoteReq
  <2>2. CASE HandleVotingResp(m)
    BY <1>2, <2>2 DEF HandleVotingResp
  <2>3. CASE HandleAppendEntries(m)
    BY <1>2, <2>3 DEF HandleAppendEntries
  <2>4. CASE HandleAppendEntriesResp(m)
    BY <1>3, <2>4 DEF HandleAppendEntriesResp
  <2>5. CASE HandleNewerTermResp(m)
    BY <1>2, <2>5 DEF HandleNewerTermResp
  <2>6. CASE ForwardedRequest(m)
    BY <1>4, <2>6 DEF ForwardedRequest
  <2>7. QED
    BY <1>1, <1>8, <2>1, <2>2, <2>3, <2>4, <2>5, <2>6 DEF Deliver
<1>9. QED
  BY <1>2, <1>5, <1>6, <1>7, <1>8 DEF Next, vars

\* With a state_mgr that saves, no server ever takes the exit "there must be a
\* bug" of handle_append_entries.
THEOREM NoRival == DurableState => (Spec => []NoRivalLeader)
<1> SUFFICES ASSUME DurableState PROVE Spec => []NoRivalLeader
  OBVIOUS
<1>1. Init => NoRivalLeader
  BY DEF Init, NoRivalLeader
<1>2. Spec => []ElectionSafety
  BY OneRaftLeader
<1>3. QED
  BY <1>1, <1>2, InitLInv, NextLInv, NextNoRival, PTL DEF Spec

-----------------------------------------------------------------------------
(* Logs that match: every entry, in a log or on its way, has one predecessor *)

\* Entry e is the k-th of a log, after an entry of term u; the same of the
\* entries a request carries.
InLog(lg, k, e, u) == k \in 1 .. Len(lg) /\ e = lg[k] /\ u = TermAt(lg, k - 1)
InRequest(m, k, e, u) ==
  /\ m.type = "append_entries_request"
  /\ k \in m.last_idx + 1 .. m.last_idx + Len(m.entries)
  /\ e = m.entries[k - m.last_idx]
  /\ u = IF k = m.last_idx + 1 THEN m.last_term ELSE m.entries[k - m.last_idx - 1].term
Known(k, e, u) ==
  \/ \E i \in Server : InLog(log[i], k, e, u)
  \/ \E m \in net : InRequest(m, k, e, u)

\* Index and term tell an entry and the term before it.
Unique ==
  \A k, e, f, u, v : Known(k, e, u) /\ Known(k, f, v) /\ e.term = f.term
    => e = f /\ u = v

\* An entry comes from a leader of its term, whose log has not yet got shorter.
Owned ==
  \A k, e, u : Known(k, e, u) => \E l \in Server :
    /\ <<e.term, l>> \in elections
    /\ role[l] = "leader" /\ term[l] = e.term => k <= Len(log[l])

\* Nothing is before the first entry.
FirstOk(m) ==
  m.type = "append_entries_request" /\ m.last_idx = 0 => m.last_term = 0
FirstOkay == \A m \in net : FirstOk(m)

\* A server that has been elected counts no more votes in that term.
ElectionsOver == \A e \in elections :
  e[1] <= term[e[2]] /\ (e[1] = term[e[2]] => election_completed[e[2]])

Matching == Unique /\ Owned /\ FirstOkay /\ ElectionsOver

-----------------------------------------------------------------------------
(* Where entries come from *)

LEMMA LogIndex ==
  ASSUME NEW lg \in Seq(Entry)
  PROVE  /\ Len(lg) \in Nat
         /\ \A k \in 1 .. Len(lg) : lg[k] \in Entry /\ lg[k].term \in Term
<1>1. Len(lg) \in Nat
  BY LenProperties
<1>2. \A k \in 1 .. Len(lg) : lg[k] \in Entry
  BY ElementOfSeq
<1>3. QED
  BY <1>1, <1>2 DEF Entry

LEMMA AppendedEntry ==
  ASSUME NEW lg \in Seq(Entry), NEW a \in Entry, NEW k, NEW e, NEW u,
         InLog(Append(lg, a), k, e, u)
  PROVE  \/ InLog(lg, k, e, u)
         \/ k = Len(lg) + 1 /\ e = a /\ u = LastTerm(lg)
<1>1. /\ Len(lg) \in Nat /\ Len(Append(lg, a)) = Len(lg) + 1
      /\ \A j \in 1 .. Len(lg) : Append(lg, a)[j] = lg[j]
      /\ Append(lg, a)[Len(lg) + 1] = a
  BY AppendProperties, LenProperties
<1>2. \A j \in 0 .. Len(lg) : TermAt(Append(lg, a), j) = TermAt(lg, j)
  BY <1>1 DEF TermAt
<1>3. k \in 1 .. Len(lg) + 1 /\ k - 1 \in 0 .. Len(lg)
  BY <1>1 DEF InLog
<1>4. QED
  BY <1>1, <1>2, <1>3 DEF InLog, LastTerm

\* create_append_entries_req copies a piece of the log.
LEMMA CopiedEntries ==
  ASSUME NEW i, NEW p, NEW t, NEW lg \in Seq(Entry), NEW n \in 1 .. Len(lg) + 1, NEW commit
  PROVE  LET m == AppendReq(i, p, t, lg, n, commit) IN
         /\ \A k, e, u : InRequest(m, k, e, u) => InLog(lg, k, e, u)
         /\ m.last_idx = 0 => m.last_term = 0
<1> DEFINE m == AppendReq(i, p, t, lg, n, commit)
           end == Smaller(Len(lg), n + MaxAppend - 1)
<1>1. Len(lg) \in Nat /\ MaxAppend \in Nat \ {0} /\ n \in Nat \ {0}
  BY LenProperties, Bounds
<1>2. end \in n - 1 .. Len(lg)
  BY <1>1 DEF Smaller
<1>3. m.last_idx = n - 1 /\ m.last_term = TermAt(lg, n - 1) /\ m.entries = SubSeq(lg, n, end)
  BY DEF AppendReq
<1> HIDE DEF m, end
<1>4. /\ Len(SubSeq(lg, n, end)) = end - n + 1
      /\ \A j \in 1 .. end - n + 1 : SubSeq(lg, n, end)[j] = lg[n + j - 1]
  BY <1>1, <1>2
<1>5. ASSUME NEW k, NEW e, NEW u, InRequest(m, k, e, u) PROVE InLog(lg, k, e, u)
  <2>1. k \in n .. end /\ e = m.entries[k - n + 1]
    BY <1>1, <1>2, <1>3, <1>4, <1>5 DEF InRequest
  <2>2. e = lg[k]
    BY <1>1, <1>2, <1>3, <1>4, <2>1
  <2>3. u = TermAt(lg, k - 1)
    <3>1. CASE k = n
      BY <1>1, <1>3, <1>5, <3>1 DEF InRequest
    <3>2. CASE k # n
      <4>1. k - 1 \in n .. end /\ u = m.entries[k - n].term
        BY <1>1, <1>2, <1>3, <1>5, <2>1, <3>2 DEF InRequest
      <4>2. k - n \in 1 .. end - n + 1 /\ n + (k - n) - 1 = k - 1
        BY <1>1, <1>2, <2>1, <4>1
      <4>3. m.entries[k - n] = lg[k - 1]
        BY <1>3, <1>4, <4>2
      <4>4. QED
        BY <1>1, <4>1, <4>3 DEF TermAt
    <3>3. QED
      BY <3>1, <3>2
  <2>4. QED
    BY <1>1, <1>2, <2>1, <2>2, <2>3 DEF InLog
<1>6. m.last_idx = 0 => m.last_term = 0
  BY <1>1, <1>3 DEF TermAt
<1>7. QED
  BY <1>5, <1>6 DEF m

\* The first entries of a log, then the last of the entries received
LEMMA Spliced ==
  ASSUME NEW lg \in Seq(Entry), NEW es \in Seq(Entry), NEW prev \in 0 .. Len(lg),
         NEW n \in 0 .. Len(es), prev + n <= Len(lg)
  PROVE  LET mg == SubSeq(lg, 1, prev + n) \o SubSeq(es, n + 1, Len(es)) IN
         /\ Len(mg) = prev + Len(es)
         /\ \A j \in 1 .. prev + n : mg[j] = lg[j]
         /\ \A j \in prev + n + 1 .. prev + Len(es) : mg[j] = es[j - prev]
<1> DEFINE x == SubSeq(lg, 1, prev + n)
           y == SubSeq(es, n + 1, Len(es))
<1>1. Len(lg) \in Nat /\ Len(es) \in Nat /\ prev \in Nat /\ n \in Nat
  BY LenProperties
<1>2. /\ x \in Seq(Entry) /\ Len(x) = prev + n
      /\ \A j \in 1 .. prev + n : x[j] = lg[j]
  <2>1. \A j \in 1 .. prev + n : lg[j] \in Entry
    BY <1>1, ElementOfSeq
  <2>2. QED
    BY <1>1, <2>1, SubSeqProperties
<1>3. /\ y \in Seq(Entry) /\ Len(y) = Len(es) - n
      /\ \A j \in 1 .. Len(es) - n : y[j] = es[n + j]
  <2>1. \A j \in n + 1 .. Len(es) : es[j] \in Entry
    BY <1>1, ElementOfSeq
  <2>2. QED
    BY <1>1, <2>1, SubSeqProperties
<1> HIDE DEF x, y
<1>4. /\ Len(x \o y) = Len(x) + Len(y)
      /\ \A j \in 1 .. Len(x) + Len(y) : (x \o y)[j] = IF j <= Len(x) THEN x[j] ELSE y[j - Len(x)]
  BY <1>2, <1>3, ConcatProperties
<1>5. ASSUME NEW j \in 1 .. prev + n PROVE (x \o y)[j] = lg[j]
  BY <1>1, <1>2, <1>3, <1>4
<1>6. ASSUME NEW j \in prev + n + 1 .. prev + Len(es) PROVE (x \o y)[j] = es[j - prev]
  <2>1. (x \o y)[j] = y[j - (prev + n)]
    BY <1>1, <1>2, <1>3, <1>4
  <2>2. j - (prev + n) \in 1 .. Len(es) - n /\ n + (j - (prev + n)) = j - prev
    BY <1>1
  <2>3. QED
    BY <1>3, <2>1, <2>2
<1>7. Len(x \o y) = prev + Len(es)
  BY <1>1, <1>2, <1>3, <1>4
<1>8. QED
  BY <1>5, <1>6, <1>7 DEF x, y

\* What the overwriting loop of handle_append_entries makes of a log: entries it
\* had, then entries received, each after the one it came after.
LEMMA MergedEntries ==
  ASSUME NEW lg \in Seq(Entry), NEW es \in Seq(Entry), NEW prev \in 0 .. Len(lg),
         NEW k, NEW e, NEW u, InLog(MergeLog(lg, prev, es), k, e, u)
  PROVE  \/ InLog(lg, k, e, u)
         \/ /\ k \in prev + 1 .. prev + Len(es) /\ e = es[k - prev]
            /\ u = IF k = prev + 1 THEN TermAt(lg, prev) ELSE es[k - prev - 1].term
<1> DEFINE agree(j) == \A x \in 1 .. j : /\ prev + x <= Len(lg)
                                         /\ lg[prev + x].term = es[x].term
           K == {j \in 0 .. Len(es) : agree(j)}
           mg(n) == SubSeq(lg, 1, prev + n) \o SubSeq(es, n + 1, Len(es))
<1>1. Len(lg) \in Nat /\ Len(es) \in Nat /\ prev \in Nat
  BY LenProperties
<1>2. Max(K) \in K
  <2>1. 0 .. Len(es) \subseteq Int /\ IsFiniteSet(0 .. Len(es))
    BY <1>1, FS_Interval
  <2>2. K \in SUBSET Int /\ IsFiniteSet(K)
    BY <2>1, FS_Subset
  <2>3. 0 \in K
    BY <1>1
  <2> HIDE DEF K
  <2>4. QED
    BY <2>2, <2>3, FiniteMax
<1>3. MergeLog(lg, prev, es) = IF Max(K) = Len(es) THEN lg ELSE mg(Max(K))
  BY DEF MergeLog
<1>4. PICK n \in 0 .. Len(es) :
        agree(n) /\ MergeLog(lg, prev, es) = IF n = Len(es) THEN lg ELSE mg(n)
  <2>1. Max(K) \in 0 .. Len(es) /\ agree(Max(K))
    BY <1>2
  <2> HIDE DEF K
  <2>2. QED
    BY <1>3, <2>1
<1>5. prev + n <= Len(lg)
  BY <1>1, <1>4
<1>6. CASE n = Len(es)
  BY <1>4, <1>6
<1>7. CASE n # Len(es)
  <2> DEFINE l == mg(n)
  <2>1. InLog(l, k, e, u)
    BY <1>4, <1>7
  <2>2. /\ Len(l) = prev + Len(es)
        /\ \A j \in 1 .. prev + n : l[j] = lg[j]
        /\ \A j \in prev + n + 1 .. prev + Len(es) : l[j] = es[j - prev]
    BY <1>5, Spliced
  <2> HIDE DEF l, mg
  <2>3. k \in 1 .. prev + Len(es) /\ e = l[k] /\ u = TermAt(l, k - 1)
    BY <2>1, <2>2 DEF InLog
  <2>4. CASE k <= prev + n
    BY <1>1, <1>5, <2>2, <2>3, <2>4 DEF InLog, TermAt
  <2>5. CASE k = prev + 1 /\ n = 0
    <3>1. 1 \in 1 .. Len(es) /\ k - prev = 1 /\ k - 1 = prev /\ k \in prev + 1 .. prev + Len(es)
      BY <1>1, <2>3, <2>5
    <3>2. e = es[1]
      <4>1. k \in prev + n + 1 .. prev + Len(es)
        BY <1>1, <2>3, <2>5
      <4>2. QED
        BY <2>2, <2>3, <3>1, <4>1
    <3>3. u = TermAt(lg, prev)
      <4>1. prev = 0 \/ prev \in 1 .. prev + n
        BY <1>1, <2>5
      <4>2. QED
        BY <2>2, <2>3, <3>1, <4>1 DEF TermAt
    <3>4. QED
      BY <2>5, <3>1, <3>2, <3>3
  <2>6. CASE k > prev + n /\ k # prev + 1
    <3>1. k \in prev + n + 1 .. prev + Len(es) /\ k - 1 \in 1 .. prev + Len(es) /\ k \in Int
      BY <1>1, <2>3, <2>6
    <3>2. e = es[k - prev] /\ u = l[k - 1].term
      BY <1>1, <2>2, <2>3, <3>1 DEF TermAt
    <3>3. l[k - 1].term = es[k - 1 - prev].term
      <4>1. CASE k - 1 = prev + n
        <5>1. n \in 1 .. n /\ n = k - 1 - prev /\ prev + n \in 1 .. prev + n
          <6>1. prev \in Int /\ n \in Int /\ n >= 0 /\ prev >= 0
            BY <1>1
          <6>2. n # 0 /\ n = k - 1 - prev
            BY <2>6, <3>1, <4>1, <6>1
          <6> HIDE <1>4
          <6>3. QED
            BY <6>1, <6>2
        <5>2. lg[prev + n].term = es[n].term
          BY <1>4, <5>1
        <5>3. QED
          BY <2>2, <4>1, <5>1, <5>2
      <4>2. CASE k - 1 # prev + n
        <5>1. k - 1 \in prev + n + 1 .. prev + Len(es)
          BY <1>1, <3>1, <4>2
        <5>2. QED
          BY <2>2, <5>1
      <4>3. QED
        BY <4>1, <4>2
    <3>4. k - prev - 1 = k - 1 - prev /\ k \in prev + 1 .. prev + Len(es)
      BY <1>1, <3>1
    <3>5. QED
      BY <2>6, <3>2, <3>3, <3>4
  <2>7. QED
    BY <1>1, <2>3, <2>4, <2>5, <2>6
<1>8. QED
  BY <1>6, <1>7

-----------------------------------------------------------------------------
(* What a step adds: what it sends is copied from a log or sent again *)

Traced(n, lg) ==
  /\ FirstOk(n)
  /\ \A k, e, u : InRequest(n, k, e, u) =>
       InLog(lg, k, e, u) \/ \E m \in net : InRequest(m, k, e, u)

LEMMA CopyTraced ==
  ASSUME NEW i, NEW p, NEW t, NEW lg \in Seq(Entry), NEW n \in 1 .. Len(lg) + 1, NEW commit
  PROVE  Traced(AppendReq(i, p, t, lg, n, commit), lg)
BY CopiedEntries DEF Traced, FirstOk

LEMMA OldTraced ==
  ASSUME FirstOkay, NEW n \in net, NEW lg
  PROVE  Traced(n, lg)
BY DEF FirstOkay, Traced

\* A request whose caller is gone carries the same entries.
LEMMA ClosedTraced ==
  ASSUME FirstOkay, net \subseteq Message, NEW m \in net, IsRequest(m), NEW lg
  PROVE  Traced([m EXCEPT !.open = FALSE], lg)
<1> DEFINE c == [m EXCEPT !.open = FALSE]
<1>1. m \in Message
  OBVIOUS
<1>2. c.type = m.type
  BY <1>1 DEF Message, VoteRequest, AppendRequest, ClientMessage, IsRequest,
         VoteResponse, AppendResponse
<1>3. m.type = "append_entries_request" =>
        c.last_idx = m.last_idx /\ c.last_term = m.last_term /\ c.entries = m.entries
  BY <1>1 DEF Message, VoteRequest, AppendRequest, ClientMessage,
         VoteResponse, AppendResponse
<1> HIDE DEF c
<1>4. FirstOk(c)
  BY <1>2, <1>3 DEF FirstOkay, FirstOk
<1>5. \A k, e, u : InRequest(c, k, e, u) => InRequest(m, k, e, u)
  BY <1>2, <1>3 DEF InRequest
<1>6. Traced(c, lg)
  BY <1>4, <1>5 DEF Traced
<1>7. QED
  BY <1>6 DEF c

LEMMA RequestAppendEntriesTraced ==
  ASSUME FirstOkay, NEW i, NEW P \in SUBSET Server, NEW rest \in SUBSET net,
         NEW lg \in Seq(Entry), NEW nx \in [Server -> Nat], NEW bz, NEW qc,
         RequestAppendEntries(i, P, rest, lg, nx, bz, qc)
  PROVE  \A n \in net' : Traced(n, lg)
<1> DEFINE free == {p \in P : ~bz[p]}
           start == [p \in Server |->
                      IF p \in free /\ nx[p] = 0 THEN Len(lg) + 1 ELSE nx[p]]
           over == {p \in free : start[p] > Len(lg) + 1}
           req(p) == AppendReq(i, p, term[i], lg, start[p], qc)
<1>1. \A p \in free \ over : start[p] \in 1 .. Len(lg) + 1
  <2>1. Len(lg) \in Nat
    BY LenProperties
  <2>2. QED
    BY <2>1
<1>2. \E Q \in SUBSET (free \ over) : net' = rest \cup {req(p) : p \in Q}
  <2>1. CASE over = {} /\ net' = rest \cup {req(p) : p \in free}
    <3>1. free \in SUBSET (free \ over)
      BY <2>1
    <3> HIDE DEF free, over, req
    <3>2. QED
      BY <2>1, <3>1
  <2>2. QED
    BY <2>1, Zenon DEF RequestAppendEntries
<1> HIDE DEF start, free, over
<1>3. \A p \in free \ over : Traced(req(p), lg)
  BY <1>1, CopyTraced
<1>4. \A n \in rest : Traced(n, lg)
  BY OldTraced
<1> HIDE DEF req
<1>5. QED
  BY <1>2, <1>3, <1>4

\* No entry, or one at the end of the log of the leader of its term
NoNew == \A k, e, u : Known(k, e, u)' => Known(k, e, u)
OneNew(i) == \E a \in Entry :
  /\ role'[i] = "leader" /\ a.term = term'[i]
  /\ Len(log'[i]) = Len(log[i]) + 1
  /\ \A k, e, u : Known(k, e, u)' =>
       \/ Known(k, e, u)
       \/ k = Len(log[i]) + 1 /\ e = a /\ u = LastTerm(log[i])
Adds == FirstOkay' /\ (NoNew \/ \E i \in Server : OneNew(i))

LEMMA SameLogs ==
  ASSUME UNCHANGED log, NEW i \in Server, \A n \in net' : Traced(n, log[i])
  PROVE  Adds
<1>1. FirstOkay'
  BY DEF FirstOkay, Traced, FirstOk
<1>2. ASSUME NEW k, NEW e, NEW u, Known(k, e, u)' PROVE Known(k, e, u)
  <2>1. \/ \E j \in Server : InLog(log[j], k, e, u)
        \/ \E n \in net' : InRequest(n, k, e, u)
    BY <1>2 DEF Known, InLog, InRequest
  <2>2. QED
    BY <2>1 DEF Known, Traced
<1>3. QED
  BY <1>1, <1>2 DEF Adds, NoNew

LEMMA NoneSent ==
  ASSUME FirstOkay, UNCHANGED log,
         \A n \in net' : n \in net \/ n.type # "append_entries_request"
  PROVE  Adds
<1>1. PICK i \in Server : TRUE
  BY ServerAssumption
<1>2. \A n \in net' : Traced(n, log[i])
  BY OldTraced DEF Traced, FirstOk, InRequest
<1>3. QED
  BY <1>1, <1>2, SameLogs

\* The leader of a term appends an entry of that term.
LEMMA LeaderAppends ==
  ASSUME LogTypes, NEW i \in Server, NEW a \in Entry, role'[i] = "leader",
         a.term = term'[i], log' = [log EXCEPT ![i] = Append(@, a)],
         \A n \in net' : Traced(n, Append(log[i], a))
  PROVE  Adds
<1>1. log \in [Server -> Seq(Entry)] /\ log[i] \in Seq(Entry)
  BY DEF LogTypes
<1>2. FirstOkay'
  BY DEF FirstOkay, Traced, FirstOk
<1>3. log'[i] = Append(log[i], a) /\ \A j \in Server : j # i => log'[j] = log[j]
  BY <1>1
<1>4. ASSUME NEW k, NEW e, NEW u, Known(k, e, u)'
      PROVE  \/ Known(k, e, u)
             \/ k = Len(log[i]) + 1 /\ e = a /\ u = LastTerm(log[i])
  <2>1. \/ \E j \in Server : InLog(log'[j], k, e, u)
        \/ \E n \in net' : InRequest(n, k, e, u)
    BY <1>4 DEF Known, InLog, InRequest, TermAt
  <2>2. \/ \E j \in Server : InLog(log[j], k, e, u)
        \/ \E n \in net : InRequest(n, k, e, u)
        \/ InLog(Append(log[i], a), k, e, u)
    BY <1>3, <2>1 DEF Traced
  <2>3. QED
    BY <1>1, <2>2, AppendedEntry DEF Known
<1>5. Len(log'[i]) = Len(log[i]) + 1
  BY <1>1, <1>3, AppendProperties
<1>6. QED
  BY <1>2, <1>4, <1>5 DEF Adds, OneNew

LEMMA BecomeLeaderAdds ==
  ASSUME TypeOK, FirstOkay, NEW i \in Server, NEW t \in Term, NEW rest \in SUBSET net,
         BecomeLeader(i, t, rest), term'[i] = t
  PROVE  Adds
<1> DEFINE a == [term |-> t, kind |-> "conf"]
           lg == IF conf_idx[i] = 0 THEN Append(log[i], a) ELSE log[i]
           slot == Len(log[i]) + 1
           req(p) == AppendReq(i, p, t, lg, slot, quick_commit_idx[i])
<1>1. /\ log' = [log EXCEPT ![i] = lg] /\ role'[i] = "leader"
      /\ net' = rest \cup {req(p) : p \in Peers(i)}
  BY DEF BecomeLeader, TypeOK, ServerTypes
<1>2. a \in Entry /\ a.term = t
  BY DEF Entry
<1>3. LogTypes /\ log[i] \in Seq(Entry) /\ Len(log[i]) \in Nat
  BY LenProperties DEF TypeOK, LogTypes
<1> HIDE DEF a
<1>4. lg \in Seq(Entry) /\ slot \in 1 .. Len(lg) + 1
  <2>1. CASE conf_idx[i] = 0
    BY <1>2, <1>3, <2>1, AppendProperties
  <2>2. CASE conf_idx[i] # 0
    BY <1>3, <2>2
  <2>3. QED
    BY <2>1, <2>2
<1> HIDE DEF lg, slot
<1>5. \A p : Traced(req(p), lg)
  BY <1>4, CopyTraced
<1>6. \A n \in rest : Traced(n, lg)
  BY OldTraced
<1> HIDE DEF req
<1>7. \A n \in net' : Traced(n, lg)
  BY <1>1, <1>5, <1>6
<1>8. CASE conf_idx[i] = 0
  <2>1. lg = Append(log[i], a)
    BY <1>8 DEF lg
  <2>2. log' = [log EXCEPT ![i] = Append(@, a)]
    BY <1>1, <1>3, <2>1 DEF LogTypes
  <2>3. QED
    BY <1>1, <1>2, <1>3, <1>7, <2>1, <2>2, LeaderAppends
<1>9. CASE conf_idx[i] # 0
  <2>1. lg = log[i] /\ UNCHANGED log
    BY <1>1, <1>3, <1>9 DEF lg, LogTypes
  <2>2. QED
    BY <1>7, <2>1, SameLogs
<1>10. QED
  BY <1>8, <1>9

-----------------------------------------------------------------------------
(* One lemma per action *)

LEMMA ElectionTimeoutAdds ==
  ASSUME TypeOK, FirstOkay, NEW i \in Server, ElectionTimeout(i)
  PROVE  Adds
<1> DEFINE t == term[i] + 1
<1>1. t \in Term /\ term'[i] = t /\ net \in SUBSET net
  BY Bounds DEF ElectionTimeout, TypeOK, ServerTypes, Term
<1>2. \/ BecomeLeader(i, t, net)
      \/ UNCHANGED log /\ net' = net \cup {VoteReq(i, p, t) : p \in Peers(i)}
  BY DEF ElectionTimeout
<1> HIDE DEF t
<1>3. CASE UNCHANGED log /\ net' = net \cup {VoteReq(i, p, t) : p \in Peers(i)}
  BY <1>3, NoneSent DEF VoteReq
<1>4. QED
  BY <1>1, <1>2, <1>3, BecomeLeaderAdds

LEMMA HandleVotingRespAdds ==
  ASSUME TypeOK, FirstOkay, NEW m \in net, HandleVotingResp(m)
  PROVE  Adds
<1> DEFINE i == m.dst
<1>1. i \in Server /\ term[i] \in Term /\ term'[i] = term[i] /\ net \ {m} \in SUBSET net
  BY MessageMembers DEF HandleVotingResp, TypeOK, ServerTypes, stateVars
<1>2. \/ BecomeLeader(i, term[i], net \ {m})
      \/ UNCHANGED log /\ net' = net \ {m}
  BY DEF HandleVotingResp
<1>3. CASE UNCHANGED log /\ net' = net \ {m}
  BY <1>3, NoneSent
<1>4. QED
  BY <1>1, <1>2, <1>3, BecomeLeaderAdds

\* What overwrites a log came after the entry before it there too.
LEMMA HandleAppendEntriesAdds ==
  ASSUME TypeOK, FirstOkay, NEW m \in net, HandleAppendEntries(m)
  PROVE  Adds
<1> DEFINE i == m.dst
<1>1. /\ i \in Server /\ m.type = "append_entries_request"
      /\ m.last_idx \in Nat /\ m.entries \in Seq(Entry)
      /\ log[i] \in Seq(Entry) /\ Len(log[i]) \in Nat
  BY MessageMembers, LenProperties DEF TypeOK, LogTypes, HandleAppendEntries
<1>2. \A n \in net' : n \in net \/ n.type # "append_entries_request"
  BY DEF HandleAppendEntries, Reply
<1>3. CASE ~AcceptEntries(i, m)
  <2>1. UNCHANGED log
    BY <1>1, <1>3 DEF HandleAppendEntries, TypeOK, LogTypes
  <2>2. QED
    BY <1>2, <2>1, NoneSent
<1>4. CASE AcceptEntries(i, m)
  <2>1. log' = [log EXCEPT ![i] = MergeLog(log[i], m.last_idx, m.entries)]
    BY <1>1, <1>4 DEF HandleAppendEntries, TypeOK, LogTypes
  <2>2. m.last_idx \in 0 .. Len(log[i]) /\ m.last_term = TermAt(log[i], m.last_idx)
    BY <1>1, <1>4 DEF AcceptEntries, LogOkay, FirstOkay, FirstOk, TermAt
  <2>3. ASSUME NEW k, NEW e, NEW u,
               InLog(MergeLog(log[i], m.last_idx, m.entries), k, e, u)
        PROVE  InLog(log[i], k, e, u) \/ InRequest(m, k, e, u)
    BY <1>1, <2>2, <2>3, MergedEntries DEF InRequest
  <2>4. ASSUME NEW k, NEW e, NEW u, Known(k, e, u)' PROVE Known(k, e, u)
    <3>1. \/ \E j \in Server : InLog(log'[j], k, e, u)
          \/ \E n \in net' : InRequest(n, k, e, u)
      BY <2>4 DEF Known, InLog, InRequest, TermAt
    <3>2. \A j \in Server : log'[j] = log[j] \/ log'[j] = MergeLog(log[i], m.last_idx, m.entries)
      BY <2>1 DEF TypeOK, LogTypes
    <3>3. QED
      BY <1>1, <1>2, <2>3, <3>1, <3>2 DEF Known, InRequest
  <2>5. FirstOkay'
    BY <1>2 DEF FirstOkay, FirstOk
  <2>6. QED
    BY <2>4, <2>5 DEF Adds, NoNew
<1>5. QED
  BY <1>3, <1>4

LEMMA HandleAppendEntriesRespAdds ==
  ASSUME TypeOK, FirstOkay, NEW m \in net, HandleAppendEntriesResp(m)
  PROVE  Adds
<1> DEFINE i == m.dst
<1>1. /\ i \in Server /\ m.src \in Server /\ net \ {m} \in SUBSET net /\ UNCHANGED log
      /\ log[i] \in Seq(Entry) /\ m.next_idx \in Nat
      /\ next_log_idx[i] \in [Server -> Nat]
  BY MessageMembers DEF TypeOK, LogTypes, PeerTypes, Index, HandleAppendEntriesResp, logVars
<1> DEFINE nx == [next_log_idx[i] EXCEPT ![m.src] =
                    IF m.accepted \/ (m.next_idx > 0 /\ @ > m.next_idx)
                    THEN m.next_idx ELSE Decrement(@)]
<1>2. nx \in [Server -> Nat]
  BY <1>1, Bounds DEF Decrement
<1>3. PICK P, bz, qc : P \in SUBSET Server
                       /\ RequestAppendEntries(i, P, net \ {m}, log[i], nx, bz, qc)
  BY <1>1 DEF HandleAppendEntriesResp, Peers
<1> HIDE DEF nx
<1>4. \A n \in net' : Traced(n, log[i])
  BY <1>1, <1>2, <1>3, RequestAppendEntriesTraced
<1>5. QED
  BY <1>1, <1>4, SameLogs

LEMMA HbTimeoutAdds ==
  ASSUME TypeOK, FirstOkay, NEW i \in Server, NEW p \in Server, HbTimeout(i, p)
  PROVE  Adds
<1>1. /\ {p} \in SUBSET Server /\ net \in SUBSET net /\ UNCHANGED log
      /\ log[i] \in Seq(Entry) /\ next_log_idx[i] \in [Server -> Nat]
  BY DEF HbTimeout, TypeOK, LogTypes, PeerTypes, Index, logVars
<1>2. RequestAppendEntries(i, {p}, net, log[i], next_log_idx[i], busy[i], quick_commit_idx[i])
  BY DEF HbTimeout
<1>3. \A n \in net' : Traced(n, log[i])
  BY <1>1, <1>2, RequestAppendEntriesTraced
<1>4. QED
  BY <1>1, <1>3, SameLogs

LEMMA HandleCliReqAdds ==
  ASSUME TypeOK, FirstOkay, NEW i \in Server, NEW rest \in SUBSET net,
         HandleCliReq(i, rest), UNCHANGED <<term, role>>
  PROVE  Adds
<1> DEFINE a == [term |-> term[i], kind |-> "app"]
<1>1. a \in Entry /\ a.term = term'[i] /\ LogTypes /\ log[i] \in Seq(Entry)
  BY DEF Entry, TypeOK, ServerTypes, LogTypes
<1>2. CASE /\ role[i] = "leader"
           /\ log' = [log EXCEPT ![i] = Append(log[i], a)]
           /\ RequestAppendEntries(i, Peers(i), rest, Append(log[i], a),
                                   next_log_idx[i], busy[i], quick_commit_idx[i])
  <2>1. /\ Append(log[i], a) \in Seq(Entry) /\ Peers(i) \in SUBSET Server
        /\ next_log_idx[i] \in [Server -> Nat]
    BY <1>1, AppendProperties DEF Peers, TypeOK, PeerTypes, Index
  <2> HIDE DEF a
  <2>2. \A n \in net' : Traced(n, Append(log[i], a))
    BY <1>2, <2>1, RequestAppendEntriesTraced
  <2>3. log' = [log EXCEPT ![i] = Append(@, a)]
    BY <1>2 DEF TypeOK, LogTypes
  <2>4. QED
    BY <1>1, <1>2, <2>2, <2>3, LeaderAppends
<1>3. CASE UNCHANGED log /\ net' \subseteq rest \cup {ClientReq(i, leader_[i])}
  BY <1>3, NoneSent DEF ClientReq
<1>4. QED
  BY <1>2, <1>3 DEF HandleCliReq

LEMMA RpcErrorAdds ==
  ASSUME TypeOK, FirstOkay, NEW m \in net, RpcError(m)
  PROVE  Adds
<1>1. PICK i \in Server : TRUE
  BY ServerAssumption
<1>2. IsRequest(m) => Traced([m EXCEPT !.open = FALSE], log[i])
  BY ClosedTraced DEF TypeOK
<1>3. UNCHANGED log /\ \A n \in net' : n \in net \/ (IsRequest(m) /\ n = [m EXCEPT !.open = FALSE])
  BY DEF RpcError, logVars
<1>4. \A n \in net' : Traced(n, log[i])
  BY <1>2, <1>3, OldTraced
<1>5. QED
  BY <1>3, <1>4, SameLogs

LEMMA RestartAdds ==
  ASSUME TypeOK, FirstOkay, NEW i \in Server, Restart(i)
  PROVE  Adds
<1>1. \A m \in net : IsRequest(m) => Traced([m EXCEPT !.open = FALSE], log[i])
  BY ClosedTraced DEF TypeOK
<1>2. UNCHANGED log /\ \A n \in net' : \/ n \in net
                                       \/ \E m \in net : IsRequest(m) /\ n = [m EXCEPT !.open = FALSE]
  BY DEF Restart
<1>3. \A n \in net' : Traced(n, log[i])
  BY <1>1, <1>2, OldTraced
<1>4. QED
  BY <1>2, <1>3, SameLogs

LEMMA NextAdds ==
  ASSUME TypeOK, FirstOkay, [Next]_vars
  PROVE  Adds
<1>1. CASE UNCHANGED vars
  BY <1>1, NoneSent DEF vars, logVars
<1>2. ASSUME NEW i \in Server, ElectionTimeout(i) PROVE Adds
  BY <1>2, ElectionTimeoutAdds
<1>3. ASSUME NEW i \in Server, ClientRequest(i) PROVE Adds
  BY <1>3, HandleCliReqAdds DEF ClientRequest, stateVars
<1>4. ASSUME NEW i \in Server, CommitInBg(i) PROVE Adds
  BY <1>4, NoneSent DEF CommitInBg
<1>5. ASSUME NEW i \in Server, Restart(i) PROVE Adds
  BY <1>5, RestartAdds
<1>6. ASSUME NEW i \in Server, NEW p \in Server, HbTimeout(i, p) PROVE Adds
  BY <1>6, HbTimeoutAdds
<1>7. ASSUME NEW m \in net, RpcError(m) PROVE Adds
  BY <1>7, RpcErrorAdds
<1>8. ASSUME NEW m \in net, Deliver(m) PROVE Adds
  <2>1. m.dst \in Server /\ net \ {m} \in SUBSET net
    BY MessageMembers DEF TypeOK
  <2>2. CASE HandleVoteReq(m)
    BY <2>2, NoneSent DEF HandleVoteReq, Reply, logVars
  <2>3. CASE HandleVotingResp(m)
    BY <2>3, HandleVotingRespAdds
  <2>4. CASE HandleAppendEntries(m)
    BY <2>4, HandleAppendEntriesAdds
  <2>5. CASE RivalLeaderExit(m) \/ HandleNewerTermResp(m)
    BY <2>5, NoneSent DEF RivalLeaderExit, HandleNewerTermResp, logVars
  <2>6. CASE HandleAppendEntriesResp(m)
    BY <2>6, HandleAppendEntriesRespAdds
  <2>7. CASE ForwardedRequest(m)
    BY <2>1, <2>7, HandleCliReqAdds DEF ForwardedRequest, stateVars
  <2>8. QED
    BY <1>8, <2>2, <2>3, <2>4, <2>5, <2>6, <2>7 DEF Deliver
<1>9. QED
  BY <1>1, <1>2, <1>3, <1>4, <1>5, <1>6, <1>7, <1>8 DEF Next

-----------------------------------------------------------------------------
(* Elections are held once: a term does not come back, nor its count *)

\* A server that is not elected in this step counts no more than it did.
Stays(j) ==
  /\ term[j] <= term'[j]
  /\ term'[j] = term[j] /\ election_completed[j] => election_completed'[j]
  /\ role'[j] = "leader" => role[j] = "leader" /\ term'[j] = term[j]

OnceElected ==
  /\ elections \subseteq elections' /\ ElectionsOver'
  /\ \A j \in Server : role'[j] = "leader" =>
       \/ role[j] = "leader" /\ term'[j] = term[j]
       \/ <<term'[j], j>> \notin elections

LEMMA NobodyElected ==
  ASSUME TypeOK, TypeOK', ElectionsOver, UNCHANGED elections, \A j \in Server : Stays(j)
  PROVE  OnceElected
<1>1. \A e \in elections : e[1] \in Nat /\ e[2] \in Server
  BY Bounds DEF TypeOK, HistoryTypes, Term
<1>2. \A j \in Server : term[j] \in Nat /\ term'[j] \in Nat
  BY Bounds DEF TypeOK, ServerTypes, Term
<1>3. ElectionsOver'
  BY <1>1, <1>2 DEF ElectionsOver, Stays
<1>4. QED
  BY <1>3 DEF OnceElected, Stays

LEMMA SomebodyElected ==
  ASSUME TypeOK, TypeOK', ElectionsOver, NEW i \in Server,
         elections' = elections \cup {<<term'[i], i>>},
         term[i] <= term'[i], term[i] = term'[i] => ~election_completed[i],
         election_completed'[i],
         \A j \in Server \ {i} : Stays(j)
  PROVE  OnceElected
<1>1. \A e \in elections : e[1] \in Nat /\ e[2] \in Server
  BY Bounds DEF TypeOK, HistoryTypes, Term
<1>2. \A j \in Server : term[j] \in Nat /\ term'[j] \in Nat
  BY Bounds DEF TypeOK, ServerTypes, Term
<1>3. \A e \in elections : e[2] = i => e[1] < term'[i]
  BY <1>1, <1>2 DEF ElectionsOver
<1>4. ElectionsOver'
  <2> SUFFICES ASSUME NEW e \in elections'
               PROVE  e[1] <= term'[e[2]] /\ (e[1] = term'[e[2]] => election_completed'[e[2]])
    BY DEF ElectionsOver
  <2>1. CASE e = <<term'[i], i>>
    BY <1>2, <2>1
  <2>2. CASE e \in elections /\ e[2] = i
    BY <1>1, <1>2, <1>3, <2>2
  <2>3. CASE e \in elections /\ e[2] # i
    BY <1>1, <1>2, <2>3 DEF ElectionsOver, Stays
  <2>4. QED
    BY <2>1, <2>2, <2>3
<1>5. <<term'[i], i>> \notin elections
  BY <1>2, <1>3
<1>6. QED
  BY <1>4, <1>5 DEF OnceElected, Stays

LEMMA UpdateTermStays ==
  ASSUME ServerTypes, NEW i \in Server, NEW t \in Term, UpdateTerm(i, t),
         NEW j \in Server, role'[j] = "leader" => role[j] = "leader" /\ term'[j] = term[j]
  PROVE  Stays(j)
<1>1. term[i] \in Nat /\ term[j] \in Nat /\ t \in Nat
  BY Bounds DEF ServerTypes, Term
<1>2. QED
  BY <1>1 DEF UpdateTerm, ServerTypes, Stays

LEMMA AllSame ==
  ASSUME ServerTypes, UNCHANGED <<term, election_completed, role>>, NEW j \in Server
  PROVE  Stays(j)
<1>1. term[j] \in Nat
  BY Bounds DEF ServerTypes, Term
<1>2. QED
  BY <1>1 DEF Stays

LEMMA NextOnceElected ==
  ASSUME TypeOK, ElectionsOver, DurableState, [Next]_vars
  PROVE  OnceElected
<1>1. TypeOK'
  BY NextType
<1>2. \A j \in Server : term[j] \in Nat
  BY Bounds DEF TypeOK, ServerTypes, Term
<1>3. CASE UNCHANGED <<term, election_completed, role, elections>>
  BY <1>1, <1>3, AllSame, NobodyElected DEF TypeOK
<1>4. ASSUME NEW i \in Server, ElectionTimeout(i) PROVE OnceElected
  <2>1. /\ term' = [term EXCEPT ![i] = term[i] + 1]
        /\ election_completed' = [election_completed EXCEPT ![i] = Wins(1)]
    BY <1>4 DEF ElectionTimeout
  <2>2. CASE Wins(1) /\ BecomeLeader(i, term[i] + 1, net)
    <3>1. \A j \in Server \ {i} : Stays(j)
      BY <1>2, <2>1, <2>2 DEF Stays, BecomeLeader, TypeOK, ServerTypes
    <3>2. /\ elections' = elections \cup {<<term'[i], i>>} /\ election_completed'[i]
          /\ term[i] <= term'[i] /\ term[i] # term'[i]
      BY <1>2, <2>1, <2>2 DEF BecomeLeader, TypeOK, ServerTypes
    <3>3. QED
      BY <1>1, <3>1, <3>2, SomebodyElected
  <2>3. CASE role' = [role EXCEPT ![i] = "candidate"] /\ UNCHANGED elections
    <3>1. \A j \in Server : Stays(j)
      BY <1>2, <2>1, <2>3 DEF Stays, TypeOK, ServerTypes
    <3>2. QED
      BY <1>1, <2>3, <3>1, NobodyElected
  <2>4. QED
    BY <1>4, <2>2, <2>3 DEF ElectionTimeout
<1>5. ASSUME NEW i \in Server, Restart(i) PROVE OnceElected
  <2>1. \A j \in Server : Stays(j)
    BY <1>2, <1>5 DEF Restart, Stays, TypeOK, ServerTypes
  <2>2. QED
    BY <1>1, <1>5, <2>1, NobodyElected DEF Restart, histVars
<1>6. ASSUME NEW m \in net, Deliver(m) PROVE OnceElected
  <2> DEFINE i == m.dst
  <2>1. i \in Server /\ (m.type # "client_request" => m.term \in Term)
    BY MessageMembers DEF TypeOK
  <2>2. CASE HandleVoteReq(m)
    <3>1. \A j \in Server : role'[j] = "leader" => role[j] = "leader" /\ term'[j] = term[j]
      BY <2>1, <2>2 DEF HandleVoteReq, UpdateTerm, TypeOK, ServerTypes
    <3>2. QED
      BY <1>1, <2>1, <2>2, <3>1, UpdateTermStays, NobodyElected DEF HandleVoteReq, TypeOK
  <2>3. CASE HandleVotingResp(m)
    <3>1. UNCHANGED term
      BY <2>3 DEF HandleVotingResp, stateVars
    <3>2. CASE UNCHANGED <<electionVars, role, elections>>
      BY <1>3, <3>1, <3>2 DEF electionVars
    <3>3. CASE /\ ~election_completed[i]
               /\ \E c \in BOOLEAN : election_completed' = [election_completed EXCEPT ![i] = c]
               /\ UNCHANGED <<role, elections>>
      <4>1. \A j \in Server : Stays(j)
        BY <1>2, <3>1, <3>3 DEF Stays, TypeOK, ServerTypes
      <4>2. QED
        BY <1>1, <3>3, <4>1, NobodyElected
    <3>4. CASE /\ ~election_completed[i]
               /\ election_completed' = [election_completed EXCEPT ![i] = TRUE]
               /\ BecomeLeader(i, term[i], net \ {m})
      <4>1. \A j \in Server \ {i} : Stays(j)
        BY <1>2, <3>1, <3>4 DEF Stays, BecomeLeader, TypeOK, ServerTypes
      <4>2. /\ elections' = elections \cup {<<term'[i], i>>} /\ election_completed'[i]
            /\ term[i] <= term'[i]
        BY <1>2, <2>1, <3>1, <3>4 DEF BecomeLeader, TypeOK, ServerTypes
      <4>3. QED
        BY <1>1, <2>1, <3>4, <4>1, <4>2, SomebodyElected
    <3>5. QED
      BY <2>3, <3>2, <3>3, <3>4 DEF HandleVotingResp
  <2>4. CASE HandleAppendEntries(m)
    <3>1. m.term \in Term
      BY <2>1, <2>4 DEF HandleAppendEntries
    <3>2. \A j \in Server : role'[j] = "leader" => role[j] = "leader" /\ term'[j] = term[j]
      BY <1>2, <2>1, <2>4, <3>1, Bounds
         DEF HandleAppendEntries, UpdateTerm, TypeOK, ServerTypes, Term
    <3>3. QED
      BY <1>1, <2>1, <2>4, <3>1, <3>2, UpdateTermStays, NobodyElected
         DEF HandleAppendEntries, TypeOK, histVars
  <2>5. CASE HandleNewerTermResp(m)
    <3>1. m.term \in Term /\ UpdateTerm(i, m.term) /\ UNCHANGED elections
      BY <2>1, <2>5 DEF HandleNewerTermResp, histVars
    <3>2. \A j \in Server : role'[j] = "leader" => role[j] = "leader" /\ term'[j] = term[j]
      BY <2>1, <2>5, <3>1 DEF HandleNewerTermResp, UpdateTerm, TypeOK, ServerTypes
    <3>3. QED
      BY <1>1, <2>1, <3>1, <3>2, UpdateTermStays, NobodyElected DEF TypeOK
  <2>6. CASE RivalLeaderExit(m) \/ HandleAppendEntriesResp(m) \/ ForwardedRequest(m)
    BY <1>3, <2>6 DEF RivalLeaderExit, HandleAppendEntriesResp, ForwardedRequest,
       stateVars, electionVars, histVars
  <2>7. QED
    BY <1>6, <2>2, <2>3, <2>4, <2>5, <2>6 DEF Deliver
<1>7. ASSUME NEW i \in Server, NEW p \in Server, HbTimeout(i, p) PROVE OnceElected
  BY <1>3, <1>7 DEF HbTimeout, stateVars, electionVars, histVars
<1>8. ASSUME NEW i \in Server, ClientRequest(i) \/ CommitInBg(i) PROVE OnceElected
  BY <1>3, <1>8 DEF ClientRequest, CommitInBg, stateVars, electionVars, histVars
<1>9. ASSUME NEW m \in net, RpcError(m) PROVE OnceElected
  BY <1>3, <1>9 DEF RpcError, stateVars, electionVars, histVars
<1>10. CASE UNCHANGED vars
  BY <1>3, <1>10 DEF vars, stateVars, electionVars, histVars
<1>11. QED
  BY <1>4, <1>5, <1>6, <1>7, <1>8, <1>9, <1>10 DEF Next

-----------------------------------------------------------------------------
(* Logs match *)

\* Among the known entries of a leader's term, the end of its log is free: they
\* are the leader's own, or there are none when it has just been elected.
LEMMA EndIsFree ==
  ASSUME LInv', ElectionSafety', OnceElected, Owned, LeaderElected,
         NEW i \in Server, role'[i] = "leader",
         NEW k, NEW e, NEW u, Known(k, e, u), e.term = term'[i]
  PROVE  k <= Len(log[i])
<1>1. PICK l \in Server :
        /\ <<e.term, l>> \in elections
        /\ role[l] = "leader" /\ term[l] = e.term => k <= Len(log[l])
  BY DEF Owned
<1>2. <<term'[i], i>> \in elections' /\ <<term'[i], l>> \in elections'
  BY <1>1 DEF LInv, LeaderElected, OnceElected
<1>3. l = i
  BY <1>2 DEF ElectionSafety
<1>4. role[i] = "leader" /\ term'[i] = term[i]
  BY <1>1, <1>3 DEF OnceElected
<1>5. QED
  BY <1>1, <1>3, <1>4

LEMMA KnownIndex ==
  ASSUME NEW k, NEW e, NEW u, Known(k, e, u)
  PROVE  k \in Int
BY DEF Known, InLog, InRequest

LEMMA NextMatching ==
  ASSUME LInv, LInv', ElectionSafety', Matching, DurableState, [Next]_vars
  PROVE  Matching'
<1> USE DEF Matching, LInv
<1>1. Adds /\ OnceElected
  BY NextAdds, NextOnceElected
<1>2. \A l \in Server : Len(log[l]) \in Nat /\ Len(log'[l]) \in Nat
  <2>1. \A l \in Server : log[l] \in Seq(Entry) /\ log'[l] \in Seq(Entry)
    BY DEF TypeOK, LogTypes
  <2>2. QED
    BY <2>1, LenProperties
<1>3. \A l \in Server : role'[l] = "leader" => Len(log[l]) <= Len(log'[l])
  <2> SUFFICES ASSUME NEW l \in Server, role'[l] = "leader"
               PROVE  Len(log[l]) <= Len(log'[l])
    OBVIOUS
  <2>1. log[l] \in Seq(Entry)
    BY DEF TypeOK, LogTypes
  <2>2. QED
    BY <2>1, LeaderGrown, GrownExtends DEF Grown
<1>4. ASSUME NEW k, NEW e, NEW u, Known(k, e, u)
      PROVE  \E l \in Server :
               /\ <<e.term, l>> \in elections'
               /\ role'[l] = "leader" /\ term'[l] = e.term => k <= Len(log'[l])
  <2>1. PICK l \in Server : <<e.term, l>> \in elections
    BY <1>4 DEF Owned
  <2>2. <<e.term, l>> \in elections'
    BY <1>1, <2>1 DEF OnceElected
  <2>3. ASSUME role'[l] = "leader", term'[l] = e.term PROVE k <= Len(log'[l])
    <3>1. k <= Len(log[l])
      BY <1>1, <1>4, <2>3, EndIsFree
    <3>2. QED
      BY <1>2, <1>3, <1>4, <2>3, <3>1, KnownIndex
  <2>4. QED
    BY <2>2, <2>3
<1>5. CASE NoNew
  BY <1>1, <1>4, <1>5 DEF NoNew, Unique, Owned, Adds, OnceElected
<1>6. ASSUME NEW i \in Server, OneNew(i) PROVE Matching'
  <2>1. PICK a \in Entry :
          /\ role'[i] = "leader" /\ a.term = term'[i]
          /\ Len(log'[i]) = Len(log[i]) + 1
          /\ \A k, e, u : Known(k, e, u)' =>
               \/ Known(k, e, u)
               \/ k = Len(log[i]) + 1 /\ e = a /\ u = LastTerm(log[i])
    BY <1>6 DEF OneNew
  <2>2. \A k, e, u : Known(k, e, u) /\ e.term = a.term => k # Len(log[i]) + 1
    <3> SUFFICES ASSUME NEW k, NEW e, NEW u, Known(k, e, u), e.term = a.term
                 PROVE  k # Len(log[i]) + 1
      OBVIOUS
    <3>1. k <= Len(log[i])
      BY <1>1, <2>1, EndIsFree
    <3>2. QED
      BY <1>2, <3>1
  <2>3. Unique'
    BY <2>1, <2>2 DEF Unique
  <2>4. <<a.term, i>> \in elections'
    BY <2>1 DEF LeaderElected
  <2>5. \A l \in Server : <<a.term, l>> \in elections' => l = i
    BY <2>4 DEF ElectionSafety
  <2>6. Len(log[i]) + 1 <= Len(log'[i])
    BY <1>2, <2>1
  <2>7. Owned'
    BY <1>4, <2>1, <2>4, <2>6 DEF Owned
  <2>8. QED
    BY <1>1, <2>3, <2>7 DEF Adds, OnceElected
<1>7. QED
  BY <1>1, <1>5, <1>6 DEF Adds

LEMMA InitMatching == Init => Matching
<1> SUFFICES ASSUME Init PROVE Matching
  OBVIOUS
<1>1. \A i \in Server : log[i] = << >> /\ Len(log[i]) = 0
  BY DEF Init
<1>2. ASSUME NEW k, NEW e, NEW u, Known(k, e, u) PROVE FALSE
  BY <1>1, <1>2 DEF Init, Known, InLog
<1>3. QED
  BY <1>2 DEF Init, Matching, Unique, Owned, FirstOkay, ElectionsOver

\* Entries that are told by their index and term are the same all the way down.
LEMMA UniqueMatches ==
  ASSUME LogTypes, Unique
  PROVE  LogMatching
<1> SUFFICES ASSUME NEW i \in Server, NEW p \in Server,
                    NEW k \in 1 .. Smaller(Len(log[i]), Len(log[p])),
                    log[i][k].term = log[p][k].term
             PROVE  SubSeq(log[i], 1, k) = SubSeq(log[p], 1, k)
  BY DEF LogMatching
<1> DEFINE x == log[i]
           y == log[p]
           B == {j \in 1 .. k : x[j] # y[j]}
<1>1. x \in Seq(Entry) /\ y \in Seq(Entry) /\ Len(x) \in Nat /\ Len(y) \in Nat
  BY LenProperties DEF LogTypes
<1>2. k \in Nat /\ k <= Len(x) /\ k <= Len(y) /\ k >= 1
  BY <1>1 DEF Smaller
<1>3. \A j \in 1 .. k : Known(j, x[j], TermAt(x, j - 1)) /\ Known(j, y[j], TermAt(y, j - 1))
  <2> SUFFICES ASSUME NEW j \in 1 .. k
               PROVE  Known(j, x[j], TermAt(x, j - 1)) /\ Known(j, y[j], TermAt(y, j - 1))
    OBVIOUS
  <2>1. j \in 1 .. Len(log[i]) /\ j \in 1 .. Len(log[p])
    BY <1>1, <1>2
  <2>2. QED
    BY <2>1 DEF Known, InLog
<1>4. \A j \in 1 .. k : x[j].term = y[j].term => x[j] = y[j] /\ TermAt(x, j - 1) = TermAt(y, j - 1)
  BY <1>3 DEF Unique
<1> HIDE DEF x, y
<1>5. B = {}
  <2> SUFFICES ASSUME B # {} PROVE FALSE
    OBVIOUS
  <2>1. B \in SUBSET Int /\ IsFiniteSet(B)
    <3>1. IsFiniteSet(1 .. k)
      <4>1. k \in Int /\ 1 \in Int
        BY <1>2
      <4>2. QED
        BY <4>1, FS_Interval
    <3>2. B \in SUBSET (1 .. k) /\ B \in SUBSET Int
      OBVIOUS
    <3> HIDE DEF B
    <3>3. QED
      BY <3>1, <3>2, FS_Subset
  <2>2. PICK j \in B : \A h \in B : j >= h
    <3> HIDE DEF B
    <3>1. QED
      BY <2>1, FiniteMax
  <2>3. j # k
    BY <1>2, <1>4 DEF x, y
  <2>4. /\ j \in 1 .. k /\ j \in Int /\ j # 0
        /\ j + 1 \in 1 .. k /\ (j + 1) - 1 = j /\ ~(j >= j + 1)
    <3>1. j \in 1 .. k
      OBVIOUS
    <3> HIDE DEF B
    <3>2. QED
      BY <1>2, <2>3, <3>1
  <2>5. x[j + 1] = y[j + 1]
    BY <2>2, <2>4
  <2> HIDE DEF B
  <2>6. TermAt(x, j) = TermAt(y, j)
    BY <1>4, <2>4, <2>5
  <2>7. x[j].term = y[j].term
    BY <2>4, <2>6 DEF TermAt
  <2>8. QED
    BY <1>4, <2>2, <2>4, <2>7 DEF B
<1>6. \A j \in 1 .. k : x[j] = y[j]
  BY <1>5
<1>7. SubSeq(x, 1, k) = SubSeq(y, 1, k)
  BY <1>1, <1>2, <1>6
<1>8. QED
  BY <1>7 DEF x, y

\* With a state_mgr that saves, two logs with an entry of the same term at the
\* same index agree up to it, through restarts, changes of leader and requests
\* that are lost or late.
THEOREM LogsMatch == DurableState => (Spec => []LogMatching)
<1> SUFFICES ASSUME DurableState PROVE Spec => []LogMatching
  OBVIOUS
<1>1. LInv /\ LInv' /\ ElectionSafety' /\ Matching /\ [Next]_vars => Matching'
  BY NextMatching
<1>2. LInv /\ Matching => LogMatching
  BY UniqueMatches DEF LInv, TypeOK, Matching
<1>3. Spec => []ElectionSafety
  BY OneRaftLeader
<1>4. QED
  BY <1>1, <1>2, <1>3, InitLInv, NextLInv, InitMatching, PTL DEF Spec
=============================================================================
