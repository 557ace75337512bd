------------------------------ MODULE RaftServer ------------------------------
(***************************************************************************)
(* The consensus core of raftcore: class raft_server and the peer objects  *)
(* it owns, one instance per member of a fixed cluster, exchanging vote    *)
(* and append requests over the rpc clients.  Every handler runs under     *)
(* raft_server::lock_, so a handler is one action; the committing thread   *)
(* does not take that lock for an application entry and is an action of    *)
(* its own.  Snapshots, prevote and membership changes are switched off,   *)
(* as raft_node.cpp runs the server.                                       *)
(***************************************************************************)
EXTENDS Integers, Sequences, FiniteSets, FiniteSetsExt

CONSTANTS
  Server,        \* the ids in the cluster configuration
  None,          \* leader_ = -1 and voted_for = -1
  DurableState,  \* TRUE: a state_mgr that saves; FALSE: simple_state_mgr
  Heartbeats,    \* whether hb timers fire (FALSE: hb interval past the horizon)
  MaxAppend,     \* raft_params::max_append_size_
  ULongMax,      \* stands for 2^64 - 1, what 0UL - 1 wraps to
  MaxTerm, MaxRequests, MaxErrors, MaxRestarts  \* bounds of an exploration

ASSUME ServerAssumption ==
  /\ IsFiniteSet(Server) /\ Server # {}
  /\ None \notin Server
ASSUME ParameterAssumption ==
  /\ DurableState \in BOOLEAN /\ Heartbeats \in BOOLEAN
  /\ MaxAppend \in Nat \ {0} /\ ULongMax \in Nat
  /\ {MaxTerm, MaxRequests, MaxErrors, MaxRestarts} \subseteq Nat

VARIABLES
  \* raft_server, one value per server
  status,              \* "up", or why the process has exited
  term, voted_for,     \* srv_state: term_ and voted_for_
  role, leader_,
  election_completed, votes_granted, voted_servers,
  log,                 \* log_store_, index 1 first
  conf_idx,            \* config_->get_log_idx()
  saved_conf_idx,      \* the same of the configuration last saved
  quick_commit_idx, sm_commit_index,
  \* peer, one value per server and member
  next_log_idx, matched_idx, busy, pending_commit,
  \* requests and responses in flight
  net,
  \* history: <<voter, term, candidate>>, <<term, leader>>, <<index, entry>>
  votes, elections, applied,
  \* how often each bounded event has happened
  requests, errors, restarts

electionVars == <<election_completed, votes_granted, voted_servers>>
stateVars == <<term, voted_for>>
logVars == <<log, conf_idx, saved_conf_idx>>
commitVars == <<quick_commit_idx, sm_commit_index>>
peerVars == <<next_log_idx, matched_idx, busy, pending_commit>>
histVars == <<votes, elections, applied>>
boundVars == <<requests, errors, restarts>>
vars == <<status, stateVars, role, leader_, electionVars, logVars, commitVars,
          peerVars, net, histVars, boundVars>>

Peers(i) == Server \ {i}
Half == Cardinality(Server) \div 2
Larger(a, b) == IF a > b THEN a ELSE b
Smaller(a, b) == IF a < b THEN a ELSE b

\* votes_granted_ > (peers_.size() + 1) / 2
WinsTie(n) == n >= Half    \* mutant: half the votes are enough
Wins(n) == n > Half

-----------------------------------------------------------------------------
(* Log entries and messages *)

Term == 0 .. MaxTerm
Entry == [term : Term, kind : {"app", "conf"}]

\* raft_server::term_for_log, with no snapshot and start_index() = 1
TermAt(lg, k) == IF k = 0 THEN 0 ELSE lg[k].term

LastTerm(lg) == TermAt(lg, Len(lg))

VoteRequest ==
  [type : {"vote_request"}, term : Term, src : Server, dst : Server,
   last_idx : Nat, last_term : Term, open : BOOLEAN]
AppendRequest ==
  [type : {"append_entries_request"}, term : Term, src : Server, dst : Server,
   last_idx : Nat, last_term : Term, entries : Seq(Entry), commit : Nat,
   open : BOOLEAN]
ClientMessage ==
  [type : {"client_request"}, src : Server, dst : Server, open : BOOLEAN]
VoteResponse ==
  [type : {"vote_response"}, term : Term, src : Server, dst : Server,
   accepted : BOOLEAN]
AppendResponse ==
  [type : {"append_entries_response"}, term : Term, src : Server, dst : Server,
   accepted : BOOLEAN, next_idx : Nat \ {0}]
Message == VoteRequest \cup AppendRequest \cup ClientMessage
             \cup VoteResponse \cup AppendResponse

\* A request is open while the callback waiting for its answer exists.
IsRequest(m) ==
  m.type \in {"vote_request", "append_entries_request", "client_request"}
IsAppend(m) ==
  m.type \in {"append_entries_request", "append_entries_response"}
Caller(m) == IF IsRequest(m) THEN m.src ELSE m.dst
Callee(m) == IF IsRequest(m) THEN m.dst ELSE m.src

\* The answer goes back on the connection the request came from, if any.
Reply(req, resp) == (net \ {req}) \cup (IF req.open THEN {resp} ELSE {})

VoteReq(i, p, t) ==
  [type |-> "vote_request", term |-> t, src |-> i, dst |-> p,
   last_idx |-> Len(log[i]), last_term |-> LastTerm(log[i]), open |-> TRUE]

\* raft_server::create_append_entries_req for a peer whose next index is n
AppendReq(i, p, t, lg, n, commit) ==
  [type |-> "append_entries_request", term |-> t, src |-> i, dst |-> p,
   last_idx |-> n - 1, last_term |-> TermAt(lg, n - 1),
   entries |-> SubSeq(lg, n, Smaller(Len(lg), n + MaxAppend - 1)),
   commit |-> commit, open |-> TRUE]

ClientReq(i, p) ==
  [type |-> "client_request", src |-> i, dst |-> p, open |-> FALSE]

-----------------------------------------------------------------------------
(* Steps shared by the handlers *)

\* raft_server::update_term, at i, for a request or response of term t
UpdateTerm(i, t) ==
  LET newer == t > term[i] IN
  /\ term' = [term EXCEPT ![i] = IF newer THEN t ELSE @]
  /\ election_completed' = [election_completed EXCEPT ![i] = @ /\ ~newer]
  /\ votes_granted' = [votes_granted EXCEPT ![i] = IF newer THEN 0 ELSE @]
  /\ voted_servers' = [voted_servers EXCEPT ![i] = IF newer THEN {} ELSE @]

\* voted_for_ as update_term leaves it
ForgetVote(i, t) == None   \* mutant: every request finds the vote unused
VotedFor(i, t) == IF t > term[i] THEN None ELSE voted_for[i]

(***************************************************************************)
(* raft_server::request_append_entries for the peers in P: the free ones   *)
(* become busy and get a request built from log lg, next indexes nx and    *)
(* commit index qc; the busy ones are skipped.  A next index of 0 is       *)
(* replaced by next_slot; one past next_slot ends the process, after any   *)
(* of the other requests went out (the order of peers_ is unspecified).    *)
(***************************************************************************)
RequestAppendEntries(i, P, rest, lg, nx, bz, qc) ==
  LET free == {p \in P : ~bz[p]}
      start == [p \in Server |->
                  IF p \in free /\ nx[p] = 0 THEN Len(lg) + 1 ELSE nx[p]]
      over == {p \in free : start[p] > Len(lg) + 1}
      msgs(Q) == {AppendReq(i, p, term[i], lg, start[p], qc) : p \in Q}
  IN
  \/ /\ over = {}
     /\ net' = rest \cup msgs(free)
     /\ next_log_idx' = [next_log_idx EXCEPT ![i] = start]
     /\ busy' = [busy EXCEPT ![i] = [p \in Server |-> bz[p] \/ p \in free]]
     /\ UNCHANGED status
  \/ /\ over # {}
     /\ \E Q \in SUBSET (free \ over) : net' = rest \cup msgs(Q)
     /\ next_log_idx' = [next_log_idx EXCEPT ![i] = start]
     /\ busy' = [busy EXCEPT ![i] = bz]
     /\ status' = [status EXCEPT ![i] = "index_too_large"]

(***************************************************************************)
(* raft_server::become_leader in term t.  Next indexes are taken before a  *)
(* first configuration entry is appended, every peer is set free and gets  *)
(* a request at once.  matched_idx and pending_commit are not reset.  A    *)
(* cluster of one commits instead of sending.                              *)
(***************************************************************************)
BecomeLeader(i, t, rest) ==
  LET lg == IF conf_idx[i] = 0
            THEN Append(log[i], [term |-> t, kind |-> "conf"]) ELSE log[i]
      slot == Len(log[i]) + 1
  IN
  /\ role' = [role EXCEPT ![i] = "leader"]
  /\ leader_' = [leader_ EXCEPT ![i] = i]
  /\ elections' = elections \cup {<<t, i>>}
  /\ log' = [log EXCEPT ![i] = lg]
  /\ conf_idx' = [conf_idx EXCEPT ![i] = IF @ = 0 THEN slot ELSE @]
  /\ next_log_idx' = [next_log_idx EXCEPT ![i] = [p \in Server |-> slot]]
  /\ busy' = [busy EXCEPT ![i] = [p \in Server |-> p # i]]
  /\ net' = rest \cup
       {AppendReq(i, p, t, lg, slot, quick_commit_idx[i]) : p \in Peers(i)}
  /\ quick_commit_idx' = [quick_commit_idx EXCEPT ![i] =
       IF Peers(i) = {} THEN Larger(@, Len(lg)) ELSE @]

-----------------------------------------------------------------------------
(* Elections *)

VoteLogOkay(i, m) ==
  \/ m.last_term > LastTerm(log[i])
  \/ m.last_term = LastTerm(log[i]) /\ Len(log[i]) <= m.last_idx

\* raft_server::handle_election_timeout, become_candidate and request_vote
ElectionTimeout(i) ==
  LET t == term[i] + 1 IN
  /\ status[i] = "up" /\ role[i] # "leader" /\ term[i] < MaxTerm
  /\ term' = [term EXCEPT ![i] = t]
  /\ voted_for' = [voted_for EXCEPT ![i] = i]
  /\ votes' = votes \cup {<<i, t, i>>}
  /\ votes_granted' = [votes_granted EXCEPT ![i] = 1]
  /\ voted_servers' = [voted_servers EXCEPT ![i] = {i}]
  /\ election_completed' = [election_completed EXCEPT ![i] = Wins(1)]
  /\ \/ /\ Wins(1)
        /\ BecomeLeader(i, t, net)
     \/ /\ ~Wins(1)
        /\ role' = [role EXCEPT ![i] = "candidate"]
        /\ net' = net \cup {VoteReq(i, p, t) : p \in Peers(i)}
        /\ UNCHANGED <<leader_, elections, log, conf_idx, next_log_idx, busy,
                       quick_commit_idx>>
  /\ UNCHANGED <<status, saved_conf_idx, sm_commit_index, matched_idx,
                 pending_commit, applied, boundVars>>

\* raft_server::process_req and handle_vote_req
HandleVoteReq(m) ==
  LET i == m.dst
      grant == /\ m.term >= term[i]
               /\ VoteLogOkay(i, m)
               /\ VotedFor(i, m.term) \in {m.src, None}
  IN
  /\ m.type = "vote_request" /\ status[i] = "up"
  /\ UpdateTerm(i, m.term)
  /\ role' = [role EXCEPT ![i] = IF m.term > term[i] THEN "follower" ELSE @]
  /\ voted_for' = [voted_for EXCEPT ![i] =
                     IF grant THEN m.src ELSE VotedFor(i, m.term)]
  /\ votes' = IF grant THEN votes \cup {<<i, m.term, m.src>>} ELSE votes
  /\ net' = Reply(m, [type |-> "vote_response", term |-> Larger(term[i], m.term),
                      src |-> i, dst |-> m.src, accepted |-> grant])
  /\ UNCHANGED <<status, leader_, logVars, commitVars, peerVars, elections,
                 applied, boundVars>>

\* raft_server::handle_voting_resp, for a response that starts no new term
HandleVotingResp(m) ==
  LET i == m.dst
      counted == /\ m.term = term[i] /\ ~election_completed[i]
                 /\ m.src \notin voted_servers[i]
      granted == votes_granted[i] + (IF m.accepted THEN 1 ELSE 0)
      voted == voted_servers[i] \cup {m.src}
  IN
  /\ m.type = "vote_response" /\ status[i] = "up" /\ m.term <= term[i]
  /\ \/ /\ ~counted
        /\ net' = net \ {m}
        /\ UNCHANGED <<electionVars, role, leader_, elections, log, conf_idx,
                       next_log_idx, busy, quick_commit_idx>>
     \/ /\ counted
        /\ votes_granted' = [votes_granted EXCEPT ![i] = granted]
        /\ voted_servers' = [voted_servers EXCEPT ![i] = voted]
        /\ election_completed' = [election_completed EXCEPT ![i] =
             Wins(granted) \/ Cardinality(voted) >= Cardinality(Server)]
        /\ \/ /\ Wins(granted)
              /\ BecomeLeader(i, term[i], net \ {m})
           \/ /\ ~Wins(granted)
              /\ net' = net \ {m}
              /\ UNCHANGED <<role, leader_, elections, log, conf_idx,
                             next_log_idx, busy, quick_commit_idx>>
  /\ UNCHANGED <<status, stateVars, saved_conf_idx, sm_commit_index,
                 matched_idx, pending_commit, votes, applied, boundVars>>

-----------------------------------------------------------------------------
(* Log replication *)

\* The log after a leader's entries es, which follow index prev, are merged:
\* entries that agree are skipped, the first that does not cuts the rest off.
SkipOverlap(lg, prev, es) ==  \* mutant: overlapping entries are not compared
  lg \o SubSeq(es, Larger(Len(lg) - prev, 0) + 1, Len(es))
MergeLog(lg, prev, es) ==
  LET agree(k) == \A j \in 1 .. k :
                    /\ prev + j <= Len(lg)
                    /\ lg[prev + j].term = es[j].term
      n == Max({k \in 0 .. Len(es) : agree(k)})
  IN  IF n = Len(es) THEN lg
      ELSE SubSeq(lg, 1, prev + n) \o SubSeq(es, n + 1, Len(es))

LogOkay(i, m) ==
  \/ m.last_idx = 0
  \/ /\ m.last_idx <= Len(log[i])
     /\ m.last_term = TermAt(log[i], m.last_idx)

AcceptAnyTerm(i, m) == LogOkay(i, m)   \* mutant: old leaders are believed
AcceptEntries(i, m) == m.term >= term[i] /\ LogOkay(i, m)

\* raft_server::process_req and handle_append_entries
HandleAppendEntries(m) ==
  LET i == m.dst
      accept == AcceptEntries(i, m)
      follow == m.term >= term[i]
  IN
  /\ m.type = "append_entries_request" /\ status[i] = "up"
  /\ ~(m.term = term[i] /\ role[i] = "leader")
  /\ UpdateTerm(i, m.term)
  /\ voted_for' = [voted_for EXCEPT ![i] = VotedFor(i, m.term)]
  /\ role' = [role EXCEPT ![i] = IF follow THEN "follower" ELSE @]
  /\ log' = [log EXCEPT ![i] =
               IF accept THEN MergeLog(@, m.last_idx, m.entries) ELSE @]
  /\ leader_' = [leader_ EXCEPT ![i] = IF accept THEN m.src ELSE @]
  /\ quick_commit_idx' = [quick_commit_idx EXCEPT ![i] =
               IF accept THEN Larger(@, m.commit) ELSE @]
  /\ net' = Reply(m, [type |-> "append_entries_response",
                      term |-> Larger(term[i], m.term),
                      src |-> i, dst |-> m.src, accepted |-> accept,
                      next_idx |-> IF accept
                                   THEN m.last_idx + Len(m.entries) + 1
                                   ELSE Len(log[i]) + 1])
  /\ UNCHANGED <<status, conf_idx, saved_conf_idx, sm_commit_index, peerVars,
                 histVars, boundVars>>

\* "Receive AppendEntriesRequest from another leader with same term": exit;
\* the caller's connection breaks and its error callback frees the peer.
RivalLeaderExit(m) ==
  /\ m.type = "append_entries_request" /\ status[m.dst] = "up"
  /\ m.term = term[m.dst] /\ role[m.dst] = "leader"
  /\ status' = [status EXCEPT ![m.dst] = "rival_leader"]
  /\ busy' = [busy EXCEPT ![m.src][m.dst] = @ /\ ~m.open]
  /\ net' = net \ {m}
  /\ UNCHANGED <<stateVars, role, leader_, electionVars, logVars, commitVars,
                 next_log_idx, matched_idx, pending_commit, histVars, boundVars>>

\* matched_indexes[(peers_.size() + 1) / 2] of the descending sort: the
\* largest index that Half + 1 members, the server itself included, reach
MajorityMatched(i, matched) ==
  LET reach == [p \in Server |-> IF p = i THEN Len(log[i]) ELSE matched[p]]
  IN  Max({v \in {reach[p] : p \in Server} :
             Cardinality({p \in Server : reach[p] >= v}) > Half})

\* ulong subtraction
Decrement(n) == IF n = 0 THEN ULongMax ELSE n - 1

CatchUpEntriesOnly(i, m) ==   \* mutant: pending_commit is not looked at
  ~m.accepted \/ m.next_idx <= Len(log[i])
NeedToCatchUp(i, m) ==
  \/ ~m.accepted
  \/ pending_commit[i][m.src]
  \/ m.next_idx <= Len(log[i])

\* peer::handle_rpc_result (which frees the peer), handle_append_entries_resp
\* and commit, for a response that starts no new term.  There is no test that
\* the response belongs to the current term.
HandleAppendEntriesResp(m) ==
  LET i == m.dst
      p == m.src
      bz == [busy[i] EXCEPT ![p] = FALSE]
      nx == [next_log_idx[i] EXCEPT ![p] =
               IF m.accepted \/ (m.next_idx > 0 /\ @ > m.next_idx)
               THEN m.next_idx ELSE Decrement(@)]
      mt == IF m.accepted
            THEN [matched_idx[i] EXCEPT ![p] = m.next_idx - 1] ELSE matched_idx[i]
      target == IF m.accepted THEN MajorityMatched(i, mt) ELSE 0
      qc == Larger(quick_commit_idx[i], target)
      spread == role[i] = "leader" /\ target > quick_commit_idx[i]
      catchUp == role[i] = "leader" /\ NeedToCatchUp(i, m)
  IN
  /\ m.type = "append_entries_response" /\ status[i] = "up" /\ m.term <= term[i]
  /\ matched_idx' = [matched_idx EXCEPT ![i] = mt]
  /\ quick_commit_idx' = [quick_commit_idx EXCEPT ![i] = qc]
  /\ pending_commit' = [pending_commit EXCEPT ![i] = [q \in Server |->
       /\ ~(m.accepted /\ q = p)
       /\ pending_commit[i][q] \/ (spread /\ bz[q])]]
  /\ RequestAppendEntries(i,
       IF spread THEN Peers(i) ELSE IF catchUp THEN {p} ELSE {},
       net \ {m}, log[i], nx, bz, qc)
  /\ UNCHANGED <<stateVars, role, leader_, electionVars, logVars,
                 sm_commit_index, histVars, boundVars>>

\* handle_peer_resp when update_term finds a newer term: nothing else is done
HandleNewerTermResp(m) ==
  LET i == m.dst IN
  /\ m.type \in {"vote_response", "append_entries_response"}
  /\ status[i] = "up" /\ m.term > term[i]
  /\ UpdateTerm(i, m.term)
  /\ voted_for' = [voted_for EXCEPT ![i] = None]
  /\ role' = [role EXCEPT ![i] = "follower"]
  /\ busy' = [busy EXCEPT ![i][m.src] = @ /\ ~IsAppend(m)]
  /\ net' = net \ {m}
  /\ UNCHANGED <<status, leader_, logVars, commitVars, next_log_idx,
                 matched_idx, pending_commit, histVars, boundVars>>

\* raft_server::handle_hb_timeout; for a busy peer it only reschedules itself
HbTimeout(i, p) ==
  /\ Heartbeats
  /\ status[i] = "up" /\ role[i] = "leader"
  /\ p \in Peers(i) /\ ~busy[i][p]
  /\ RequestAppendEntries(i, {p}, net, log[i], next_log_idx[i], busy[i],
                          quick_commit_idx[i])
  /\ UNCHANGED <<stateVars, role, leader_, electionVars, logVars, commitVars,
                 matched_idx, pending_commit, histVars, boundVars>>

-----------------------------------------------------------------------------
(* Client requests, the committing thread, failures *)

ForwardsToNobody(i) ==   \* mutant: leader_ = -1 is taken for a server
  role[i] # "leader" /\ leader_[i] # i
Forwards(i) == role[i] # "leader" /\ leader_[i] \notin {i, None}

(***************************************************************************)
(* raft_server::handle_cli_req of a request with one entry.  A leader may  *)
(* find itself expired and refuse; another server forwards the request to  *)
(* the leader it believes in, unless that is nobody or itself.             *)
(***************************************************************************)
HandleCliReq(i, rest) ==
  LET lg == Append(log[i], [term |-> term[i], kind |-> "app"]) IN
  \/ /\ role[i] = "leader"
     /\ log' = [log EXCEPT ![i] = lg]
     /\ quick_commit_idx' = [quick_commit_idx EXCEPT ![i] =
          IF Peers(i) = {} THEN Larger(@, Len(lg)) ELSE @]
     /\ RequestAppendEntries(i, Peers(i), rest, lg, next_log_idx[i], busy[i],
                             quick_commit_idx[i])
  \/ /\ role[i] = "leader" \/ ~Forwards(i)
     /\ net' = rest
     /\ UNCHANGED <<status, log, quick_commit_idx, next_log_idx, busy>>
  \/ /\ Forwards(i)
     /\ net' = rest \cup {ClientReq(i, leader_[i])}
     /\ UNCHANGED <<status, log, quick_commit_idx, next_log_idx, busy>>

ClientRequest(i) ==
  /\ status[i] = "up" /\ requests < MaxRequests
  /\ requests' = requests + 1
  /\ HandleCliReq(i, net)
  /\ UNCHANGED <<stateVars, role, leader_, electionVars, conf_idx,
                 saved_conf_idx, sm_commit_index, matched_idx, pending_commit,
                 histVars, errors, restarts>>

ForwardedRequest(m) ==
  /\ m.type = "client_request" /\ status[m.dst] = "up"
  /\ HandleCliReq(m.dst, net \ {m})
  /\ UNCHANGED <<stateVars, role, leader_, electionVars, conf_idx,
                 saved_conf_idx, sm_commit_index, matched_idx, pending_commit,
                 histVars, boundVars>>

\* One turn of the inner loop of raft_server::commit_in_bg
CommitInBg(i) ==
  LET k == sm_commit_index[i] + 1 IN
  /\ status[i] = "up"
  /\ k <= quick_commit_idx[i] /\ k <= Len(log[i])
  /\ sm_commit_index' = [sm_commit_index EXCEPT ![i] = k]
  /\ applied' = applied \cup {<<k, log[i][k]>>}
  /\ IF log[i][k].kind = "conf"
     THEN /\ saved_conf_idx' = [saved_conf_idx EXCEPT ![i] = k]
          /\ conf_idx' = [conf_idx EXCEPT ![i] = Larger(@, k)]
     ELSE UNCHANGED <<saved_conf_idx, conf_idx>>
  /\ UNCHANGED <<status, stateVars, role, leader_, electionVars, log,
                 quick_commit_idx, peerVars, net, votes, elections, boundVars>>

\* peer::handle_rpc_result on an error: an open call for entries ends
StaysBusy(m) == FALSE   \* mutant: only an answer sets the peer free
FreedByError(m) == IsAppend(m) /\ (IsRequest(m) => m.open)

(***************************************************************************)
(* The transport fails: an answer is lost, or a request is, or a request   *)
(* still arrives but its caller has given up.  The error callback frees    *)
(* the peer and changes nothing else.                                      *)
(***************************************************************************)
RpcError(m) ==
  /\ errors < MaxErrors
  /\ errors' = errors + 1
  /\ \/ net' = net \ {m}
     \/ /\ IsRequest(m) /\ m.open
        /\ net' = (net \ {m}) \cup {[m EXCEPT !.open = FALSE]}
  /\ busy' = [busy EXCEPT ![Caller(m)][Callee(m)] =
                @ /\ ~FreedByError(m)]
  /\ UNCHANGED <<status, stateVars, role, leader_, electionVars, logVars,
                 commitVars, next_log_idx, matched_idx, pending_commit,
                 histVars, requests, restarts>>

(***************************************************************************)
(* The process dies and its constructor runs again.  The log is kept by    *)
(* fs_log_store, the term, the vote and the configuration only by a        *)
(* state_mgr that saves them, the state machine not at all.  Its requests  *)
(* in flight may still arrive, its callbacks are gone.                     *)
(***************************************************************************)
Restart(i) ==
  /\ restarts < MaxRestarts
  /\ restarts' = restarts + 1
  /\ status' = [status EXCEPT ![i] = "up"]
  /\ term' = [term EXCEPT ![i] = IF DurableState THEN @ ELSE 0]
  /\ voted_for' = [voted_for EXCEPT ![i] = IF DurableState THEN @ ELSE None]
  /\ conf_idx' = [conf_idx EXCEPT ![i] =
                    IF DurableState THEN saved_conf_idx[i] ELSE 0]
  /\ role' = [role EXCEPT ![i] = "follower"]
  /\ leader_' = [leader_ EXCEPT ![i] = None]
  /\ election_completed' = [election_completed EXCEPT ![i] = TRUE]
  /\ votes_granted' = [votes_granted EXCEPT ![i] = 0]
  /\ voted_servers' = [voted_servers EXCEPT ![i] = {}]
  /\ quick_commit_idx' = [quick_commit_idx EXCEPT ![i] = 0]
  /\ sm_commit_index' = [sm_commit_index EXCEPT ![i] = 0]
  /\ next_log_idx' = [next_log_idx EXCEPT ![i] = [p \in Server |-> 0]]
  /\ matched_idx' = [matched_idx EXCEPT ![i] = [p \in Server |-> 0]]
  /\ busy' = [busy EXCEPT ![i] = [p \in Server |-> FALSE]]
  /\ pending_commit' = [pending_commit EXCEPT ![i] = [p \in Server |-> FALSE]]
  /\ net' = {m \in net : Caller(m) # i}
              \cup {[m EXCEPT !.open = FALSE] :
                      m \in {r \in net : IsRequest(r) /\ r.src = i}}
  /\ UNCHANGED <<log, saved_conf_idx, histVars, requests, errors>>

-----------------------------------------------------------------------------
(* The specification *)

\* raft_server::raft_server, at every member, on empty stores
Init ==
  /\ status = [i \in Server |-> "up"]
  /\ term = [i \in Server |-> 0]
  /\ voted_for = [i \in Server |-> None]
  /\ role = [i \in Server |-> "follower"]
  /\ leader_ = [i \in Server |-> None]
  /\ election_completed = [i \in Server |-> TRUE]
  /\ votes_granted = [i \in Server |-> 0]
  /\ voted_servers = [i \in Server |-> {}]
  /\ log = [i \in Server |-> <<>>]
  /\ conf_idx = [i \in Server |-> 0]
  /\ saved_conf_idx = [i \in Server |-> 0]
  /\ quick_commit_idx = [i \in Server |-> 0]
  /\ sm_commit_index = [i \in Server |-> 0]
  /\ next_log_idx = [i \in Server |-> [p \in Server |-> 0]]
  /\ matched_idx = [i \in Server |-> [p \in Server |-> 0]]
  /\ busy = [i \in Server |-> [p \in Server |-> FALSE]]
  /\ pending_commit = [i \in Server |-> [p \in Server |-> FALSE]]
  /\ net = {}
  /\ votes = {} /\ elections = {} /\ applied = {}
  /\ requests = 0 /\ errors = 0 /\ restarts = 0

Deliver(m) ==
  \/ HandleVoteReq(m)
  \/ HandleVotingResp(m)
  \/ HandleAppendEntries(m)
  \/ RivalLeaderExit(m)
  \/ HandleAppendEntriesResp(m)
  \/ HandleNewerTermResp(m)
  \/ ForwardedRequest(m)

Next ==
  \/ \E i \in Server : \/ ElectionTimeout(i)
                       \/ ClientRequest(i)
                       \/ CommitInBg(i)
                       \/ Restart(i)
  \/ \E i, p \in Server : HbTimeout(i, p)
  \/ \E m \in net : Deliver(m) \/ RpcError(m)

Spec == Init /\ [][Next]_vars

\* Something in flight gets delivered; neither a timer nor the committing thread
\* is obliged to run.  Enough without heartbeats, where traffic dies out.
Fairness == WF_vars(\E m \in net : Deliver(m))
-----------------------------------------------------------------------------
(* Properties *)

Index == [Server -> [Server -> Nat]]
Flags == [Server -> [Server -> BOOLEAN]]

ServerTypes ==
  /\ status \in [Server -> {"up", "rival_leader", "index_too_large"}]
  /\ term \in [Server -> Term]
  /\ voted_for \in [Server -> Server \cup {None}]
  /\ role \in [Server -> {"follower", "candidate", "leader"}]
  /\ leader_ \in [Server -> Server \cup {None}]
  /\ election_completed \in [Server -> BOOLEAN]
  /\ votes_granted \in [Server -> Nat]
  /\ voted_servers \in [Server -> SUBSET Server]

LogTypes ==
  /\ log \in [Server -> Seq(Entry)]
  /\ conf_idx \in [Server -> Nat]
  /\ saved_conf_idx \in [Server -> Nat]
  /\ quick_commit_idx \in [Server -> Nat]
  /\ sm_commit_index \in [Server -> Nat]

PeerTypes ==
  /\ next_log_idx \in Index
  /\ matched_idx \in Index
  /\ busy \in Flags
  /\ pending_commit \in Flags

HistoryTypes ==
  /\ votes \subseteq Server \X Term \X Server
  /\ elections \subseteq Term \X Server
  /\ applied \subseteq (Nat \ {0}) \X Entry

BoundTypes == requests \in Nat /\ errors \in Nat /\ restarts \in Nat

\* Every variable keeps the type of the member it models; in particular no
\* index goes below 0, no follower's next index is 0, and leader_ and the
\* destination of a forwarded request are members.
TypeOK ==
  /\ ServerTypes /\ LogTypes /\ PeerTypes
  /\ net \subseteq Message
  /\ HistoryTypes /\ BoundTypes

\* At most one server is ever elected in a term (handle_vote_req's voted_for
\* test, handle_voting_resp's count), restarts included.
ElectionSafety ==
  \A e, f \in elections : e[1] = f[1] => e = f

\* The election module's promise, kept by the votes and elections of this one.
Promise == INSTANCE Election
ImplementsElection == Promise!Spec

\* Two logs with an entry of the same term at the same index agree up to it:
\* what the log_okay test and the overwriting loop of handle_append_entries
\* are for.
LogMatching ==
  \A i, p \in Server : \A k \in 1 .. Smaller(Len(log[i]), Len(log[p])) :
    log[i][k].term = log[p][k].term =>
      SubSeq(log[i], 1, k) = SubSeq(log[p], 1, k)

\* A server that is busy for its leader has a call for entries in flight whose
\* end sets it free (make_busy against handle_rpc_result and become_leader):
\* no flag is left set with nobody to clear it.
BusyHasCall ==
  \A i, p \in Server : busy[i][p] =>
    \E m \in net : /\ IsAppend(m) /\ (IsRequest(m) => m.open)
                   /\ Caller(m) = i /\ Callee(m) = p

\* While a server leads, no step removes or replaces an entry of its log.
LeaderAppendOnly ==
  [][\A i \in Server : role[i] = "leader" /\ role'[i] = "leader" =>
       /\ Len(log[i]) <= Len(log'[i])
       /\ SubSeq(log'[i], 1, Len(log[i])) = log[i]]_vars

\* handle_append_entries: "Receive AppendEntriesRequest from another leader with
\* same term, there must be a bug, server exits" never happens.
NoRivalLeader == \A i \in Server : status[i] # "rival_leader"

\* handle_peer_resp: "ignore the response that with lower term for safety".  A
\* step that takes such a response from the network changes no replication state.
StaleResponseIgnored ==
  [][\A m \in net \ net' :
       ~IsRequest(m) /\ m.term < term[m.dst] =>
         UNCHANGED <<next_log_idx, matched_idx, quick_commit_idx>>]_vars

\* The constructor's comment: "A cannot be elected to leader if any logs/configs
\* has been committed" that A lacks, "see the core Algorithm".  A server elected
\* in the newest term so far has every entry any state machine has applied.
LeaderCompleteness ==
  [][\A i \in Server :
       /\ role[i] # "leader" /\ role'[i] = "leader"
       /\ \A e \in elections : e[1] < term'[i]
       => \A a \in applied : a[1] <= Len(log'[i]) /\ log'[i][a[1]] = a[2]]_vars

\* handle_cli_req: "urgent commit, so that the commit will not depend on hb".
\* Under a leader that stays leader, every server ends up with the leader's log
\* and knows it to be committed though no heartbeat fires: the busy and
\* pending_commit flags leave no entry and no commit index unsent.
CommitWithoutHeartbeat ==
  <>[](\E i \in Server : role[i] = "leader")
    => <>[](\E i \in Server :
              /\ role[i] = "leader"
              /\ \A p \in Server : /\ log[p] = log[i]
                                   /\ quick_commit_idx[p] = Len(log[i]))
=============================================================================
