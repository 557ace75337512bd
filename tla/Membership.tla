----------------------------- MODULE Membership -----------------------------
(***************************************************************************)
(* Servers that join and leave the cluster of a raft_server, while one     *)
(* leader stays in office.  The extended requests, their answers and their *)
(* errors are messages; a round of append entries, which RaftServer has in *)
(* detail, is one step.  An entry is the set of servers of a               *)
(* configuration, or App.  Each server starts with the same log, whose     *)
(* first entry is the configuration; a server that has not joined has none *)
(* and has never led.                                                      *)
(***************************************************************************)
EXTENDS Integers, Sequences, FiniteSets

CONSTANTS
  Leader, Founders,   \* the leader, and the servers of the first configuration
  Newcomer,           \* the servers that may be added
  Nobody,             \* no server
  Start,              \* the number of entries committed at the start
  StopGap, Batch,     \* log_sync_stop_gap_, log_sync_batch_size_
  MaxRetries,         \* steps from heart_beat_interval_ to max_hb_interval_
  MaxRequests, MaxFaults   \* bounds: requests; lost calls and restarts together

ASSUME MembershipAssumption ==
  /\ Leader \in Founders /\ Nobody \notin Founders \cup Newcomer
  /\ Founders \cap Newcomer = {} /\ IsFiniteSet(Founders \cup Newcomer)
  /\ Start \in Nat \ {0} /\ StopGap \in Nat \ {0} /\ Batch \in Nat \ {0}

Server == Founders \cup Newcomer
App == {}
Entry == SUBSET Server

VARIABLES
  log, quick_commit_idx, sm_commit_index,
  config, stored, \* config_, and the one the state manager has saved
  config_changing, catching_up, steps_to_down,
  running,        \* the process has not exited
  peers, matched_idx,       \* of the leader
  srv_to_join,    \* srv_to_join_ and conf_to_add_, always set together
  retries,        \* how far slow_down_hb has moved a peer's interval
  net,            \* extended requests and answers in flight
  agreed,         \* history: servers that accepted a leave request
  given_up,       \* history: servers the leader stopped asking to leave
  restarted,      \* history: servers that were started again
  requests, errors          \* used up of the bounds

serverVars == <<log, quick_commit_idx, sm_commit_index, config, stored,
                config_changing, catching_up, steps_to_down, running>>
leaderVars == <<peers, matched_idx, srv_to_join, retries>>
history == <<agreed, given_up, restarted, requests, errors>>
vars == <<serverVars, leaderVars, net, history>>

Config == [servers : SUBSET Server, log_idx : Nat]
\* idx is last_log_idx of a sync request, the index of the configuration of a
\* join request.
Request == [type : {"join", "leave", "sync"}, dst : Server, idx : Nat,
            entries : Seq(Entry)]
Message == Request \cup
  [type : {"answer"}, to : Request, src : Server, accepted : BOOLEAN, next_idx : Nat]

TypeOK ==
  /\ log \in [Server -> Seq(Entry)]
  /\ quick_commit_idx \in [Server -> Nat] /\ sm_commit_index \in [Server -> Nat]
  /\ config \in [Server -> Config] /\ stored \in [Server -> Config]
  /\ config_changing \in [Server -> BOOLEAN] /\ catching_up \in [Server -> BOOLEAN]
  /\ steps_to_down \in [Server -> 0 .. 2] /\ running \in [Server -> BOOLEAN]
  /\ peers \subseteq Server /\ matched_idx \in [Server -> Nat]
  /\ srv_to_join \in Server \cup {Nobody} /\ retries \in [Server -> Nat]
  /\ net \subseteq Message
  /\ agreed \subseteq Server /\ given_up \subseteq Server /\ restarted \subseteq Server
  /\ requests \in Nat /\ errors \in Nat

Smaller(a, b) == IF a < b THEN a ELSE b
Larger(a, b) == IF a < b THEN b ELSE a
next_slot(s) == Len(log[s]) + 1
IsConf(e) == e # App
Apart(A, B) == (A \ B) \cup (B \ A)

Init ==
  /\ log = [s \in Server |-> IF s \in Founders
                             THEN [i \in 1 .. Start |-> IF i = 1 THEN Founders ELSE App]
                             ELSE <<>>]
  /\ quick_commit_idx = [s \in Server |-> Len(log[s])]
  /\ sm_commit_index = quick_commit_idx
  /\ config = [s \in Server |->
                 [servers |-> Founders, log_idx |-> IF s \in Founders THEN 1 ELSE 0]]
  /\ stored = config
  /\ config_changing = [s \in Server |-> FALSE]
  /\ catching_up = [s \in Server |-> FALSE]
  /\ steps_to_down = [s \in Server |-> 0]
  /\ running = [s \in Server |-> TRUE]
  /\ peers = Founders \ {Leader}
  /\ matched_idx = [s \in Server |-> Len(log[s])]
  /\ srv_to_join = Nobody /\ retries = [s \in Server |-> 0]
  /\ net = {}
  /\ agreed = {} /\ given_up = {} /\ restarted = {} /\ requests = 0 /\ errors = 0

-----------------------------------------------------------------------------
(* Messages *)

Req(type, dst, idx, entries) ==
  [type |-> type, dst |-> dst, idx |-> idx, entries |-> entries]
Answer(m, ok, next) ==
  [type |-> "answer", to |-> m, src |-> m.dst, accepted |-> ok, next_idx |-> next]
Reply(m, ok, next) == net' = (net \ {m}) \cup {Answer(m, ok, next)}

\* The leader appends a configuration.  Replicate sends it to the peers; with no
\* peers request_append_entries commits it at once.
AppendConf(servers) ==
  /\ log' = [log EXCEPT ![Leader] = Append(@, servers)]
  /\ config_changing' = [config_changing EXCEPT ![Leader] = TRUE]
  /\ quick_commit_idx' = IF peers' = {}
       THEN [quick_commit_idx EXCEPT ![Leader] = Larger(@, next_slot(Leader))]
       ELSE quick_commit_idx
  /\ UNCHANGED <<sm_commit_index, config, stored, catching_up, steps_to_down>>

-----------------------------------------------------------------------------
(* Adding a server *)

\* handle_add_srv_req and invite_srv_to_join_cluster
AddServer(s) ==
  /\ running[Leader] /\ requests < MaxRequests
  /\ s \notin peers \cup {Leader}
  /\ ~config_changing[Leader]
  /\ srv_to_join' = s /\ retries' = [retries EXCEPT ![s] = 0]
  /\ net' = net \cup {Req("join", s, config[Leader].log_idx, <<config[Leader].servers>>)}
  /\ requests' = requests + 1
  /\ UNCHANGED <<serverVars, peers, matched_idx, agreed, given_up, restarted, errors>>

HandleJoin(m) ==
  LET s == m.dst IN
  /\ m.type = "join" /\ running[s]
  /\ IF catching_up[s]
     THEN Reply(m, FALSE, 0) /\ UNCHANGED serverVars
     ELSE /\ Reply(m, TRUE, next_slot(s))
          /\ catching_up' = [catching_up EXCEPT ![s] = TRUE]
          /\ sm_commit_index' = [sm_commit_index EXCEPT ![s] = 0]
          /\ quick_commit_idx' = [quick_commit_idx EXCEPT ![s] = 0]
          /\ config' = [config EXCEPT ![s] = [servers |-> m.entries[1], log_idx |-> m.idx]]
          /\ UNCHANGED <<log, stored, config_changing, steps_to_down, running>>
  /\ UNCHANGED <<leaderVars, history>>

HandleSyncBlind(m) ==   \* mutant: a pack that comes again is appended again
  LET s == m.dst
      merged == log[s] \o m.entries IN
  /\ m.type = "sync" /\ running[s] /\ catching_up[s]
  /\ Reply(m, TRUE, Len(merged) + 1)
  /\ log' = [log EXCEPT ![s] = merged]
  /\ quick_commit_idx' = [quick_commit_idx EXCEPT ![s] = Larger(@, Len(merged))]
  /\ UNCHANGED <<sm_commit_index, config, stored, config_changing, catching_up,
                 steps_to_down, running, leaderVars, history>>

\* apply_pack cuts what is behind the pack, and throws, which nothing catches, when
\* the pack begins beyond the log: one for the server that was joining before.
HandleSync(m) ==
  LET s == m.dst
      merged == SubSeq(log[s], 1, m.idx) \o m.entries IN
  /\ m.type = "sync" /\ running[s]
  /\ UNCHANGED <<leaderVars, history>>
  /\ IF ~catching_up[s]
     THEN Reply(m, FALSE, 0) /\ UNCHANGED serverVars
     ELSE /\ UNCHANGED <<sm_commit_index, config, stored, config_changing, catching_up,
                         steps_to_down>>
          /\ IF m.idx > Len(log[s])
             THEN /\ running' = [running EXCEPT ![s] = FALSE] /\ net' = net \ {m}
                  /\ UNCHANGED <<log, quick_commit_idx>>
             ELSE /\ Reply(m, TRUE, Len(merged) + 1)
                  /\ log' = [log EXCEPT ![s] = merged]
                  /\ quick_commit_idx' = [quick_commit_idx EXCEPT ![s] = Larger(@, Len(merged))]
                  /\ UNCHANGED running

SyncLogAll(start, rest) ==   \* mutant: packs the rest of the log
  LET gap == quick_commit_idx[Leader] - start IN
  IF gap < StopGap
  THEN AppendConf(config[Leader].servers \cup {srv_to_join}) /\ net' = rest /\ UNCHANGED running
  ELSE /\ start > 0 /\ UNCHANGED serverVars
       /\ net' = rest \cup {Req("sync", srv_to_join, start - 1,
                   SubSeq(log[Leader], start, Len(log[Leader])))}

SyncLogEarly(start, rest) ==   \* mutant: stops one entry too early
  LET gap == quick_commit_idx[Leader] - start IN
  IF gap <= StopGap
  THEN AppendConf(config[Leader].servers \cup {srv_to_join}) /\ net' = rest /\ UNCHANGED running
  ELSE /\ net' = rest \cup {Req("sync", srv_to_join, start - 1,
                   SubSeq(log[Leader], start, start + Smaller(gap, Batch) - 1))}
       /\ UNCHANGED serverVars

\* sync_log_to_new_srv: the server is close enough, or gets the next pack.
\* fs_log_store::pack throws at index 0, and nothing catches it.
SyncLog(start, rest) ==
  LET gap == quick_commit_idx[Leader] - start IN
  IF gap < StopGap
  THEN AppendConf(config[Leader].servers \cup {srv_to_join}) /\ net' = rest /\ UNCHANGED running
  ELSE IF start = 0
  THEN /\ running' = [running EXCEPT ![Leader] = FALSE] /\ net' = rest
       /\ UNCHANGED <<log, quick_commit_idx, sm_commit_index, config, stored,
                      config_changing, catching_up, steps_to_down>>
  ELSE /\ net' = rest \cup {Req("sync", srv_to_join, start - 1,
                   SubSeq(log[Leader], start, start + Smaller(gap, Batch) - 1))}
       /\ UNCHANGED serverVars

\* join_cluster_response and sync_log_response in handle_ext_resp: a refused
\* sync_log_request is taken for one that was accepted.
HandleJoinAnswer(m) ==
  /\ m.type = "answer" /\ m.to.type = "join" /\ running[Leader]
  /\ UNCHANGED <<leaderVars, history>>
  /\ IF srv_to_join # Nobody /\ m.accepted
     THEN SyncLog(m.next_idx, net \ {m})
     ELSE net' = net \ {m} /\ UNCHANGED serverVars

HandleSyncAnswer(m) ==
  /\ m.type = "answer" /\ m.to.type = "sync" /\ running[Leader]
  /\ UNCHANGED <<peers, matched_idx, srv_to_join, history>>
  /\ IF srv_to_join # Nobody
     THEN /\ SyncLog(m.next_idx, net \ {m})
          /\ retries' = [retries EXCEPT ![srv_to_join] = 0]
     ELSE net' = net \ {m} /\ UNCHANGED <<serverVars, retries>>

-----------------------------------------------------------------------------
(* Removing a server *)

\* handle_rm_srv_req
RemoveServer(s) ==
  /\ running[Leader] /\ requests < MaxRequests
  /\ ~config_changing[Leader]
  /\ s # Leader /\ s \in peers
  /\ net' = net \cup {Req("leave", s, 0, <<>>)}
  /\ requests' = requests + 1
  /\ UNCHANGED <<serverVars, leaderVars, agreed, given_up, restarted, errors>>

HandleLeave(m) ==
  LET s == m.dst IN
  /\ m.type = "leave" /\ running[s]
  /\ IF config_changing[s]
     THEN Reply(m, FALSE, 0) /\ UNCHANGED <<serverVars, agreed>>
     ELSE /\ Reply(m, TRUE, next_slot(s))
          /\ steps_to_down' = [steps_to_down EXCEPT ![s] = 2]
          /\ agreed' = agreed \cup {s}
          /\ UNCHANGED <<log, quick_commit_idx, sm_commit_index, config, stored,
                         config_changing, catching_up, running>>
  /\ UNCHANGED <<leaderVars, given_up, restarted, requests, errors>>

\* rm_srv_from_cluster
RmSrvFromCluster(s) == AppendConf(config[Leader].servers \ {s}) /\ UNCHANGED running

HandleLeaveAnswerAny(m) ==   \* mutant: removes also on a refusal
  /\ m.type = "answer" /\ m.to.type = "leave" /\ running[Leader]
  /\ net' = net \ {m}
  /\ UNCHANGED <<leaderVars, history>>
  /\ RmSrvFromCluster(m.src)

HandleLeaveAnswer(m) ==
  /\ m.type = "answer" /\ m.to.type = "leave" /\ running[Leader]
  /\ net' = net \ {m}
  /\ UNCHANGED <<leaderVars, history>>
  /\ IF m.accepted THEN RmSrvFromCluster(m.src) ELSE UNCHANGED serverVars

StepDownMore(s) ==   \* mutant: counts on below zero
  /\ s # Leader /\ running[s]
  /\ steps_to_down' = [steps_to_down EXCEPT ![s] = @ - 1]
  /\ UNCHANGED <<log, quick_commit_idx, sm_commit_index, config, stored, config_changing,
                 catching_up, running, leaderVars, net, history>>

\* handle_election_timeout of a server that has agreed to leave, when no request
\* of the leader has come in between; the last one takes it out of the configuration.
\* The leader's own timer is stopped.
StepDown(s) ==
  /\ s # Leader /\ running[s] /\ steps_to_down[s] > 0
  /\ steps_to_down' = [steps_to_down EXCEPT ![s] = @ - 1]
  /\ IF steps_to_down[s] > 1 THEN UNCHANGED <<config, stored, running>>
     ELSE /\ config' = [config EXCEPT ![s].servers = @ \ {s}]
          /\ stored' = [stored EXCEPT ![s] = config'[s]]
          /\ running' = [running EXCEPT ![s] = FALSE]
  /\ UNCHANGED <<log, quick_commit_idx, sm_commit_index, config_changing, catching_up,
                 leaderVars, net, history>>

-----------------------------------------------------------------------------
(* Lost calls *)

\* handle_ext_resp_err: the call is made again, with the same content, to the
\* peer that is asked to leave or to the server that is joining by then; after
\* the last try the leader gives the joining server up or removes the leaving one.
RetryOrGiveUp(req, rest) ==
  LET p == IF req.type # "leave" THEN srv_to_join
           ELSE IF req.dst \in peers THEN req.dst ELSE Nobody IN
  \/ /\ p = Nobody
     /\ net' = rest /\ UNCHANGED <<serverVars, leaderVars, given_up>>
  \/ /\ p # Nobody /\ retries[p] < MaxRetries
     /\ retries' = [retries EXCEPT ![p] = @ + 1]
     /\ net' = rest \cup {[req EXCEPT !.dst = p]}
     /\ UNCHANGED <<serverVars, peers, matched_idx, srv_to_join, given_up>>
  \/ /\ p # Nobody /\ retries[p] >= MaxRetries /\ req.type # "leave"
     /\ config_changing' = [config_changing EXCEPT ![Leader] = FALSE]
     /\ srv_to_join' = Nobody /\ net' = rest
     /\ UNCHANGED <<log, quick_commit_idx, sm_commit_index, config, stored, catching_up,
                    steps_to_down, running, peers, matched_idx, retries, given_up>>
  \/ /\ p # Nobody /\ retries[p] >= MaxRetries /\ req.type = "leave"
     /\ peers' = IF peers = {p} THEN {} ELSE peers
     /\ RmSrvFromCluster(p)
     /\ given_up' = given_up \cup {p} /\ net' = rest
     /\ UNCHANGED <<matched_idx, srv_to_join, retries>>

\* A request or its answer is lost, or the caller gives up on it.
RpcError(m) ==
  /\ running[Leader] /\ errors + Cardinality(restarted) < MaxFaults
  /\ errors' = errors + 1
  /\ RetryOrGiveUp(IF m.type = "answer" THEN m.to ELSE m, net \ {m})
  /\ UNCHANGED <<agreed, restarted, requests>>

-----------------------------------------------------------------------------
(* Replication, commit, restart *)

\* handle_cli_req
ClientRequest ==
  /\ running[Leader] /\ requests < MaxRequests
  /\ requests' = requests + 1
  /\ log' = [log EXCEPT ![Leader] = Append(@, App)]
  /\ quick_commit_idx' = IF peers = {}
       THEN [quick_commit_idx EXCEPT ![Leader] = Larger(@, next_slot(Leader))]
       ELSE quick_commit_idx
  /\ UNCHANGED <<sm_commit_index, config, stored, config_changing, catching_up,
                 steps_to_down, running, leaderVars, net, agreed, given_up, restarted,
                 errors>>

\* More than half of the leader and its peers have entry n.
Reached(n) ==
  Cardinality({p \in peers : matched_idx'[p] >= n}) + 1 > (Cardinality(peers) + 1) \div 2

\* A round of append entries with one peer, its answer included: the peer gets
\* the rest of the log and the commit index and stays in the cluster for now.
Replicate(s) ==
  /\ running[Leader] /\ s \in peers /\ running[s]
  /\ log' = [log EXCEPT ![s] = log[Leader]]
  /\ config_changing' = [config_changing EXCEPT ![s] =
       @ \/ \E i \in next_slot(s) .. Len(log[Leader]) : IsConf(log[Leader][i])]
  /\ steps_to_down' = [steps_to_down EXCEPT ![s] = IF @ > 0 THEN 2 ELSE 0]
  /\ matched_idx' = [matched_idx EXCEPT ![s] = Len(log[Leader])]
  /\ \E n \in 0 .. Len(log[Leader]) :
       /\ Reached(n) /\ (n < Len(log[Leader]) => ~Reached(n + 1))
       /\ quick_commit_idx' = [quick_commit_idx EXCEPT
            ![s] = Larger(@, quick_commit_idx[Leader]), ![Leader] = Larger(@, n)]
  /\ retries' = [retries EXCEPT ![s] = 0]
  /\ UNCHANGED <<sm_commit_index, config, stored, catching_up, running, peers,
                 srv_to_join, net, history>>

\* reconfigure: a server that is removed and not catching up keeps its old
\* configuration and calls system_exit, which may only print (simple_state_mgr);
\* the leader's peers become the other servers.
Reconfigure(s, conf) ==
  IF s \notin conf.servers /\ ~catching_up[s]
  THEN /\ running' \in {running, [running EXCEPT ![s] = FALSE]}
       /\ UNCHANGED <<config, leaderVars>>
  ELSE /\ config' = [config EXCEPT ![s] = conf]
       /\ UNCHANGED running
       /\ IF s = Leader
          THEN LET added == conf.servers \ (peers \cup {Leader}) IN
               /\ peers' = conf.servers \ {Leader}
               /\ matched_idx' = [p \in Server |-> IF p \in added THEN 0 ELSE matched_idx[p]]
               /\ retries' = [p \in Server |-> IF p \in added THEN 0 ELSE retries[p]]
               /\ srv_to_join' = IF srv_to_join \in added THEN Nobody ELSE srv_to_join
          ELSE UNCHANGED leaderVars

\* commit_in_bg, one entry
CommitInBg(s) ==
  LET i == sm_commit_index[s] + 1
      conf == [servers |-> log[s][i], log_idx |-> i] IN
  /\ running[s] /\ i <= quick_commit_idx[s] /\ i <= Len(log[s])
  /\ sm_commit_index' = [sm_commit_index EXCEPT ![s] = i]
  /\ UNCHANGED <<log, quick_commit_idx, steps_to_down, net, history>>
  /\ IF IsConf(log[s][i])
     THEN /\ stored' = [stored EXCEPT ![s] = conf]
          /\ config_changing' = [config_changing EXCEPT ![s] = FALSE]
          /\ catching_up' = [catching_up EXCEPT ![s] = @ /\ s \notin conf.servers]
          /\ IF config[s].log_idx < i THEN Reconfigure(s, conf)
             ELSE UNCHANGED <<config, running, leaderVars>>
     ELSE UNCHANGED <<config, stored, config_changing, catching_up, running, leaderVars>>

\* A server other than the leader ends and starts again: the log, the stored
\* configuration and the commit index of the state machine are what it finds.
Restart(s) ==
  /\ s \notin restarted \cup {Leader} /\ errors + Cardinality(restarted) < MaxFaults
  /\ restarted' = restarted \cup {s}
  /\ running' = [running EXCEPT ![s] = TRUE]
  /\ config' = [config EXCEPT ![s] = stored[s]]
  /\ quick_commit_idx' = [quick_commit_idx EXCEPT ![s] = sm_commit_index[s]]
  /\ catching_up' = [catching_up EXCEPT ![s] = FALSE]
  /\ steps_to_down' = [steps_to_down EXCEPT ![s] = 0]
  /\ config_changing' = [config_changing EXCEPT ![s] =
       \E i \in sm_commit_index[s] + 1 .. Len(log[s]) : IsConf(log[s][i])]
  /\ UNCHANGED <<log, sm_commit_index, stored, leaderVars, net, agreed, given_up,
                 requests, errors>>

Next ==
  \/ \E m \in net : \/ HandleJoin(m) \/ HandleSync(m) \/ HandleLeave(m)
                    \/ HandleJoinAnswer(m) \/ HandleSyncAnswer(m) \/ HandleLeaveAnswer(m)
                    \/ RpcError(m)
  \/ \E s \in Server : \/ AddServer(s) \/ RemoveServer(s) \/ StepDown(s)
                       \/ Replicate(s) \/ CommitInBg(s) \/ Restart(s)
  \/ ClientRequest

Spec == Init /\ [][Next]_vars

-----------------------------------------------------------------------------
\* A founder is missing from a configuration only if it agreed to leave or could
\* not be asked: handle_ext_resp removes on an accepted leave_cluster_response,
\* handle_ext_resp_err after the last try.
LeaverAgreed ==
  \A s \in Server : \A i \in DOMAIN log[s] :
    IsConf(log[s][i]) => Founders \ log[s][i] \subseteq agreed \cup given_up

\* A server has nothing but the leader's entries: packs, packs sent again and
\* append entries fit together (sync_log_to_new_srv, handle_log_sync_req).
LogIsPrefix ==
  \A s \in Server : log[s] = SubSeq(log[Leader], 1, Len(log[s]))

\* "only sync committed logs": a joining server commits all of a pack, which must
\* not be more than the leader has committed.
JoinerCommitsCommitted ==
  \A s \in Server : quick_commit_idx[s] <= quick_commit_idx[Leader]

\* "LogSync is done for server %d with log gap %d, now put the server into cluster"
\* (sync_log_to_new_srv): a server that was not started again in between is added
\* only when it has joined and its own log is within the gap of what the leader has
\* committed.  It is so while one server is asked to join, and not when a second is
\* asked before the first is in.
AddsCaughtUp ==
  [][\A s \in Server \ restarted :
       LET new == log'[Leader][Len(log'[Leader])] IN
       /\ Len(log'[Leader]) > Len(log[Leader]) /\ s \in new \ config[Leader].servers
       => /\ catching_up[s]
          /\ quick_commit_idx[Leader] - next_slot(s) < StopGap]_vars

\* "we only allow one server to be added or removed at a time" (reconfigure)
OneServerAtATime ==
  [][Cardinality(Apart(config[Leader].servers, config'[Leader].servers)) <= 1]_vars
=============================================================================
