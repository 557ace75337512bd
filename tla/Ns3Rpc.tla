------------------------------- MODULE Ns3Rpc -------------------------------
(***************************************************************************)
(* A raft_server of ns-3 and the ns3_rpc_client of one of its peers.  The  *)
(* client has one handler, that of the last request sent; the connection   *)
(* answers the requests in order and never fails.  Whether an answer wins  *)
(* an election or asks for more entries is left open.                      *)
(***************************************************************************)
EXTENDS Integers, Sequences

CONSTANT MaxCalls   \* bound: requests sent

VARIABLES
  role,
  busy,      \* busy_flag_ of the peer
  handler,   \* the type of the request whose handler the client has
  sent,      \* the requests that have not been answered, by their types
  calls      \* requests sent

vars == <<role, busy, handler, sent, calls>>

TypeOK ==
  /\ role \in {"follower", "candidate", "leader"} /\ busy \in BOOLEAN
  /\ handler \in {"none", "vote", "append"}
  /\ sent \in Seq({"vote", "append"}) /\ calls \in 0 .. MaxCalls

Init ==
  role = "follower" /\ busy = FALSE /\ handler = "none" /\ sent = <<>> /\ calls = 0

\* ns3_rpc_client::send
Send(type, rest) ==
  /\ calls < MaxCalls /\ calls' = calls + 1
  /\ handler' = type /\ sent' = Append(rest, type)

\* request_append_entries: nothing is sent to a busy peer.
RequestAppend(free, rest) ==
  /\ busy' = TRUE
  /\ IF free THEN Send("append", rest)
     ELSE sent' = rest /\ UNCHANGED <<handler, calls>>

\* become_candidate, with a vote_request to the peer
BecomeCandidate ==
  /\ role # "leader" /\ role' = "candidate" /\ Send("vote", sent) /\ UNCHANGED busy

BecomeLeaderBusy(free, rest) ==   \* mutant: set_free is missing
  role = "candidate" /\ role' = "leader" /\ RequestAppend(free, rest)
BecomeLeader(free, rest) ==
  role = "candidate" /\ role' = "leader" /\ RequestAppend(TRUE, rest)

BecomeFollower ==
  role' = "follower" /\ UNCHANGED <<busy, handler, sent, calls>>

\* A client request or a heartbeat
LeaderSends == role = "leader" /\ RequestAppend(~busy, sent) /\ UNCHANGED role

\* ResponseRead and peer::handle_rpc_result: the answer goes to the handler that is
\* there, which frees the peer if its own request was for entries.  The next step
\* goes by the type of the answer.
Answered(free, rest) ==
  \/ Head(sent) = "vote" /\ BecomeLeader(free, rest)
  \/ /\ Head(sent) = "append" /\ role = "leader"
     /\ RequestAppend(free, rest) /\ UNCHANGED role
  \/ busy' = ~free /\ sent' = rest /\ role' \in {role, "follower"} /\ UNCHANGED <<handler, calls>>
Answer == sent # <<>> /\ Answered(~busy \/ handler = "append", Tail(sent))

Next ==
  \/ BecomeCandidate \/ BecomeFollower \/ LeaderSends \/ Answer
  \/ BecomeLeader(~busy, sent)   \* on the vote of another server

Spec == Init /\ [][Next]_vars

-----------------------------------------------------------------------------
\* A peer that a leader takes for busy is freed by an answer still to come, although
\* answers may have gone to the wrong handler in between (ns3_rpc_client::send
\* overwrites it, become_leader calls set_free).
BusyPeerIsFreed ==
  role = "leader" /\ busy => handler = "append" /\ sent # <<>>
=============================================================================
