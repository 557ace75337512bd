----------------------------- MODULE MCScenario -----------------------------
(***************************************************************************)
(* RaftServer explored from the end of a scripted path: every step of the  *)
(* script is a step of RaftServer, and after it anything may happen.       *)
(***************************************************************************)
EXTENDS RaftServer

CONSTANTS s1, s2, s3, MaxInFlight
VARIABLE step

Take(type, src, dst) ==
  \E m \in net : m.type = type /\ m.src = src /\ m.dst = dst /\ Deliver(m)
Lose(type, src, dst) ==
  \E m \in net : /\ m.type = type /\ m.src = src /\ m.dst = dst
                 /\ RpcError(m) /\ net' = net \ {m}

Perform(e) ==
  CASE e.do = "timeout" -> ElectionTimeout(e.src)
    [] e.do = "take" -> Take(e.type, e.src, e.dst)
    [] e.do = "lose" -> Lose(e.type, e.src, e.dst)

Timeout(i) == [do |-> "timeout", src |-> i]
Msg(do, type, i, p) == [do |-> do, type |-> type, src |-> i, dst |-> p]

\* i asks for votes and gets those of p and q
Campaign(i, p, q) ==
  << Timeout(i),
     Msg("take", "vote_request", i, p), Msg("take", "vote_request", i, q),
     Msg("take", "vote_response", p, i), Msg("take", "vote_response", q, i) >>

LoseEntries(i, p, q) ==
  << Msg("lose", "append_entries_request", i, p),
     Msg("lose", "append_entries_request", i, q) >>

ScriptedNext(script) ==
  \/ step <= Len(script) /\ Perform(script[step]) /\ step' = step + 1
  \/ step > Len(script) /\ Next /\ UNCHANGED step

\* A leader has just been elected by everybody.
OneLeader == Campaign(s1, s2, s3)

\* The same, with s3 cut off from the first entry.
Split == OneLeader \o << Msg("lose", "append_entries_request", s1, s3) >>

\* Leaders of terms 1 and 2 append their first entry, which reaches nobody.
TwoLeaders == Campaign(s1, s2, s3) \o LoseEntries(s1, s2, s3)
                \o Campaign(s2, s1, s3) \o LoseEntries(s2, s1, s3)

\* Bound: messages in flight
InFlightBound == Cardinality(net) <= MaxInFlight

ScriptedInit == Init /\ step = 1

OneLeaderSpec ==
  /\ ScriptedInit /\ [][ScriptedNext(OneLeader)]_<<vars, step>>
  /\ Fairness

SplitSpec == ScriptedInit /\ [][ScriptedNext(Split)]_<<vars, step>>

TwoLeadersSpec == ScriptedInit /\ [][ScriptedNext(TwoLeaders)]_<<vars, step>>
=============================================================================
