----------------------------- MODULE ClientNode -----------------------------
(***************************************************************************)
(* The client of an ns-3 cluster and the path of its requests: it sends    *)
(* them to one server, one after the other; a server that does not lead    *)
(* passes a request on to the one it takes for the leader.  Leadership     *)
(* changes as it likes.                                                    *)
(***************************************************************************)
EXTENDS Integers, FiniteSets

CONSTANTS
  Server, Contact,   \* the server the client sends to
  Nobody,            \* leader_ = -1
  MaxRequest, MaxChanges   \* bounds

ClientAssumption ==
  Contact \in Server /\ Nobody \notin Server /\ MaxRequest \in Nat \ {0}

VARIABLES
  i,          \* the request the client is at
  leader_,    \* the server each takes for the leader, or Nobody
  leading,    \* the servers that lead, and have heard from a majority of late
  net,        \* <<server, request, direct>>: requests in flight, direct from the client
  answer,     \* dst of the answer on its way to the client, or "none"
  appended,   \* history: how often each request was appended
  changes

vars == <<i, leader_, leading, net, answer, appended, changes>>

Init ==
  /\ i = 1 /\ leader_ = [s \in Server |-> Nobody] /\ leading = {}
  /\ net = {<<Contact, 1, TRUE>>} /\ answer = "none"
  /\ appended = [n \in 1 .. MaxRequest |-> 0] /\ changes = 0

\* The client repeats a request after an answer with no leader in it.
ResendsForwarded(dst) == dst # Contact   \* mutant: or with another server in it
Resends(dst) == dst = Nobody

\* HandleRead of the client
Request ==
  LET n == IF Resends(answer) THEN i ELSE i + 1 IN
  /\ answer # "none" /\ n <= MaxRequest
  /\ i' = n /\ net' = net \cup {<<Contact, n, TRUE>>} /\ answer' = "none"
  /\ UNCHANGED <<leader_, leading, appended, changes>>

\* handle_cli_req.  A forwarded request is answered to the server that forwarded it,
\* which does not look at the answer.
HandleCliReq(m) ==
  LET s == m[1]
      expired == s \notin leading /\ leader_[s] = s IN
  /\ answer' = IF ~m[3] THEN answer ELSE IF expired THEN Nobody ELSE leader_[s]
  /\ IF expired \/ (s \notin leading /\ leader_[s] = Nobody)
     THEN net' = net \ {m} /\ UNCHANGED appended
     ELSE IF s \in leading
     THEN net' = net \ {m} /\ appended' = [appended EXCEPT ![m[2]] = @ + 1]
     ELSE net' = (net \ {m}) \cup {<<leader_[s], m[2], FALSE>>} /\ UNCHANGED appended
  /\ UNCHANGED <<i, leader_, leading, changes>>

\* Elections: a server becomes leader, ceases to be, or learns who is.
Elected(s) ==
  leading' = leading \cup {s} /\ leader_' = [leader_ EXCEPT ![s] = s]
Deposed(s) == leading' = leading \ {s} /\ UNCHANGED leader_
Learns(s, l) ==
  leading' = leading \ {s} /\ leader_' = [leader_ EXCEPT ![s] = l]
Change ==
  /\ changes < MaxChanges /\ changes' = changes + 1
  /\ \E s \in Server : \/ Elected(s) \/ Deposed(s)
                       \/ \E l \in leading \ {s} : Learns(s, l)
  /\ UNCHANGED <<i, net, answer, appended>>

Next == Request \/ (\E m \in net : HandleCliReq(m)) \/ Change

Spec == Init /\ [][Next]_vars

-----------------------------------------------------------------------------
\* No request is appended twice: the client repeats one only when it was neither
\* appended nor forwarded, and forwarding moves it.  (It may be lost: a server that
\* a request was forwarded to may not lead any more.)
AppendedOnce == \A n \in 1 .. MaxRequest : appended[n] <= 1
=============================================================================
