-------------------------- MODULE MembershipProofs --------------------------
(***************************************************************************)
(* For any cluster, and however requests to add and to remove, their       *)
(* answers, errors and retries interleave: no server is removed that did   *)
(* not agree, and a joining server gets what the leader has committed.     *)
(***************************************************************************)
EXTENDS Membership, SequenceTheorems, TLAPS

\* The servers that may be missing from a configuration: they agreed to leave or
\* were given up.
gone == agreed \cup given_up
Keeps(S, mayMiss) == Founders \ S \subseteq mayMiss

\* A request is never addressed to the leader as the joining server, and a pack has
\* only such configurations in it.
RequestOK(r) ==
  /\ r.type # "leave" => r.dst # Leader
  /\ r.type = "join" => r.entries # <<>>
  /\ r.type = "sync" => \A i \in DOMAIN r.entries :
                          IsConf(r.entries[i]) => Keeps(r.entries[i], gone)

\* An answer may have its request sent again, and an accepted request to leave
\* has been agreed to.
MessageOK(m) ==
  IF m.type = "answer"
  THEN RequestOK(m.to) /\ (m.to.type = "leave" /\ m.accepted => m.src \in agreed)
  ELSE RequestOK(m)

ServerTypes ==
  /\ log \in [Server -> Seq(Entry)]
  /\ quick_commit_idx \in [Server -> Nat] /\ sm_commit_index \in [Server -> Nat]
  /\ config \in [Server -> Config] /\ stored \in [Server -> Config]
  /\ config_changing \in [Server -> BOOLEAN] /\ catching_up \in [Server -> BOOLEAN]
  /\ steps_to_down \in [Server -> 0 .. 2] /\ running \in [Server -> BOOLEAN]

LeaderTypes ==
  /\ peers \subseteq Server /\ matched_idx \in [Server -> Nat]
  /\ srv_to_join \in (Server \ {Leader}) \cup {Nobody} /\ retries \in [Server -> Nat]

HistoryTypes ==
  /\ agreed \subseteq Server /\ given_up \subseteq Server /\ restarted \subseteq Server
  /\ requests \in Nat /\ errors \in Nat

NetOK == net \subseteq Message /\ \A m \in net : MessageOK(m)

\* What the leader has committed is in its log, and neither its configuration nor
\* any in a log lacks a server that it should have.
LogsOK ==
  /\ LeaverAgreed
  /\ Keeps(config[Leader].servers, gone)
  /\ quick_commit_idx[Leader] <= Len(log[Leader])

IInv == ServerTypes /\ LeaderTypes /\ HistoryTypes /\ NetOK /\ LogsOK

-----------------------------------------------------------------------------
(* What several actions share *)

\* Servers only ever agree, or are given up: what was allowed stays allowed.
LEMMA HistoryGrows ==
  ASSUME agreed \subseteq agreed', given_up \subseteq given_up'
  PROVE  /\ \A S : Keeps(S, gone) => Keeps(S, gone')
         /\ \A m : MessageOK(m) => MessageOK(m)'
<1>1. \A S : Keeps(S, gone) => Keeps(S, gone')
  BY DEF Keeps, gone
<1>2. \A r : RequestOK(r) => RequestOK(r)'
  BY <1>1 DEF RequestOK
<1>3. QED
  BY <1>1, <1>2 DEF MessageOK

\* The leader's logs are not disturbed by a step that leaves them alone.
LEMMA LogsStay ==
  ASSUME LogsOK, agreed \subseteq agreed', given_up \subseteq given_up',
         UNCHANGED <<log, config, quick_commit_idx>>
  PROVE  LogsOK'
BY HistoryGrows DEF LogsOK, LeaverAgreed, Keeps, gone

\* AppendConf of a configuration that lacks nobody it should have.
LEMMA AppendKeeps ==
  ASSUME NEW S \in SUBSET Server, AppendConf(S), ServerTypes, LogsOK, Keeps(S, gone'),
         running' \in [Server -> BOOLEAN],
         agreed \subseteq agreed', given_up \subseteq given_up'
  PROVE  ServerTypes' /\ LogsOK'
<1> USE MembershipAssumption
<1>1. log[Leader] \in Seq(Entry) /\ S \in Entry /\ Leader \in Server
  BY DEF ServerTypes, Server, Entry
<1>2. /\ log'[Leader] = Append(log[Leader], S)
      /\ log' \in [Server -> Seq(Entry)]
      /\ Len(log'[Leader]) = Len(log[Leader]) + 1
  BY <1>1 DEF AppendConf, ServerTypes
<1>3. ServerTypes'
  BY <1>1, <1>2 DEF AppendConf, ServerTypes, Larger, next_slot
<1>4. LeaverAgreed'
  <2> SUFFICES ASSUME NEW s \in Server, NEW i \in DOMAIN log'[s], IsConf(log'[s][i])
               PROVE  Keeps(log'[s][i], gone')
    BY DEF LeaverAgreed, Keeps, gone, IsConf
  <2>1. CASE s = Leader /\ i = Len(log[Leader]) + 1
    BY <2>1, <1>1, <1>2
  <2>2. CASE ~(s = Leader /\ i = Len(log[Leader]) + 1)
    <3>1. i \in DOMAIN log[s] /\ log'[s][i] = log[s][i]
      BY <2>2, <1>1, <1>2 DEF AppendConf, ServerTypes
    <3>2. Keeps(log[s][i], gone)
      BY <3>1 DEF LogsOK, LeaverAgreed, Keeps, gone, IsConf
    <3>3. QED
      BY <3>1, <3>2, HistoryGrows
  <2>3. QED
    BY <2>1, <2>2
<1>5. Keeps(config'[Leader].servers, gone')
  BY HistoryGrows DEF LogsOK, AppendConf, Keeps, gone
<1>6. quick_commit_idx'[Leader] <= Len(log'[Leader])
  BY <1>1, <1>2 DEF LogsOK, AppendConf, ServerTypes, Larger, next_slot
<1>7. QED
  BY <1>3, <1>4, <1>5, <1>6 DEF LogsOK

\* The messages that stay, and none besides.
LEMMA NetShrinks ==
  ASSUME NetOK, net' \subseteq net, agreed \subseteq agreed', given_up \subseteq given_up'
  PROVE  NetOK'
BY HistoryGrows DEF NetOK

\* One request more, allowed as the others are.
LEMMA NetGrows ==
  ASSUME NEW r \in Request, NEW rest \in SUBSET net, NetOK, RequestOK(r),
         net' = rest \cup {r}, agreed \subseteq agreed', given_up \subseteq given_up'
  PROVE  NetOK'
<1>1. r \in Message /\ r.type # "answer"
  BY DEF Message, Request
<1>2. MessageOK(r)'
  BY <1>1, HistoryGrows DEF MessageOK
<1>3. QED
  BY <1>1, <1>2, HistoryGrows DEF NetOK

\* sync_log_to_new_srv appends the configuration with the joining server, or packs
\* entries of the leader's log.
LEMMA SyncKeeps ==
  ASSUME NEW start \in Nat, NEW rest \in SUBSET net, SyncLog(start, rest), IInv,
         srv_to_join # Nobody, UNCHANGED <<agreed, given_up>>
  PROVE  ServerTypes' /\ LogsOK' /\ NetOK'
<1> USE MembershipAssumption
<1> DEFINE gap == quick_commit_idx[Leader] - start
           pack == SubSeq(log[Leader], start, start + Smaller(gap, Batch) - 1)
           r == Req("sync", srv_to_join, start - 1, pack)
<1>1. /\ Leader \in Server /\ srv_to_join \in Server \ {Leader}
      /\ config[Leader].servers \in SUBSET Server /\ log[Leader] \in Seq(Entry)
      /\ quick_commit_idx[Leader] \in Nat /\ quick_commit_idx[Leader] <= Len(log[Leader])
  BY DEF IInv, ServerTypes, LeaderTypes, LogsOK, Server, Config
<1>2. rest \subseteq Message /\ \A m \in rest : MessageOK(m)'
  BY HistoryGrows DEF IInv, NetOK
<1>3. CASE gap < StopGap
  <2>1. Keeps(config[Leader].servers \cup {srv_to_join}, gone')
    BY HistoryGrows DEF IInv, LogsOK, Keeps, gone
  <2>2. ServerTypes' /\ LogsOK'
    BY <1>1, <1>3, <2>1, AppendKeeps DEF SyncLog, IInv, ServerTypes
  <2>3. QED
    BY <1>2, <1>3, <2>2 DEF SyncLog, NetOK
<1>4. CASE ~(gap < StopGap) /\ start = 0
  <2>1. ServerTypes'
    BY <1>1, <1>4 DEF SyncLog, IInv, ServerTypes
  <2>2. LogsOK'
    BY <1>4, LogsStay DEF SyncLog, IInv
  <2>3. QED
    BY <1>2, <1>4, <2>1, <2>2 DEF SyncLog, NetOK
<1>5. CASE ~(gap < StopGap) /\ start # 0
  <2>1. ServerTypes' /\ LogsOK'
    BY <1>5, LogsStay DEF SyncLog, serverVars, IInv, ServerTypes
  <2>2. start + Smaller(gap, Batch) - 1 \in Nat
        /\ start + Smaller(gap, Batch) - 1 <= Len(log[Leader]) /\ start \in 1 .. Len(log[Leader])
    <3>1. gap \in Nat /\ gap >= 1 /\ Batch \in Nat /\ Batch >= 1
      BY <1>1, <1>5
    <3>2. Smaller(gap, Batch) \in 1 .. gap
      BY <3>1 DEF Smaller
    <3>3. Len(log[Leader]) \in Nat
      BY <1>1
    <3>4. QED
      BY <1>1, <1>5, <3>2, <3>3
  <2>3. pack \in Seq(Entry) /\ \A i \in DOMAIN pack :
          start + i - 1 \in DOMAIN log[Leader] /\ pack[i] = log[Leader][start + i - 1]
    <3>1. PICK last \in Nat : last = start + Smaller(gap, Batch) - 1
      BY <2>2
    <3>2. PICK l \in Seq(Entry) : l = log[Leader]
      BY <1>1
    <3>3. last <= Len(l) /\ start \in 1 .. Len(l) /\ Len(l) \in Nat
          /\ \A i \in start .. last : l[i] \in Entry
      BY <2>2, <3>1, <3>2
    <3>4. /\ SubSeq(l, start, last) \in Seq(Entry)
          /\ Len(SubSeq(l, start, last)) = IF start <= last THEN last - start + 1 ELSE 0
          /\ \A i \in 1 .. last - start + 1 : SubSeq(l, start, last)[i] = l[start + i - 1]
      BY <3>3, SubSeqProperties
    <3>5. PICK sub \in Seq(Entry) : sub = SubSeq(l, start, last)
      BY <3>4
    <3>6. \A i \in DOMAIN sub : i \in 1 .. last - start + 1
      BY <3>3, <3>4, <3>5
    <3>7. \A i \in DOMAIN sub : start + i - 1 \in DOMAIN l /\ sub[i] = l[start + i - 1]
      BY <3>3, <3>4, <3>5, <3>6
    <3>8. QED
      BY <3>1, <3>2, <3>5, <3>7
  <2>4. \A i \in DOMAIN pack : IsConf(pack[i]) => Keeps(pack[i], gone)
    BY <1>1, <2>3 DEF IInv, LogsOK, LeaverAgreed, Keeps, gone
  <2>5. PICK e : e = pack
    OBVIOUS
  <2>6. PICK q : q = [type |-> "sync", dst |-> srv_to_join, idx |-> start - 1,
                      entries |-> e]
    OBVIOUS
  <2>7. q \in Request
    BY <1>1, <1>5, <2>3, <2>5, <2>6 DEF Request
  <2>8. RequestOK(q)
    BY <1>1, <2>4, <2>5, <2>6 DEF RequestOK
  <2>9. net' = rest \cup {q}
    BY <1>5, <2>5, <2>6 DEF SyncLog, Req
  <2>10. QED
    BY <2>1, <2>7, <2>8, <2>9, NetGrows DEF IInv
<1>6. QED
  BY <1>3, <1>4, <1>5
-----------------------------------------------------------------------------
(* Each action *)

\* The state the cluster starts in: every log has only the first configuration.
LEMMA InitHolds == Init => IInv
<1> USE MembershipAssumption
<1> SUFFICES ASSUME Init PROVE IInv
  OBVIOUS
<1> DEFINE founding == [i \in 1 .. Start |-> IF i = 1 THEN Founders ELSE App]
<1>1. /\ founding \in Seq(Entry) /\ Len(founding) = Start
      /\ <<>> \in Seq(Entry) /\ Len(<<>>) = 0
      /\ DOMAIN founding = 1 .. Start /\ DOMAIN <<>> = {}
  BY DEF Entry, Server, App
<1>2. \A i \in 1 .. Start : founding[i] \in {Founders, App}
  OBVIOUS
<1> HIDE DEF founding
<1>3. /\ log = [s \in Server |-> IF s \in Founders THEN founding ELSE <<>>]
      /\ Leader \in Server /\ Founders \in SUBSET Server
  BY DEF Init, Server, founding
<1>4. ServerTypes
  BY <1>1, <1>3 DEF Init, ServerTypes, Config
<1>5. LeaderTypes /\ HistoryTypes /\ NetOK
  BY <1>1, <1>3 DEF Init, LeaderTypes, HistoryTypes, NetOK
<1>6. LeaverAgreed
  BY <1>1, <1>2, <1>3 DEF LeaverAgreed, IsConf
<1>7. Keeps(config[Leader].servers, gone) /\ quick_commit_idx[Leader] <= Len(log[Leader])
  BY <1>1, <1>3 DEF Init, Keeps
<1>8. QED
  BY <1>4, <1>5, <1>6, <1>7 DEF IInv, LogsOK

\* An answer takes the place of a message; it is allowed whenever the request it
\* answers is, and a granted request to leave has been agreed to.
LEMMA ReplyKeeps ==
  ASSUME NEW m \in Request, NEW ok \in BOOLEAN, NEW next \in Nat, NetOK, m \in net,
         Reply(m, ok, next), agreed \subseteq agreed', given_up \subseteq given_up',
         m.type = "leave" /\ ok => m.dst \in agreed'
  PROVE  NetOK'
<1> DEFINE a == [type |-> "answer", to |-> m, src |-> m.dst, accepted |-> ok,
                 next_idx |-> next]
<1>1. a \in Message
  BY DEF Message, Request
<1>2. MessageOK(m) /\ m.type # "answer"
  BY DEF NetOK, Request
<1>3. RequestOK(m)'
  BY <1>2, HistoryGrows DEF MessageOK
<1>4. MessageOK(a)'
  BY <1>3 DEF MessageOK
<1>5. net' = (net \ {m}) \cup {a}
  BY DEF Reply, Answer
<1>6. QED
  BY <1>1, <1>4, <1>5, HistoryGrows DEF NetOK

\* handle_join_cluster_req, sync_log_req and handle_leave_cluster_req
LEMMA RequestsKeep ==
  ASSUME NEW m \in net, IInv, HandleJoin(m) \/ HandleSync(m) \/ HandleLeave(m)
  PROVE  IInv'
<1> USE MembershipAssumption
<1> DEFINE s == m.dst
<1>1. m \in Request /\ s \in Server /\ m.idx \in Nat /\ m.entries \in Seq(Entry)
      /\ RequestOK(m) /\ m.type # "answer"
  BY DEF HandleJoin, HandleSync, HandleLeave, IInv, NetOK, MessageOK, Message, Request
<1>2. log[s] \in Seq(Entry) /\ Len(log[s]) \in Nat /\ next_slot(s) \in Nat
      /\ Leader \in Server
  BY <1>1 DEF IInv, ServerTypes, next_slot, Server
<1>3. CASE HandleJoin(m)
  <2>1. NetOK'
    <3>1. CASE Reply(m, FALSE, 0)
      BY <1>1, <1>3, <3>1, ReplyKeeps DEF HandleJoin, history, IInv
    <3>2. CASE Reply(m, TRUE, next_slot(s))
      <4>1. PICK n \in Nat : n = next_slot(s)
        BY <1>2
      <4>2. QED
        BY <1>1, <1>3, <3>2, <4>1, ReplyKeeps DEF HandleJoin, history, IInv
    <3>3. QED
      BY <1>3, <3>1, <3>2 DEF HandleJoin
  <2>2. m.entries[1] \in Entry /\ s # Leader
    BY <1>1, <1>3 DEF HandleJoin, RequestOK
  <2>3. ServerTypes'
    <3>1. CASE catching_up[s]
      BY <1>3, <3>1 DEF HandleJoin, serverVars, IInv, ServerTypes
    <3>2. CASE ~catching_up[s]
      <4>1. [servers |-> m.entries[1], log_idx |-> m.idx] \in Config
        BY <1>1, <2>2 DEF Config, Entry
      <4>2. QED
        <5>1. /\ catching_up' = [catching_up EXCEPT ![s] = TRUE]
              /\ sm_commit_index' = [sm_commit_index EXCEPT ![s] = 0]
              /\ quick_commit_idx' = [quick_commit_idx EXCEPT ![s] = 0]
              /\ config' = [config EXCEPT ![s] = [servers |-> m.entries[1], log_idx |-> m.idx]]
              /\ UNCHANGED <<log, stored, config_changing, steps_to_down, running>>
          BY <1>3, <3>2 DEF HandleJoin
        <5>2. QED
          BY <1>1, <4>1, <5>1 DEF IInv, ServerTypes
    <3>3. QED
      BY <3>1, <3>2
  <2>4. LeaderTypes' /\ HistoryTypes'
    BY <1>3 DEF HandleJoin, leaderVars, history, IInv, LeaderTypes, HistoryTypes
  <2>5. LogsOK'
    <3>1. log' = log /\ config'[Leader] = config[Leader]
          /\ quick_commit_idx'[Leader] = quick_commit_idx[Leader] /\ gone' = gone
      BY <1>2, <1>3, <2>2 DEF HandleJoin, serverVars, IInv, ServerTypes, history, gone
    <3>2. QED
      BY <3>1 DEF IInv, LogsOK, LeaverAgreed, gone, Keeps
  <2>6. QED
    BY <2>1, <2>3, <2>4, <2>5 DEF IInv
<1>4. CASE HandleLeave(m)
  <2>1. NetOK'
    <3>1. CASE Reply(m, FALSE, 0) /\ UNCHANGED agreed
      BY <1>1, <1>4, <3>1, ReplyKeeps DEF HandleLeave, IInv
    <3>2. CASE Reply(m, TRUE, next_slot(s)) /\ agreed' = agreed \cup {s}
      <4>1. PICK n \in Nat : n = next_slot(s)
        BY <1>2
      <4>2. QED
        BY <1>1, <1>4, <3>2, <4>1, ReplyKeeps DEF HandleLeave, IInv
    <3>3. QED
      BY <1>4, <3>1, <3>2 DEF HandleLeave
  <2>2. ServerTypes'
    <3>1. CASE config_changing[s]
      BY <1>4, <3>1 DEF HandleLeave, serverVars, IInv, ServerTypes
    <3>2. CASE ~config_changing[s]
      <4>1. /\ steps_to_down' = [steps_to_down EXCEPT ![s] = 2]
            /\ UNCHANGED <<log, quick_commit_idx, sm_commit_index, config, stored,
                           config_changing, catching_up, running>>
        BY <1>4, <3>2 DEF HandleLeave
      <4>2. QED
        BY <1>1, <4>1 DEF IInv, ServerTypes
    <3>3. QED
      BY <3>1, <3>2
  <2>3. LeaderTypes' /\ HistoryTypes'
    BY <1>1, <1>4 DEF HandleLeave, leaderVars, IInv, LeaderTypes, HistoryTypes
  <2>4. LogsOK'
    BY <1>4, LogsStay DEF HandleLeave, serverVars, IInv
  <2>5. QED
    BY <2>1, <2>2, <2>3, <2>4 DEF IInv
<1>5. CASE HandleSync(m)
  <2>1. LeaderTypes' /\ HistoryTypes' /\ gone' = gone
    BY <1>5 DEF HandleSync, leaderVars, history, IInv, LeaderTypes, HistoryTypes, gone
  <2>2. CASE ~catching_up[s]
    <3>1. NetOK'
      BY <1>1, <1>5, <2>2, ReplyKeeps DEF HandleSync, history, IInv
    <3>2. ServerTypes'
      BY <1>5, <2>2 DEF HandleSync, serverVars, IInv, ServerTypes
    <3>3. LogsOK'
      BY <1>5, <2>2, LogsStay DEF HandleSync, serverVars, history, IInv
    <3>4. QED
      BY <2>1, <3>1, <3>2, <3>3 DEF IInv
  <2>3. CASE catching_up[s] /\ m.idx > Len(log[s])
    <3>1. NetOK'
      BY <1>5, <2>3, NetShrinks DEF HandleSync, history, IInv
    <3>2. ServerTypes'
      BY <1>5, <2>3 DEF HandleSync, IInv, ServerTypes
    <3>3. LogsOK'
      BY <1>5, <2>3, LogsStay DEF HandleSync, history, IInv
    <3>4. QED
      BY <2>1, <3>1, <3>2, <3>3 DEF IInv
  <2>4. CASE catching_up[s] /\ ~(m.idx > Len(log[s]))
    <3>1. PICK head : head = SubSeq(log[s], 1, m.idx)
      OBVIOUS
    <3>2. /\ head \in Seq(Entry) /\ Len(head) = m.idx
          /\ \A i \in DOMAIN head : i \in DOMAIN log[s] /\ head[i] = log[s][i]
      BY <1>1, <1>2, <2>4, <3>1, SubSeqProperties
    <3>3. PICK merged : merged = head \o m.entries
      OBVIOUS
    <3>4. /\ merged \in Seq(Entry) /\ Len(merged) = Len(head) + Len(m.entries)
          /\ \A i \in DOMAIN merged :
               \/ i \in DOMAIN head /\ merged[i] = head[i]
               \/ \E j \in DOMAIN m.entries : merged[i] = m.entries[j]
      <4>1. /\ merged \in Seq(Entry) /\ Len(merged) = Len(head) + Len(m.entries)
            /\ \A i \in 1 .. Len(head) + Len(m.entries) :
                 merged[i] = IF i <= Len(head) THEN head[i] ELSE m.entries[i - Len(head)]
        <5>1. PICK tail \in Seq(Entry) : tail = m.entries
          BY <1>1
        <5>2. /\ head \o tail \in Seq(Entry)
              /\ Len(head \o tail) = Len(head) + Len(tail)
              /\ \A i \in 1 .. Len(head) + Len(tail) :
                   (head \o tail)[i] = IF i <= Len(head) THEN head[i] ELSE tail[i - Len(head)]
          BY <3>2, ConcatProperties
        <5>3. QED
          BY <3>3, <5>1, <5>2
      <4>2. DOMAIN merged = 1 .. Len(head) + Len(m.entries)
            /\ DOMAIN head = 1 .. Len(head) /\ DOMAIN m.entries = 1 .. Len(m.entries)
            /\ Len(head) \in Nat /\ Len(m.entries) \in Nat
        BY <1>1, <3>2, <4>1
      <4>3. \A i \in DOMAIN merged :
              i > Len(head) => i - Len(head) \in DOMAIN m.entries
        BY <4>2
      <4>4. QED
        BY <4>1, <4>2, <4>3
    <3>5. log' = [log EXCEPT ![s] = merged] /\ Reply(m, TRUE, Len(merged) + 1)
          /\ quick_commit_idx' = [quick_commit_idx EXCEPT ![s] = Larger(@, Len(merged))]
          /\ UNCHANGED <<running, sm_commit_index, config, stored, config_changing,
                         catching_up, steps_to_down>>
      BY <1>5, <2>4, <3>1, <3>3 DEF HandleSync
    <3>6. Len(merged) \in Nat /\ Len(merged) + 1 \in Nat
      BY <3>4
    <3>7. NetOK'
      BY <1>1, <1>5, <3>5, <3>6, ReplyKeeps DEF HandleSync, history, IInv
    <3>8. ServerTypes'
      BY <1>1, <3>4, <3>5, <3>6 DEF Larger, IInv, ServerTypes
    <3>9. s # Leader
      BY <1>1, <1>5 DEF HandleSync, RequestOK
    <3>10. LogsOK'
      <4>1. LeaverAgreed'
        <5> SUFFICES ASSUME NEW t \in Server, NEW i \in DOMAIN log'[t], IsConf(log'[t][i])
                     PROVE  Keeps(log'[t][i], gone)
          BY <2>1 DEF LeaverAgreed, Keeps, gone, IsConf
        <5>1. \A u \in Server : \A j \in DOMAIN log[u] :
                IsConf(log[u][j]) => Keeps(log[u][j], gone)
          BY DEF IInv, LogsOK, LeaverAgreed, Keeps, gone
        <5>2. CASE t = s
          <6>1. log'[t] = merged
            BY <1>1, <3>5, <5>2 DEF IInv, ServerTypes
          <6>2. \A j \in DOMAIN m.entries : IsConf(m.entries[j]) => Keeps(m.entries[j], gone)
            BY <1>1, <1>5 DEF HandleSync, RequestOK
          <6>3. CASE i \in DOMAIN head /\ merged[i] = head[i]
            BY <1>1, <3>2, <5>1, <6>1, <6>3
          <6>4. CASE \E j \in DOMAIN m.entries : merged[i] = m.entries[j]
            BY <6>1, <6>2, <6>4
          <6>5. QED
            BY <3>4, <6>1, <6>3, <6>4
        <5>3. CASE t # s
          BY <3>5, <5>1, <5>3 DEF IInv, ServerTypes
        <5>4. QED
          BY <5>2, <5>3
      <4>2. Keeps(config'[Leader].servers, gone')
        BY <2>1, <3>5 DEF IInv, LogsOK
      <4>3. quick_commit_idx'[Leader] <= Len(log'[Leader])
        BY <1>2, <3>5, <3>9 DEF IInv, LogsOK, ServerTypes
      <4>4. QED
        BY <4>1, <4>2, <4>3 DEF LogsOK
    <3>11. QED
      BY <2>1, <3>7, <3>8, <3>10 DEF IInv
  <2>5. QED
    BY <2>2, <2>3, <2>4
<1>6. QED
  BY <1>3, <1>4, <1>5
\* join_cluster_response, sync_log_response and leave_cluster_response in
\* handle_ext_resp
LEMMA AnswersKeep ==
  ASSUME NEW m \in net, IInv,
         HandleJoinAnswer(m) \/ HandleSyncAnswer(m) \/ HandleLeaveAnswer(m)
  PROVE  IInv'
<1> USE MembershipAssumption
<1>1. /\ m.type = "answer" /\ m.to \in Request /\ m.src \in Server /\ m.next_idx \in Nat
      /\ MessageOK(m)
  BY DEF HandleJoinAnswer, HandleSyncAnswer, HandleLeaveAnswer, IInv, NetOK, Message,
         Request
<1>2. PICK rest \in SUBSET net : rest = net \ {m}
  OBVIOUS
<1>3. CASE HandleJoinAnswer(m) \/ HandleSyncAnswer(m)
  <2>1. HistoryTypes' /\ UNCHANGED <<agreed, given_up>>
    BY <1>3 DEF HandleJoinAnswer, HandleSyncAnswer, history, IInv, HistoryTypes
  <2>2. LeaderTypes'
    <3>1. /\ UNCHANGED <<peers, matched_idx, srv_to_join>>
          /\ retries' = retries \/ retries' = [retries EXCEPT ![srv_to_join] = 0]
      BY <1>3 DEF HandleJoinAnswer, HandleSyncAnswer, leaderVars
    <3>2. QED
      BY <3>1 DEF IInv, LeaderTypes
  <2>3. CASE srv_to_join # Nobody /\ SyncLog(m.next_idx, rest)
    BY <1>1, <2>1, <2>2, <2>3, SyncKeeps DEF IInv
  <2>4. CASE net' = rest /\ UNCHANGED serverVars
    <3>1. NetOK'
      BY <2>1, <2>4, NetShrinks DEF IInv
    <3>2. ServerTypes' /\ LogsOK'
      BY <2>1, <2>4, LogsStay DEF serverVars, IInv, ServerTypes
    <3>3. QED
      BY <2>1, <2>2, <3>1, <3>2 DEF IInv
  <2>5. QED
    BY <1>2, <1>3, <2>3, <2>4 DEF HandleJoinAnswer, HandleSyncAnswer
<1>4. CASE HandleLeaveAnswer(m)
  <2>1. HistoryTypes' /\ LeaderTypes' /\ UNCHANGED <<agreed, given_up>>
    BY <1>4 DEF HandleLeaveAnswer, leaderVars, history, IInv, HistoryTypes, LeaderTypes
  <2>2. NetOK'
    BY <1>4, <2>1, NetShrinks DEF HandleLeaveAnswer, IInv
  <2>3. CASE m.accepted
    <3>1. m.src \in agreed
      BY <1>1, <1>4, <2>3 DEF HandleLeaveAnswer, MessageOK
    <3>2. PICK conf : conf = config[Leader].servers \ {m.src}
      OBVIOUS
    <3>3. conf \in SUBSET Server /\ Keeps(conf, gone')
      BY <2>1, <3>1, <3>2 DEF IInv, LogsOK, Keeps, gone, ServerTypes, Config, Server
    <3>4. AppendConf(conf) /\ running' = running
      BY <1>4, <2>3, <3>2 DEF HandleLeaveAnswer, RmSrvFromCluster
    <3>5. ServerTypes' /\ LogsOK'
      BY <2>1, <3>3, <3>4, AppendKeeps DEF IInv, ServerTypes
    <3>6. QED
      BY <2>1, <2>2, <3>5 DEF IInv
  <2>4. CASE ~m.accepted
    <3>1. ServerTypes' /\ LogsOK'
      BY <1>4, <2>1, <2>4, LogsStay DEF HandleLeaveAnswer, serverVars, IInv, ServerTypes
    <3>2. QED
      BY <2>1, <2>2, <3>1 DEF IInv
  <2>5. QED
    BY <2>3, <2>4
<1>5. QED
  BY <1>3, <1>4

\* handle_ext_resp_err: a call is made again, or the leader gives up.
LEMMA ErrorsKeep ==
  ASSUME NEW m \in net, IInv, RpcError(m)
  PROVE  IInv'
<1> USE MembershipAssumption
<1>1. PICK req : req = IF m.type = "answer" THEN m.to ELSE m
  OBVIOUS
<1>2. PICK rest \in SUBSET net : rest = net \ {m}
  OBVIOUS
<1>3. RetryOrGiveUp(req, rest)
  BY <1>1, <1>2 DEF RpcError
<1>4. req \in Request /\ RequestOK(req)
  BY <1>1 DEF IInv, NetOK, MessageOK, Message, Request
<1>5. PICK p : p = IF req.type # "leave" THEN srv_to_join
                   ELSE IF req.dst \in peers THEN req.dst ELSE Nobody
  OBVIOUS
<1>6. p # Nobody => p \in Server /\ (req.type # "leave" => p # Leader)
  BY <1>4, <1>5 DEF IInv, LeaderTypes
<1>7. agreed' = agreed /\ restarted' = restarted /\ requests' = requests
      /\ errors' = errors + 1
  BY DEF RpcError
<1>8. CASE net' = rest /\ UNCHANGED <<serverVars, leaderVars, given_up>>
  <2>1. LeaderTypes' /\ HistoryTypes' /\ ServerTypes'
    BY <1>7, <1>8 DEF serverVars, leaderVars, IInv, LeaderTypes, HistoryTypes, ServerTypes
  <2>2. NetOK' /\ LogsOK'
    BY <1>7, <1>8, NetShrinks, LogsStay DEF serverVars, IInv
  <2>3. QED
    BY <2>1, <2>2 DEF IInv
<1>9. CASE /\ p # Nobody /\ net' = rest \cup {[req EXCEPT !.dst = p]}
           /\ retries' = [retries EXCEPT ![p] = @ + 1]
           /\ UNCHANGED <<serverVars, peers, matched_idx, srv_to_join, given_up>>
  <2>1. PICK again : again = [req EXCEPT !.dst = p]
    OBVIOUS
  <2>2. again \in Request /\ RequestOK(again)
    BY <1>4, <1>6, <1>9, <2>1 DEF Request, RequestOK
  <2>3. NetOK' /\ LogsOK'
    BY <1>7, <1>9, <2>1, <2>2, NetGrows, LogsStay DEF serverVars, IInv
  <2>4. LeaderTypes' /\ HistoryTypes' /\ ServerTypes'
    <3>1. ServerTypes'
      BY <1>9 DEF serverVars, IInv, ServerTypes
    <3>2. LeaderTypes'
      BY <1>6, <1>9 DEF IInv, LeaderTypes
    <3>3. HistoryTypes'
      BY <1>7, <1>9 DEF IInv, HistoryTypes
    <3>4. QED
      BY <3>1, <3>2, <3>3
  <2>5. QED
    BY <2>3, <2>4 DEF IInv
<1>10. CASE /\ config_changing' = [config_changing EXCEPT ![Leader] = FALSE]
            /\ srv_to_join' = Nobody /\ net' = rest
            /\ UNCHANGED <<log, quick_commit_idx, sm_commit_index, config, stored,
                           catching_up, steps_to_down, running, peers, matched_idx,
                           retries, given_up>>
  <2>1. LeaderTypes' /\ HistoryTypes' /\ ServerTypes'
    <3>1. ServerTypes'
      BY <1>10 DEF IInv, ServerTypes, Server
    <3>2. LeaderTypes'
      BY <1>10 DEF IInv, LeaderTypes
    <3>3. HistoryTypes'
      BY <1>7, <1>10 DEF IInv, HistoryTypes
    <3>4. QED
      BY <3>1, <3>2, <3>3
  <2>2. NetOK' /\ LogsOK'
    BY <1>7, <1>10, NetShrinks, LogsStay DEF IInv
  <2>3. QED
    BY <2>1, <2>2 DEF IInv
<1>11. CASE /\ p # Nobody /\ peers' = (IF peers = {p} THEN {} ELSE peers)
            /\ RmSrvFromCluster(p) /\ given_up' = given_up \cup {p} /\ net' = rest
            /\ UNCHANGED <<matched_idx, srv_to_join, retries>>
  <2>1. PICK conf : conf = config[Leader].servers \ {p}
    OBVIOUS
  <2>2. conf \in SUBSET Server /\ Keeps(conf, gone')
    BY <1>7, <1>11, <2>1 DEF IInv, LogsOK, Keeps, gone, ServerTypes, Config, Server
  <2>3. ServerTypes' /\ LogsOK'
    BY <1>7, <1>11, <2>1, <2>2, AppendKeeps DEF RmSrvFromCluster, IInv, ServerTypes
  <2>4. LeaderTypes' /\ HistoryTypes'
    BY <1>6, <1>7, <1>11 DEF IInv, LeaderTypes, HistoryTypes
  <2>5. NetOK'
    BY <1>7, <1>11, NetShrinks DEF IInv
  <2>6. QED
    BY <2>3, <2>4, <2>5 DEF IInv
<1>12. QED
  BY <1>3, <1>5, <1>8, <1>9, <1>10, <1>11 DEF RetryOrGiveUp
\* handle_add_srv_req and handle_rm_srv_req send one request.
LEMMA CallsKeep ==
  ASSUME NEW s \in Server, IInv, AddServer(s) \/ RemoveServer(s)
  PROVE  IInv'
<1> USE MembershipAssumption
<1>1. ServerTypes' /\ LogsOK' /\ UNCHANGED <<agreed, given_up>>
  BY LogsStay DEF AddServer, RemoveServer, serverVars, leaderVars, IInv, ServerTypes
<1>2. LeaderTypes' /\ HistoryTypes'
  <2>1. CASE AddServer(s)
    BY <2>1 DEF AddServer, IInv, LeaderTypes, HistoryTypes
  <2>2. CASE RemoveServer(s)
    BY <2>2 DEF RemoveServer, leaderVars, IInv, LeaderTypes, HistoryTypes
  <2>3. QED
    BY <2>1, <2>2
<1>3. config[Leader].servers \in Entry /\ config[Leader].log_idx \in Nat
  BY DEF IInv, ServerTypes, Config, Entry, Server
<1>4. PICK r : /\ net' = net \cup {r} /\ r.dst = s /\ s # Leader
               /\ \/ r = Req("join", s, config[Leader].log_idx, <<config[Leader].servers>>)
                  \/ r = Req("leave", s, 0, <<>>)
  BY DEF AddServer, RemoveServer, Req
<1>5. r \in Request /\ RequestOK(r)
  <2>1. PICK c \in Entry : c = config[Leader].servers
    BY <1>3
  <2>2. <<c>> \in Seq(Entry) /\ <<c>> # <<>> /\ <<>> \in Seq(Entry)
    OBVIOUS
  <2>3. CASE r = Req("join", s, config[Leader].log_idx, <<config[Leader].servers>>)
    BY <1>3, <1>4, <2>1, <2>2, <2>3 DEF Req, Request, RequestOK
  <2>4. CASE r = Req("leave", s, 0, <<>>)
    BY <1>4, <2>2, <2>4 DEF Req, Request, RequestOK
  <2>5. QED
    BY <1>4, <2>3, <2>4
<1>6. NetOK'
  BY <1>1, <1>4, <1>5, NetGrows DEF IInv
<1>7. QED
  BY <1>1, <1>2, <1>6 DEF IInv

\* One round of append entries
LEMMA RoundsKeep ==
  ASSUME NEW s \in Server, IInv, Replicate(s)
  PROVE  IInv'
<1> USE MembershipAssumption
<1>1. HistoryTypes' /\ UNCHANGED <<net, agreed, given_up>>
  BY DEF Replicate, history, IInv, HistoryTypes
<1>2. NetOK'
  BY <1>1, NetShrinks DEF IInv
<1>3. log[Leader] \in Seq(Entry) /\ Len(log[Leader]) \in Nat /\ Leader \in Server
  BY DEF IInv, ServerTypes, Server
<1>4. LeaderTypes'
  BY <1>3 DEF Replicate, IInv, LeaderTypes
<1>5. PICK n \in 0 .. Len(log[Leader]) :
        quick_commit_idx' = [quick_commit_idx EXCEPT
          ![s] = Larger(@, quick_commit_idx[Leader]), ![Leader] = Larger(@, n)]
  BY DEF Replicate
<1>6. /\ log' = [log EXCEPT ![s] = log[Leader]]
      /\ steps_to_down' = [steps_to_down EXCEPT ![s] = IF @ > 0 THEN 2 ELSE 0]
      /\ UNCHANGED <<sm_commit_index, config, stored, catching_up, running>>
  BY DEF Replicate
<1>7. config_changing' \in [Server -> BOOLEAN]
  <2>1. PICK b \in BOOLEAN : b = \E i \in next_slot(s) .. Len(log[Leader]) :
                                    IsConf(log[Leader][i])
    OBVIOUS
  <2>2. config_changing' = [config_changing EXCEPT ![s] = @ \/ b]
    BY <2>1 DEF Replicate
  <2>3. QED
    BY <2>2 DEF IInv, ServerTypes
<1>8. quick_commit_idx' \in [Server -> Nat]
      /\ quick_commit_idx'[Leader] <= Len(log[Leader])
  BY <1>3, <1>5 DEF Larger, IInv, ServerTypes, LogsOK
<1>9. ServerTypes'
  <2>1. log' \in [Server -> Seq(Entry)] /\ steps_to_down' \in [Server -> 0 .. 2]
    BY <1>3, <1>6 DEF IInv, ServerTypes
  <2>2. QED
    BY <1>6, <1>7, <1>8, <2>1 DEF IInv, ServerTypes
<1>10. LogsOK'
  BY <1>1, <1>3, <1>6, <1>8 DEF IInv, ServerTypes, LogsOK, LeaverAgreed, Keeps, gone
<1>11. QED
  BY <1>1, <1>2, <1>4, <1>9, <1>10 DEF IInv

\* commit_in_bg with reconfigure: a committed configuration is one of the log's.
LEMMA CommitKeeps ==
  ASSUME NEW s \in Server, IInv, CommitInBg(s)
  PROVE  IInv'
<1> USE MembershipAssumption
<1> DEFINE i == sm_commit_index[s] + 1
<1>1. HistoryTypes' /\ UNCHANGED <<net, log, quick_commit_idx, steps_to_down, agreed, given_up>>
  BY DEF CommitInBg, history, IInv, HistoryTypes
<1>2. NetOK'
  BY <1>1, NetShrinks DEF IInv
<1>3. i \in DOMAIN log[s] /\ i \in Nat /\ log[s][i] \in SUBSET Server
      /\ sm_commit_index' = [sm_commit_index EXCEPT ![s] = i] /\ Leader \in Server
  BY DEF CommitInBg, IInv, ServerTypes, Entry, Server
<1>4. PICK conf \in Config : conf = [servers |-> log[s][i], log_idx |-> i]
  BY <1>3 DEF Config
<1>5. IsConf(log[s][i]) => Keeps(conf.servers, gone)
  BY <1>3, <1>4 DEF IInv, LogsOK, LeaverAgreed, Keeps, gone
<1>6. CASE ~IsConf(log[s][i])
  <2>1. UNCHANGED <<config, stored, config_changing, catching_up, running, leaderVars>>
    BY <1>6 DEF CommitInBg
  <2>2. ServerTypes' /\ LeaderTypes'
    BY <1>1, <1>3, <2>1 DEF leaderVars, IInv, ServerTypes, LeaderTypes
  <2>3. LogsOK'
    BY <1>1, <2>1, LogsStay DEF IInv
  <2>4. QED
    BY <1>1, <1>2, <2>2, <2>3 DEF IInv
<1>7. CASE IsConf(log[s][i])
  <2>1. /\ stored' = [stored EXCEPT ![s] = conf]
        /\ config_changing' = [config_changing EXCEPT ![s] = FALSE]
        /\ catching_up' = [catching_up EXCEPT ![s] = @ /\ s \notin conf.servers]
        /\ Reconfigure(s, conf) \/ UNCHANGED <<config, running, leaderVars>>
    BY <1>4, <1>7 DEF CommitInBg
  <2>2. /\ config' = config \/ config' = [config EXCEPT ![s] = conf]
        /\ running' = running \/ running' = [running EXCEPT ![s] = FALSE]
        /\ \/ UNCHANGED leaderVars
           \/ /\ peers' = conf.servers \ {Leader}
              /\ \E added : /\ matched_idx' = [p \in Server |-> IF p \in added THEN 0
                                                                ELSE matched_idx[p]]
                            /\ retries' = [p \in Server |-> IF p \in added THEN 0
                                                            ELSE retries[p]]
                            /\ srv_to_join' = IF srv_to_join \in added THEN Nobody
                                              ELSE srv_to_join
    BY <2>1 DEF Reconfigure, leaderVars
  <2>3. LeaderTypes'
    BY <2>2 DEF leaderVars, IInv, LeaderTypes, Config
  <2>4. catching_up' \in [Server -> BOOLEAN] /\ config_changing' \in [Server -> BOOLEAN]
        /\ running' \in [Server -> BOOLEAN]
    BY <2>1, <2>2 DEF IInv, ServerTypes
  <2>5. ServerTypes'
    <3>1. config' \in [Server -> Config] /\ stored' \in [Server -> Config]
      BY <2>1, <2>2 DEF IInv, ServerTypes
    <3>2. sm_commit_index' \in [Server -> Nat]
      BY <1>3 DEF IInv, ServerTypes
    <3>3. QED
      BY <1>1, <2>4, <3>1, <3>2 DEF IInv, ServerTypes
  <2>6. Keeps(config'[Leader].servers, gone')
    BY <1>1, <1>3, <1>5, <1>7, <2>2 DEF IInv, ServerTypes, LogsOK, gone
  <2>7. LogsOK'
    BY <1>1, <2>6 DEF IInv, LogsOK, LeaverAgreed, gone
  <2>8. QED
    BY <1>1, <1>2, <2>3, <2>5, <2>7 DEF IInv
<1>8. QED
  BY <1>6, <1>7

\* A step down, a restart and a request of a client leave the leader's configuration
\* alone.
LEMMA OthersKeep ==
  ASSUME IInv, ClientRequest \/ \E s \in Server : StepDown(s) \/ Restart(s)
  PROVE  IInv'
<1> USE MembershipAssumption
<1>1. CASE ClientRequest
  <2>1. /\ NetOK' /\ LeaderTypes' /\ HistoryTypes' /\ UNCHANGED <<agreed, given_up>>
    BY <1>1, NetShrinks
       DEF ClientRequest, leaderVars, IInv, LeaderTypes, HistoryTypes
  <2>2. log[Leader] \in Seq(Entry) /\ App \in Entry /\ Leader \in Server
    BY DEF IInv, ServerTypes, Server, Entry, App
  <2>3. /\ log'[Leader] = Append(log[Leader], App) /\ log' \in [Server -> Seq(Entry)]
        /\ Len(log'[Leader]) = Len(log[Leader]) + 1 /\ Len(log[Leader]) \in Nat
        /\ \A t \in Server \ {Leader} : log'[t] = log[t]
    BY <1>1, <2>2 DEF ClientRequest, IInv, ServerTypes
  <2>4. ServerTypes' /\ quick_commit_idx'[Leader] <= Len(log'[Leader])
    BY <1>1, <2>2, <2>3
       DEF ClientRequest, IInv, ServerTypes, LogsOK, Larger, next_slot
  <2>5. LeaverAgreed'
    <3> SUFFICES ASSUME NEW t \in Server, NEW i \in DOMAIN log'[t], IsConf(log'[t][i])
                 PROVE  i \in DOMAIN log[t] /\ log'[t][i] = log[t][i]
      BY <2>1 DEF IInv, LogsOK, LeaverAgreed
    <3>1. CASE t = Leader /\ i = Len(log[Leader]) + 1
      BY <2>2, <2>3, <3>1 DEF IsConf
    <3>2. CASE t = Leader /\ i # Len(log[Leader]) + 1
      BY <2>2, <2>3, <3>2
    <3>3. CASE t # Leader
      BY <2>3, <3>3
    <3>4. QED
      BY <3>1, <3>2, <3>3
  <2>6. LogsOK'
    BY <1>1, <2>1, <2>4, <2>5 DEF ClientRequest, IInv, LogsOK, gone
  <2>7. QED
    BY <2>1, <2>4, <2>6 DEF IInv
<1>2. CASE \E s \in Server : StepDown(s)
  <2>1. PICK s \in Server : StepDown(s)
    BY <1>2
  <2>2. NetOK' /\ LeaderTypes' /\ HistoryTypes' /\ gone' = gone
    BY <2>1, NetShrinks
       DEF StepDown, leaderVars, history, IInv, LeaderTypes, HistoryTypes, gone
  <2> DEFINE smaller == [config[s] EXCEPT !.servers = @ \ {s}]
  <2>3. smaller \in Config
    <3>1. config[s] \in Config
      BY DEF IInv, ServerTypes
    <3>2. QED
      BY <3>1 DEF Config
  <2>4. /\ \/ config' = config /\ stored' = stored /\ running' = running
           \/ /\ config' = [config EXCEPT ![s] = smaller]
              /\ stored' = [stored EXCEPT ![s] = config'[s]]
              /\ running' = [running EXCEPT ![s] = FALSE]
        /\ config' \in [Server -> Config]
    BY <2>1, <2>3 DEF StepDown, IInv, ServerTypes
  <2>5. stored' \in [Server -> Config] /\ running' \in [Server -> BOOLEAN]
    BY <2>4 DEF IInv, ServerTypes
  <2>6. ServerTypes'
    <3>1. UNCHANGED <<log, quick_commit_idx, sm_commit_index, config_changing, catching_up>>
      BY <2>1 DEF StepDown
    <3>2. steps_to_down' \in [Server -> 0 .. 2]
      BY <2>1 DEF StepDown, IInv, ServerTypes
    <3>3. QED
      BY <2>4, <2>5, <3>1, <3>2 DEF IInv, ServerTypes
  <2>7. s # Leader /\ config'[Leader] = config[Leader] /\ log' = log
        /\ quick_commit_idx' = quick_commit_idx
    <3>1. s # Leader /\ UNCHANGED <<log, quick_commit_idx>> /\ Leader \in Server
      BY <2>1 DEF StepDown, Server
    <3>2. config \in [Server -> Config]
      BY DEF IInv, ServerTypes
    <3> HIDE DEF smaller
    <3>3. QED
      BY <2>4, <3>1, <3>2
  <2>8. LogsOK'
    BY <2>2, <2>7 DEF IInv, LogsOK, LeaverAgreed, gone
  <2>9. QED
    BY <2>2, <2>6, <2>8 DEF IInv
<1>3. CASE \E s \in Server : Restart(s)
  <2>1. PICK s \in Server : Restart(s)
    BY <1>3
  <2>2. NetOK' /\ LeaderTypes' /\ HistoryTypes' /\ gone' = gone
    BY <2>1, NetShrinks DEF Restart, leaderVars, IInv, LeaderTypes, HistoryTypes, gone
  <2>3. config_changing' \in [Server -> BOOLEAN]
    <3>1. PICK b \in BOOLEAN : b = \E i \in sm_commit_index[s] + 1 .. Len(log[s]) :
                                      IsConf(log[s][i])
      OBVIOUS
    <3>2. config_changing' = [config_changing EXCEPT ![s] = b]
      BY <2>1, <3>1 DEF Restart
    <3>3. QED
      BY <3>2 DEF IInv, ServerTypes
  <2>4. ServerTypes'
    BY <2>1, <2>3 DEF Restart, IInv, ServerTypes
  <2>5. s # Leader /\ config'[Leader] = config[Leader]
        /\ quick_commit_idx'[Leader] = quick_commit_idx[Leader] /\ log' = log
    BY <2>1 DEF Restart, IInv, ServerTypes
  <2>6. LogsOK'
    BY <2>1, <2>2, <2>5 DEF Restart, IInv, LogsOK, LeaverAgreed, gone
  <2>7. QED
    BY <2>2, <2>4, <2>6 DEF IInv
<1>4. QED
  BY <1>1, <1>2, <1>3
-----------------------------------------------------------------------------
(* The theorems *)

\* The invariant holds at the start and is kept by every action.
LEMMA InvHolds == Spec => []IInv
<1>1. IInv /\ [Next]_vars => IInv'
  <2> SUFFICES ASSUME IInv, [Next]_vars PROVE IInv'
    OBVIOUS
  <2>1. CASE UNCHANGED vars
    <3>1. NetOK' /\ LogsOK'
      BY <2>1, NetShrinks, LogsStay DEF vars, serverVars, history, IInv
    <3>2. QED
      BY <2>1, <3>1 DEF vars, serverVars, leaderVars, history, IInv, ServerTypes,
                       LeaderTypes, HistoryTypes
  <2>2. CASE Next
    BY <2>2, RequestsKeep, AnswersKeep, ErrorsKeep, CallsKeep, RoundsKeep, CommitKeeps,
       OthersKeep DEF Next
  <2>3. QED
    BY <2>1, <2>2
<1>2. QED
  BY <1>1, InitHolds, PTL DEF Spec

\* raft_server keeps its fields in their ranges through every interleaving of
\* membership requests, answers, errors, rounds, commits and restarts.
THEOREM TypeCorrect == Spec => []TypeOK
<1>1. IInv => TypeOK
  BY DEF IInv, ServerTypes, LeaderTypes, HistoryTypes, NetOK, TypeOK
<1>2. QED
  BY <1>1, InvHolds, PTL

\* handle_ext_resp and handle_ext_resp_err remove no founder that neither agreed to
\* leave nor was given up, whatever requests overlap and calls are made again.
THEOREM RemovalsAgreed == Spec => []LeaverAgreed
<1>1. IInv => LeaverAgreed
  BY DEF IInv, LogsOK
<1>2. QED
  BY <1>1, InvHolds, PTL
-----------------------------------------------------------------------------
(* A joining server has nothing that the leader has not committed *)

\* The request a message is, or that it answers: what an error sends again.
Carried(m) == IF m.type = "answer" THEN m.to ELSE m

\* A pack is a piece of what the leader has committed.
PackOK(r) ==
  r.type = "sync" =>
    /\ r.idx + Len(r.entries) <= quick_commit_idx[Leader]
    /\ \A i \in DOMAIN r.entries : r.entries[i] = log[Leader][r.idx + i]

Copies ==
  /\ \A s \in Server : /\ Len(log[s]) <= Len(log[Leader])
                       /\ \A i \in DOMAIN log[s] : log[s][i] = log[Leader][i]
  /\ \A s \in Server : /\ sm_commit_index[s] <= quick_commit_idx[s]
                       /\ quick_commit_idx[s] <= quick_commit_idx[Leader]
  /\ \A m \in net : PackOK(Carried(m))

\* The types the steps below rest on.
LEMMA Ranges ==
  ASSUME IInv
  PROVE  /\ Leader \in Server
         /\ \A s \in Server : /\ log[s] \in Seq(Entry) /\ Len(log[s]) \in Nat
                              /\ DOMAIN log[s] = 1 .. Len(log[s])
                              /\ quick_commit_idx[s] \in Nat /\ sm_commit_index[s] \in Nat
         /\ quick_commit_idx[Leader] <= Len(log[Leader])
         /\ \A m \in net : /\ Carried(m) \in Request
                           /\ Carried(m).idx \in Nat /\ Len(Carried(m).entries) \in Nat
                           /\ DOMAIN Carried(m).entries = 1 .. Len(Carried(m).entries)
<1>1. Leader \in Server
  BY MembershipAssumption DEF Server
<1>2. \A m \in net : Carried(m) \in Request
  BY DEF IInv, NetOK, Message, Carried, Request
<1>3. \A r \in Request : /\ r.idx \in Nat /\ Len(r.entries) \in Nat
                         /\ DOMAIN r.entries = 1 .. Len(r.entries)
  BY DEF Request
<1>4. QED
  BY <1>1, <1>2, <1>3 DEF IInv, ServerTypes, LogsOK

\* A pack stays a piece of the leader's log when the log and the commit index grow.
LEMMA PacksStay ==
  ASSUME IInv, IInv', NEW m \in net', PackOK(Carried(m)),
         \A i \in 1 .. Len(log[Leader]) : log'[Leader][i] = log[Leader][i],
         quick_commit_idx[Leader] <= quick_commit_idx'[Leader]
  PROVE  PackOK(Carried(m))'
<1>1. PICK r \in Request : r = Carried(m)
  <2>1. Carried(m) \in Request
    BY DEF IInv, NetOK, Message, Carried, Request
  <2>2. QED
    BY <2>1
<1>2. r.idx \in Nat /\ Len(r.entries) \in Nat /\ DOMAIN r.entries = 1 .. Len(r.entries)
  BY DEF Request
<1>3. PackOK(r)
  BY <1>1
<1>4. ASSUME r.type = "sync"
      PROVE  /\ r.idx + Len(r.entries) <= quick_commit_idx'[Leader]
             /\ \A i \in DOMAIN r.entries : r.entries[i] = log'[Leader][r.idx + i]
  <2>1. quick_commit_idx'[Leader] \in Nat
    BY MembershipAssumption DEF IInv, ServerTypes, Server
  <2>2. \A i \in DOMAIN r.entries : r.idx + i \in 1 .. Len(log[Leader])
    BY <1>2, <1>3, <1>4, Ranges DEF PackOK
  <2>3. r.idx + Len(r.entries) <= quick_commit_idx'[Leader]
    <3>1. r.idx + Len(r.entries) <= quick_commit_idx[Leader]
          /\ quick_commit_idx[Leader] \in Nat
      BY <1>3, <1>4, Ranges DEF PackOK
    <3>2. QED
      BY <1>2, <2>1, <3>1
  <2>4. \A i \in DOMAIN r.entries : r.entries[i] = log'[Leader][r.idx + i]
    BY <1>3, <1>4, <2>2 DEF PackOK
  <2>5. QED
    BY <2>3, <2>4
<1>5. PackOK(r)'
  BY <1>4 DEF PackOK
<1>6. QED
  BY <1>1, <1>5 DEF Carried

\* A step that leaves the logs and commit indexes alone.
LEMMA CopiesStay ==
  ASSUME IInv, IInv', Copies, \A m \in net' : PackOK(Carried(m)),
         UNCHANGED <<log, quick_commit_idx, sm_commit_index>>
  PROVE  Copies'
<1>1. \A m \in net' : PackOK(Carried(m))'
  BY PacksStay, Ranges
<1>2. QED
  BY <1>1 DEF Copies

\* The leader appends an entry.
LEMMA CopiesAppend ==
  ASSUME IInv, IInv', Copies, \A m \in net' : PackOK(Carried(m)), NEW e \in Entry,
         log' = [log EXCEPT ![Leader] = Append(@, e)],
         \/ quick_commit_idx' = quick_commit_idx
         \/ quick_commit_idx' = [quick_commit_idx EXCEPT
                                   ![Leader] = Larger(@, next_slot(Leader))],
         sm_commit_index' = sm_commit_index
  PROVE  Copies'
<1>1. /\ log'[Leader] = Append(log[Leader], e)
      /\ Len(log'[Leader]) = Len(log[Leader]) + 1
      /\ \A s \in Server \ {Leader} : log'[s] = log[s]
  BY Ranges DEF IInv, ServerTypes
<1>2. \A i \in 1 .. Len(log[Leader]) : log'[Leader][i] = log[Leader][i]
  BY <1>1, Ranges
<1>3. /\ quick_commit_idx[Leader] <= quick_commit_idx'[Leader]
      /\ \A s \in Server : quick_commit_idx[s] <= quick_commit_idx'[s]
      /\ \A s \in Server \ {Leader} : quick_commit_idx'[s] = quick_commit_idx[s]
  <2>1. CASE quick_commit_idx' = quick_commit_idx
    BY <2>1, Ranges
  <2>2. CASE quick_commit_idx' = [quick_commit_idx EXCEPT
                                    ![Leader] = Larger(@, next_slot(Leader))]
    <3>1. next_slot(Leader) \in Nat
      BY Ranges DEF next_slot
    <3>2. quick_commit_idx[Leader] <= Larger(quick_commit_idx[Leader], next_slot(Leader))
      BY <3>1, Ranges DEF Larger
    <3>3. quick_commit_idx \in [Server -> Nat]
      BY DEF IInv, ServerTypes
    <3>4. QED
      BY <2>2, <3>2, <3>3, Ranges
  <2>3. QED
    BY <2>1, <2>2
<1>4. \A m \in net' : PackOK(Carried(m))'
  BY <1>2, <1>3, PacksStay
<1>5. \A s \in Server : /\ Len(log'[s]) <= Len(log'[Leader])
                        /\ \A i \in DOMAIN log'[s] : log'[s][i] = log'[Leader][i]
  BY <1>1, <1>2, Ranges DEF Copies
<1>6. \A s \in Server : /\ sm_commit_index'[s] <= quick_commit_idx'[s]
                        /\ quick_commit_idx'[s] <= quick_commit_idx'[Leader]
  <2>1. \A s \in Server : quick_commit_idx'[s] \in Nat
    BY DEF IInv, ServerTypes
  <2>2. QED
    BY <1>3, <2>1, Ranges DEF Copies
<1>7. QED
  BY <1>4, <1>5, <1>6 DEF Copies

\* A step that changes nothing but the logs and indexes of another server.
LEMMA CopiesOfOne ==
  ASSUME IInv, IInv', Copies, \A m \in net' : PackOK(Carried(m)),
         NEW s \in Server \ {Leader},
         \A t \in Server \ {s} : /\ log'[t] = log[t]
                                 /\ quick_commit_idx'[t] = quick_commit_idx[t]
                                 /\ sm_commit_index'[t] = sm_commit_index[t],
         Len(log'[s]) <= Len(log[Leader]),
         \A i \in DOMAIN log'[s] : log'[s][i] = log[Leader][i],
         sm_commit_index'[s] <= quick_commit_idx'[s],
         quick_commit_idx'[s] <= quick_commit_idx[Leader]
  PROVE  Copies'
<1>1. log'[Leader] = log[Leader] /\ quick_commit_idx'[Leader] = quick_commit_idx[Leader]
  BY Ranges
<1>2. \A m \in net' : PackOK(Carried(m))'
  BY <1>1, PacksStay, Ranges
<1>3. QED
  BY <1>1, <1>2 DEF Copies
\* An answer carries the request that it answers.
LEMMA ReplyCarries ==
  ASSUME NEW m \in net, m.type # "answer", NEW ok, NEW next, Reply(m, ok, next), Copies
  PROVE  \A k \in net' : PackOK(Carried(k))
BY DEF Reply, Answer, Carried, Copies

\* sync_log_to_new_srv packs committed entries only.
LEMMA SyncCopies ==
  ASSUME NEW start \in Nat, NEW rest \in SUBSET net, SyncLog(start, rest), IInv, IInv',
         Copies, srv_to_join # Nobody
  PROVE  Copies'
<1> DEFINE gap == quick_commit_idx[Leader] - start
           pack == SubSeq(log[Leader], start, start + Smaller(gap, Batch) - 1)
<1>1. \A k \in rest : PackOK(Carried(k))
  BY DEF Copies
<1>2. CASE gap < StopGap
  <2>1. PICK conf \in Entry : conf = config[Leader].servers \cup {srv_to_join}
    BY Ranges DEF IInv, ServerTypes, LeaderTypes, Config, Entry
  <2>2. net' = rest /\ AppendConf(conf)
    BY <1>2, <2>1 DEF SyncLog
  <2>3. QED
    BY <1>1, <2>2, CopiesAppend DEF AppendConf
<1>3. CASE ~(gap < StopGap) /\ start = 0
  BY <1>1, <1>3, CopiesStay DEF SyncLog
<1>4. CASE ~(gap < StopGap) /\ start # 0
  <2>1. quick_commit_idx[Leader] \in Nat /\ StopGap \in Nat \ {0} /\ Batch \in Nat \ {0}
    BY Ranges, MembershipAssumption
  <2>2. gap \in Nat /\ gap >= 1 /\ start \in Nat \ {0}
    BY <1>4, <2>1
  <2>3. PICK n \in 1 .. gap : n = Smaller(gap, Batch)
    BY <2>1, <2>2 DEF Smaller
  <2>4. PICK e : e = pack
    OBVIOUS
  <2>5. /\ \A i \in start .. start + n - 1 : log[Leader][i] \in Entry
        /\ start + n - 1 \in Nat /\ start + n - 1 < quick_commit_idx[Leader]
        /\ log[Leader] \in Seq(Entry)
    <3>1. start + n - 1 \in Nat /\ start + n - 1 < quick_commit_idx[Leader]
      BY <2>1, <2>2, <2>3
    <3>2. QED
      BY <2>2, <3>1, Ranges
  <2>6. e \in Seq(Entry) /\ Len(e) = n /\ \A i \in 1 .. n : e[i] = log[Leader][start + i - 1]
    <3>1. e = SubSeq(log[Leader], start, start + n - 1)
      BY <2>3, <2>4
    <3>2. PICK l \in Seq(Entry) : l = log[Leader]
      BY <2>5
    <3>3. PICK last \in Nat : last = start + n - 1
      BY <2>5
    <3>4. \A i \in start .. last : l[i] \in Entry
      BY <2>5, <3>2, <3>3
    <3>5. /\ SubSeq(l, start, last) \in Seq(Entry)
          /\ Len(SubSeq(l, start, last)) = IF start <= last THEN last - start + 1 ELSE 0
          /\ \A i \in 1 .. last - start + 1 : SubSeq(l, start, last)[i] = l[start + i - 1]
      BY <3>4, SubSeqProperties
    <3>6. start <= last /\ last - start + 1 = n
      BY <2>2, <2>3, <3>3
    <3>7. QED
      BY <3>1, <3>2, <3>3, <3>5, <3>6
  <2>7. PICK q : q = [type |-> "sync", dst |-> srv_to_join, idx |-> start - 1, entries |-> e]
    OBVIOUS
  <2>8. PackOK(Carried(q))
    <3>1. Carried(q) = q
      BY <2>7 DEF Carried
    <3>2. start - 1 + Len(e) <= quick_commit_idx[Leader]
      BY <2>1, <2>2, <2>3, <2>5, <2>6
    <3>3. \A i \in DOMAIN e : e[i] = log[Leader][start - 1 + i]
      <4>1. DOMAIN e = 1 .. n
        BY <2>6
      <4>2. \A i \in 1 .. n : start - 1 + i = start + i - 1
        BY <2>2
      <4>3. QED
        BY <2>6, <4>1, <4>2
    <3>4. QED
      BY <2>7, <3>1, <3>2, <3>3 DEF PackOK
  <2>9. net' = rest \cup {q} /\ UNCHANGED serverVars
    BY <1>4, <2>4, <2>7 DEF SyncLog, Req
  <2>10. QED
    BY <1>1, <2>8, <2>9, CopiesStay DEF serverVars
<1>5. QED
  BY <1>2, <1>3, <1>4

\* handle_join_cluster_req, sync_log_req and handle_leave_cluster_req
LEMMA RequestsCopy ==
  ASSUME NEW m \in net, IInv, IInv', Copies, HandleJoin(m) \/ HandleSync(m) \/ HandleLeave(m)
  PROVE  Copies'
<1>1. /\ m \in Request /\ m.type # "answer" /\ m.dst \in Server /\ Carried(m) = m
      /\ m.type # "leave" => m.dst # Leader
  BY DEF HandleJoin, HandleSync, HandleLeave, IInv, NetOK, MessageOK, RequestOK, Message,
         Request, Carried
<1>2. PICK s \in Server : s = m.dst
  BY <1>1
<1>3. /\ m.idx \in Nat /\ Len(m.entries) \in Nat /\ m.entries \in Seq(Entry)
      /\ DOMAIN m.entries = 1 .. Len(m.entries) /\ PackOK(m)
  BY <1>1, Ranges DEF Copies, Request
<1>4. CASE UNCHANGED <<log, quick_commit_idx, sm_commit_index>>
  <2>1. \A k \in net' : PackOK(Carried(k))
    BY <1>1, ReplyCarries DEF HandleJoin, HandleSync, HandleLeave, Copies
  <2>2. QED
    BY <1>4, <2>1, CopiesStay
<1>5. CASE HandleJoin(m) /\ ~catching_up[s]
  <2>1. s # Leader /\ \A k \in net' : PackOK(Carried(k))
    BY <1>1, <1>2, <1>5, ReplyCarries DEF HandleJoin
  <2>2. /\ log' = log
        /\ quick_commit_idx' = [quick_commit_idx EXCEPT ![s] = 0]
        /\ sm_commit_index' = [sm_commit_index EXCEPT ![s] = 0]
    BY <1>2, <1>5 DEF HandleJoin
  <2>3. sm_commit_index'[s] = 0 /\ quick_commit_idx'[s] = 0
    BY <2>2 DEF IInv, ServerTypes
  <2>4. QED
    <3>1. \A t \in Server \ {s} : /\ log'[t] = log[t]
                                  /\ quick_commit_idx'[t] = quick_commit_idx[t]
                                  /\ sm_commit_index'[t] = sm_commit_index[t]
      BY <2>2 DEF IInv, ServerTypes
    <3>2. /\ Len(log'[s]) <= Len(log[Leader])
          /\ \A i \in DOMAIN log'[s] : log'[s][i] = log[Leader][i]
          /\ 0 <= quick_commit_idx[Leader]
      BY <2>2, Ranges DEF Copies
    <3>3. QED
      BY <2>1, <2>3, <3>1, <3>2, CopiesOfOne
<1>6. CASE HandleSync(m) /\ catching_up[s] /\ ~(m.idx > Len(log[s]))
  <2>1. PICK head : head = SubSeq(log[s], 1, m.idx)
    OBVIOUS
  <2>2. /\ head \in Seq(Entry) /\ Len(head) = m.idx
        /\ \A i \in 1 .. m.idx : i \in DOMAIN log[s] /\ head[i] = log[s][i]
    BY <1>3, <1>6, <2>1, Ranges, SubSeqProperties
  <2>3. PICK tail \in Seq(Entry) : tail = m.entries
    BY <1>3
  <2>4. PICK merged : merged = head \o tail
    OBVIOUS
  <2>5. /\ merged \in Seq(Entry) /\ Len(merged) = m.idx + Len(tail)
        /\ \A i \in 1 .. m.idx + Len(tail) :
             merged[i] = IF i <= m.idx THEN head[i] ELSE tail[i - m.idx]
    <3>1. /\ head \o tail \in Seq(Entry)
          /\ Len(head \o tail) = Len(head) + Len(tail)
          /\ \A i \in 1 .. Len(head) + Len(tail) :
               (head \o tail)[i] = IF i <= Len(head) THEN head[i] ELSE tail[i - Len(head)]
      BY <2>2, ConcatProperties
    <3>2. QED
      BY <2>2, <2>4, <3>1
  <2>6. m.type = "sync" /\ s # Leader
    BY <1>1, <1>2, <1>6 DEF HandleSync
  <2>7. \A i \in DOMAIN merged : merged[i] = log[Leader][i]
    <3> SUFFICES ASSUME NEW i \in 1 .. m.idx + Len(tail)
                 PROVE  merged[i] = log[Leader][i]
      BY <2>5
    <3>1. CASE i <= m.idx
      <4>1. i \in 1 .. m.idx
        BY <1>3, <2>3, <3>1
      <4>2. QED
        BY <2>2, <2>5, <3>1, <4>1 DEF Copies
    <3>2. CASE ~(i <= m.idx)
      <4>1. i - m.idx \in DOMAIN m.entries /\ m.idx + (i - m.idx) = i
        BY <1>3, <2>3, <3>2
      <4>2. m.entries[i - m.idx] = log[Leader][m.idx + (i - m.idx)]
        BY <1>3, <2>6, <4>1 DEF PackOK
      <4>3. QED
        BY <2>3, <2>5, <3>2, <4>1, <4>2
    <3>3. QED
      BY <3>1, <3>2
  <2>8. Len(merged) \in Nat /\ Len(merged) <= quick_commit_idx[Leader]
        /\ Len(merged) <= Len(log[Leader])
    BY <1>3, <2>3, <2>5, <2>6, Ranges DEF PackOK
  <2>9. /\ log' = [log EXCEPT ![s] = merged] /\ Reply(m, TRUE, Len(merged) + 1)
        /\ quick_commit_idx' = [quick_commit_idx EXCEPT ![s] = Larger(@, Len(merged))]
        /\ sm_commit_index' = sm_commit_index
    BY <1>2, <1>6, <2>1, <2>3, <2>4 DEF HandleSync
  <2>10. \A k \in net' : PackOK(Carried(k))
    BY <1>1, <2>9, ReplyCarries
  <2>11. log'[s] = merged /\ quick_commit_idx'[s] = Larger(quick_commit_idx[s], Len(merged))
         /\ \A t \in Server \ {s} : /\ log'[t] = log[t]
                                    /\ quick_commit_idx'[t] = quick_commit_idx[t]
                                    /\ sm_commit_index'[t] = sm_commit_index[t]
    BY <2>9 DEF IInv, ServerTypes
  <2>12. sm_commit_index'[s] <= quick_commit_idx'[s]
         /\ quick_commit_idx'[s] <= quick_commit_idx[Leader]
    BY <2>8, <2>9, <2>11, Ranges DEF Larger, Copies
  <2>13. QED
    BY <2>6, <2>7, <2>8, <2>10, <2>11, <2>12, CopiesOfOne
<1>7. QED
  BY <1>2, <1>4, <1>5, <1>6 DEF HandleJoin, HandleSync, HandleLeave, serverVars
\* The answers
LEMMA AnswersCopy ==
  ASSUME NEW m \in net, IInv, IInv', Copies,
         HandleJoinAnswer(m) \/ HandleSyncAnswer(m) \/ HandleLeaveAnswer(m)
  PROVE  Copies'
<1>1. PICK rest \in SUBSET net : rest = net \ {m}
  OBVIOUS
<1>2. m.next_idx \in Nat /\ m.src \in Server /\ \A k \in rest : PackOK(Carried(k))
  BY <1>1 DEF HandleJoinAnswer, HandleSyncAnswer, HandleLeaveAnswer, IInv, NetOK, Message,
              Request, Copies
<1>3. CASE srv_to_join # Nobody /\ SyncLog(m.next_idx, rest)
  BY <1>2, <1>3, SyncCopies
<1>4. CASE net' = rest /\ UNCHANGED serverVars
  BY <1>2, <1>4, CopiesStay DEF serverVars
<1>5. CASE net' = rest /\ RmSrvFromCluster(m.src)
  <2>1. PICK conf \in Entry : conf = config[Leader].servers \ {m.src}
    BY Ranges DEF IInv, ServerTypes, Config, Entry
  <2>2. AppendConf(conf)
    BY <1>5, <2>1 DEF RmSrvFromCluster
  <2>3. QED
    BY <1>2, <1>5, <2>2, CopiesAppend DEF AppendConf
<1>6. QED
  BY <1>1, <1>3, <1>4, <1>5 DEF HandleJoinAnswer, HandleSyncAnswer, HandleLeaveAnswer

\* The errors
LEMMA ErrorsCopy ==
  ASSUME NEW m \in net, IInv, IInv', Copies, RpcError(m)
  PROVE  Copies'
<1>1. PICK req : req = Carried(m)
  OBVIOUS
<1>2. PICK rest \in SUBSET net : rest = net \ {m}
  OBVIOUS
<1>3. RetryOrGiveUp(req, rest) /\ req \in Request /\ PackOK(req)
  BY <1>1, <1>2, Ranges DEF RpcError, Carried, Copies
<1>4. \A k \in rest : PackOK(Carried(k))
  BY DEF Copies
<1>5. CASE net' = rest /\ UNCHANGED <<log, quick_commit_idx, sm_commit_index>>
  BY <1>4, <1>5, CopiesStay
<1>6. ASSUME NEW p, net' = rest \cup {[req EXCEPT !.dst = p]}, UNCHANGED serverVars
      PROVE  Copies'
  <2>1. PICK again : again = [req EXCEPT !.dst = p]
    OBVIOUS
  <2>2. Carried(again) = again /\ PackOK(again)
    BY <1>3, <2>1 DEF Carried, Request, PackOK
  <2>3. QED
    BY <1>4, <1>6, <2>1, <2>2, CopiesStay DEF serverVars
<1>7. ASSUME NEW p, net' = rest, RmSrvFromCluster(p)
      PROVE  Copies'
  <2>1. PICK conf \in Entry : conf = config[Leader].servers \ {p}
    BY Ranges DEF IInv, ServerTypes, Config, Entry
  <2>2. AppendConf(conf)
    BY <1>7, <2>1 DEF RmSrvFromCluster
  <2>3. QED
    BY <1>4, <1>7, <2>2, CopiesAppend DEF AppendConf
<1>8. QED
  BY <1>3, <1>5, <1>6, <1>7 DEF RetryOrGiveUp, serverVars

\* A round gives the peer the leader's log and commit index.
LEMMA RoundsCopy ==
  ASSUME NEW s \in Server, IInv, IInv', Copies, Replicate(s)
  PROVE  Copies'
<1>1. PICK n \in 0 .. Len(log[Leader]) :
        quick_commit_idx' = [quick_commit_idx EXCEPT
          ![s] = Larger(@, quick_commit_idx[Leader]), ![Leader] = Larger(@, n)]
  BY DEF Replicate
<1>2. log'[s] = log[Leader] /\ log'[Leader] = log[Leader]
      /\ \A t \in Server \ {s} : log'[t] = log[t]
  BY Ranges DEF Replicate, IInv, ServerTypes
<1>3. quick_commit_idx[Leader] <= quick_commit_idx'[Leader]
      /\ \A t \in Server : /\ quick_commit_idx[t] <= quick_commit_idx'[t]
                           /\ quick_commit_idx'[t] <= quick_commit_idx'[Leader]
  <2>1. quick_commit_idx \in [Server -> Nat] /\ n \in Nat
    BY Ranges DEF IInv, ServerTypes
  <2>2. CASE s = Leader
    BY <1>1, <2>1, <2>2, Ranges DEF Larger, Copies
  <2>3. CASE s # Leader
    BY <1>1, <2>1, <2>3, Ranges DEF Larger, Copies
  <2>4. QED
    BY <2>2, <2>3
<1>4. \A m \in net' : PackOK(Carried(m))'
  <2>1. \A m \in net' : PackOK(Carried(m))
    BY DEF Replicate, Copies
  <2>2. QED
    BY <1>2, <1>3, <2>1, PacksStay
<1>5. \A t \in Server : sm_commit_index'[t] <= quick_commit_idx'[t]
  <2>1. \A t \in Server : quick_commit_idx'[t] \in Nat /\ sm_commit_index'[t] = sm_commit_index[t]
    BY DEF Replicate, IInv, ServerTypes
  <2>2. QED
    BY <1>3, <2>1, Ranges DEF Copies
<1>6. QED
  BY <1>2, <1>3, <1>4, <1>5, Ranges DEF Copies

\* The other actions
LEMMA OthersCopy ==
  ASSUME IInv, IInv', Copies,
         \/ ClientRequest
         \/ \E s \in Server : AddServer(s) \/ RemoveServer(s) \/ StepDown(s) \/ CommitInBg(s)
                              \/ Restart(s)
  PROVE  Copies'
<1>1. \A m \in net' : PackOK(Carried(m))
  <2>1. CASE net' = net
    BY <2>1 DEF Copies
  <2>2. ASSUME NEW r, r.type = "join" \/ r.type = "leave", net' = net \cup {r}
        PROVE  \A m \in net' : PackOK(Carried(m))
    BY <2>2 DEF Copies, Carried, PackOK
  <2>3. \A s \in Server : AddServer(s) \/ RemoveServer(s) =>
          \E r : (r.type = "join" \/ r.type = "leave") /\ net' = net \cup {r}
    <3> SUFFICES ASSUME NEW s \in Server, AddServer(s) \/ RemoveServer(s)
                 PROVE  \E r : (r.type = "join" \/ r.type = "leave") /\ net' = net \cup {r}
      OBVIOUS
    <3>1. CASE AddServer(s)
      <4> DEFINE r == [type |-> "join", dst |-> s, idx |-> config[Leader].log_idx,
                       entries |-> <<config[Leader].servers>>]
      <4>1. r.type = "join" /\ net' = net \cup {r}
        BY <3>1 DEF AddServer, Req
      <4>2. QED
        BY <4>1
    <3>2. CASE RemoveServer(s)
      <4> DEFINE r == [type |-> "leave", dst |-> s, idx |-> 0, entries |-> <<>>]
      <4>1. r.type = "leave" /\ net' = net \cup {r}
        BY <3>2 DEF RemoveServer, Req
      <4>2. QED
        BY <4>1
    <3>3. QED
      BY <3>1, <3>2
  <2>4. QED
    BY <2>1, <2>2, <2>3 DEF ClientRequest, StepDown, CommitInBg, Restart
<1>2. CASE ClientRequest
  <2>1. App \in Entry
    BY DEF App, Entry
  <2>2. QED
    BY <1>1, <1>2, <2>1, CopiesAppend DEF ClientRequest
<1>3. CASE \E s \in Server : AddServer(s) \/ RemoveServer(s) \/ StepDown(s)
  BY <1>1, <1>3, CopiesStay DEF AddServer, RemoveServer, StepDown, serverVars
<1>4. ASSUME NEW s \in Server, CommitInBg(s)
      PROVE  Copies'
  <2>1. /\ log' = log /\ quick_commit_idx' = quick_commit_idx
        /\ sm_commit_index[s] + 1 <= quick_commit_idx[s]
        /\ sm_commit_index' = [sm_commit_index EXCEPT ![s] = sm_commit_index[s] + 1]
    BY <1>4 DEF CommitInBg
  <2>2. \A t \in Server : sm_commit_index'[t] <= quick_commit_idx'[t]
    BY <2>1, Ranges DEF IInv, ServerTypes, Copies
  <2>3. \A m \in net' : PackOK(Carried(m))'
    BY <1>1, <2>1, PacksStay, Ranges
  <2>4. QED
    BY <2>1, <2>2, <2>3 DEF Copies
<1>5. ASSUME NEW s \in Server, Restart(s)
      PROVE  Copies'
  <2>1. /\ log' = log /\ sm_commit_index' = sm_commit_index /\ s # Leader
        /\ quick_commit_idx'[s] = sm_commit_index[s]
        /\ \A t \in Server \ {s} : quick_commit_idx'[t] = quick_commit_idx[t]
    BY <1>5 DEF Restart, IInv, ServerTypes
  <2>2. sm_commit_index[s] <= quick_commit_idx[Leader]
    BY Ranges DEF Copies
  <2>3. QED
    BY <1>1, <2>1, <2>2, CopiesOfOne, Ranges DEF Copies
<1>6. QED
  BY <1>2, <1>3, <1>4, <1>5
\* At the start every log is the leader's or empty.
LEMMA CopiesInit == Init => Copies
<1> SUFFICES ASSUME Init PROVE Copies
  OBVIOUS
<1>1. IInv
  BY InitHolds
<1>2. \A s \in Server : log[s] = log[Leader] \/ log[s] = <<>>
  BY MembershipAssumption DEF Init, Server
<1>3. \A s \in Server : /\ quick_commit_idx[s] = Len(log[s])
                        /\ sm_commit_index[s] = Len(log[s])
  BY DEF Init
<1>4. Len(<<>>) = 0 /\ DOMAIN <<>> = {}
  OBVIOUS
<1>5. net = {}
  BY DEF Init
<1>6. QED
  BY <1>1, <1>2, <1>3, <1>4, <1>5, Ranges DEF Copies

\* Both parts of the invariant together
LEMMA CopiesHold == Spec => [](IInv /\ Copies)
<1>1. IInv /\ IInv' /\ Copies /\ [Next]_vars => Copies'
  <2> SUFFICES ASSUME IInv, IInv', Copies, [Next]_vars PROVE Copies'
    OBVIOUS
  <2>1. CASE UNCHANGED vars
    BY <2>1, CopiesStay DEF vars, serverVars, Copies
  <2>2. CASE Next
    BY <2>2, RequestsCopy, AnswersCopy, ErrorsCopy, RoundsCopy, OthersCopy DEF Next
  <2>3. QED
    BY <2>1, <2>2
<1>2. QED
  BY <1>1, InvHolds, CopiesInit, PTL DEF Spec

\* handle_log_sync_req and handle_append_entries never leave a server with an entry
\* that the leader does not have at that index.
THEOREM LogsAreCopies == Spec => []LogIsPrefix
<1>1. IInv /\ Copies => LogIsPrefix
  <2> SUFFICES ASSUME IInv, Copies, NEW s \in Server
               PROVE  log[s] = SubSeq(log[Leader], 1, Len(log[s]))
    BY DEF LogIsPrefix
  <2>1. PICK n \in Nat : n = Len(log[s])
    BY Ranges
  <2>2. PICK t : t = SubSeq(log[Leader], 1, n)
    OBVIOUS
  <2>3. \A i \in 1 .. n : log[Leader][i] \in Entry /\ log[s][i] = log[Leader][i]
    BY <2>1, Ranges DEF Copies
  <2>4. t \in Seq(Entry) /\ Len(t) = n /\ \A i \in 1 .. n : t[i] = log[Leader][i]
    BY <2>1, <2>2, <2>3, SubSeqProperties
  <2>5. log[s] = t
    BY <2>1, <2>3, <2>4, Ranges, SeqEqual
  <2>6. QED
    BY <2>1, <2>2, <2>5
<1>2. QED
  BY <1>1, CopiesHold, PTL

\* A joining server, which commits the whole of a pack (handle_log_sync_req), never
\* commits what the leader has not.
THEOREM PacksAreCommitted == Spec => []JoinerCommitsCommitted
<1>1. Copies => JoinerCommitsCommitted
  BY DEF Copies, JoinerCommitsCommitted
<1>2. QED
  BY <1>1, CopiesHold, PTL
=============================================================================
