------------------------- MODULE RaftServerProofs --------------------------
(***************************************************************************)
(* Type correctness of RaftServer: what its operators on logs, messages    *)
(* and majorities return, then that TypeOK is inductive by itself, action  *)
(* by action, once the steps the handlers share are known to keep it.      *)
(* From it, that a leader's log only grows, and, with the calls in flight, *)
(* that a busy peer has a call that will set it free.                      *)
(***************************************************************************)
EXTENDS RaftServer, FiniteSetTheorems, SequenceTheorems, TLAPS

-----------------------------------------------------------------------------
(* Logs, messages and majorities *)

LEMMA Bounds ==
  /\ MaxTerm \in Nat /\ MaxAppend \in Nat \ {0} /\ ULongMax \in Nat
  /\ DurableState \in BOOLEAN
BY ParameterAssumption

LEMMA ServerCount == Cardinality(Server) \in Nat \ {0} /\ Half \in Nat
<1>1. Cardinality(Server) \in Nat /\ Cardinality(Server) # 0
  BY ServerAssumption, FS_CardinalityType, FS_EmptySet
<1>2. QED
  BY <1>1 DEF Half

\* A finite set of integers that is not empty has a largest element: a smallest
\* set without one would have one as soon as any element were set aside.
LEMMA FiniteMax ==
  ASSUME NEW S \in SUBSET Int, IsFiniteSet(S), S # {}
  PROVE  Max(S) \in S /\ \A y \in S : Max(S) >= y
<1> DEFINE HasMax(U) == \E x \in U : \A y \in U : x >= y
           Bad == {U \in SUBSET S : U # {} /\ ~HasMax(U)}
<1>1. HasMax(S)
  <2> SUFFICES ASSUME S \in Bad PROVE FALSE
    OBVIOUS
  <2>1. PICK U \in Bad : \A V \in Bad : <<V, U>> \notin StrictSubsetOrdering(S)
    <3>1. IsWellFoundedOn(StrictSubsetOrdering(S), SUBSET S)
      BY FS_StrictSubsetOrderingWellFounded, FS_FiniteSubsetsOfFinite
    <3>2. Bad \subseteq SUBSET S /\ Bad # {}
      OBVIOUS
    <3> HIDE DEF Bad
    <3>3. QED
      BY <3>1, <3>2, WFMin
  <2>2. PICK x \in U : TRUE
    OBVIOUS
  <2>3. U \ {x} \notin Bad
    BY <2>1, <2>2 DEF StrictSubsetOrdering
  <2>4. CASE U = {x}
    BY <2>2, <2>4
  <2>5. CASE U # {x}
    <3>1. HasMax(U \ {x})
      BY <2>2, <2>3, <2>5
    <3>2. PICK z \in U \ {x} : \A y \in U \ {x} : z >= y
      BY <3>1
    <3>3. z \in Int /\ x \in Int /\ U \subseteq Int
      OBVIOUS
    <3>4. z >= x => \A y \in U : z >= y
      BY <3>2
    <3>5. x >= z => \A y \in U : x >= y
      BY <3>2, <3>3
    <3>6. QED
      BY <3>3, <3>4, <3>5, <2>2
  <2>6. QED
    BY <2>4, <2>5
<1>2. QED
  BY <1>1 DEF Max

\* A value that a function on the servers reaches everywhere.
LEMMA CommonBound ==
  ASSUME NEW f \in [Server -> Nat]
  PROVE  /\ IsFiniteSet({f[p] : p \in Server})
         /\ \E v \in {f[p] : p \in Server} : \A p \in Server : f[p] >= v
<1> DEFINE R == {f[p] : p \in Server}
           N == {-f[p] : p \in Server}
<1>1. IsFiniteSet(R)
  <2>1. f \in Surjection(Server, R)
    BY DEF Surjection
  <2>2. QED
    BY <2>1, ServerAssumption, FS_Surjection
<1>2. IsFiniteSet(N) /\ N \in SUBSET Int /\ N # {}
  <2>1. [p \in Server |-> -f[p]] \in Surjection(Server, N)
    BY DEF Surjection
  <2>2. QED
    BY <2>1, ServerAssumption, FS_Surjection
<1>3. Max(N) \in N /\ \A y \in N : Max(N) >= y
  <2> HIDE DEF N
  <2>1. QED
    BY <1>2, FiniteMax
<1>4. PICK q \in Server : \A p \in Server : -f[q] >= -f[p]
  BY <1>3
<1>5. \A p \in Server : f[p] >= f[q]
  BY <1>4
<1>6. QED
  BY <1>1, <1>5

\* The index that handle_append_entries_resp takes from its sorted array is
\* one that some member, the server itself included, has reached.
LEMMA MajorityMatchedType ==
  ASSUME LogTypes, NEW i \in Server, NEW matched \in [Server -> Nat]
  PROVE  MajorityMatched(i, matched) \in Nat
<1> DEFINE reach == [p \in Server |-> IF p = i THEN Len(log[i]) ELSE matched[p]]
           R == {reach[p] : p \in Server}
           M == {v \in R : Cardinality({p \in Server : reach[p] >= v}) > Half}
<1>1. reach \in [Server -> Nat]
  BY LenProperties DEF LogTypes
<1>2. IsFiniteSet(R) /\ \E v \in R : \A p \in Server : reach[p] >= v
  <2> HIDE DEF reach
  <2>1. QED
    BY <1>1, CommonBound
<1>3. M # {}
  <2>1. PICK v \in R : \A p \in Server : reach[p] >= v
    BY <1>2
  <2>2. {p \in Server : reach[p] >= v} = Server
    BY <2>1
  <2>3. Cardinality(Server) > Half
    BY ServerCount DEF Half
  <2>4. QED
    BY <2>1, <2>2, <2>3
<1>4. R \subseteq Nat
  BY <1>1
<1>5. M \subseteq Nat /\ IsFiniteSet(M)
  <2>1. M \in SUBSET R
    OBVIOUS
  <2>2. QED
    BY <1>2, <1>4, <2>1, FS_Subset
<1>6. Max(M) \in M
  <2> HIDE DEF M
  <2>1. QED
    BY <1>3, <1>5, FiniteMax
<1>7. QED
  BY <1>5, <1>6 DEF MajorityMatched

-----------------------------------------------------------------------------
(* Logs and messages *)

LEMMA TermAtType ==
  ASSUME NEW lg \in Seq(Entry), NEW k \in 0 .. Len(lg)
  PROVE  TermAt(lg, k) \in Term
<1>1. 0 \in Term
  BY Bounds DEF Term
<1>2. k # 0 => lg[k] \in Entry
  BY ElementOfSeq, LenProperties
<1>3. QED
  BY <1>1, <1>2 DEF TermAt, Entry

LEMMA LastTermType ==
  ASSUME NEW lg \in Seq(Entry)
  PROVE  LastTerm(lg) \in Term
BY TermAtType, LenProperties DEF LastTerm

\* Merging a leader's entries after an index the log reaches gives a log.
LEMMA MergeLogType ==
  ASSUME NEW lg \in Seq(Entry), NEW es \in Seq(Entry), NEW prev \in 0 .. Len(lg)
  PROVE  MergeLog(lg, prev, es) \in Seq(Entry)
<1> DEFINE agree(k) == \A j \in 1 .. k : /\ prev + j <= Len(lg)
                                         /\ lg[prev + j].term = es[j].term
           K == {k \in 0 .. Len(es) : agree(k)}
           n == Max(K)
<1>1. Len(lg) \in Nat /\ Len(es) \in Nat
  BY LenProperties
<1>2. n \in K
  <2>1. 0 .. Len(es) \subseteq Int /\ IsFiniteSet(0 .. Len(es))
    BY <1>1, FS_Interval
  <2>2. K \in SUBSET Int /\ IsFiniteSet(K)
    BY <2>1, FS_Subset
  <2>3. 0 \in K
    BY <1>1
  <2> HIDE DEF K
  <2>4. QED
    BY <2>2, <2>3, FiniteMax
<1>3. n \in 0 .. Len(es) /\ prev + n <= Len(lg)
  <2>1. n \in 0 .. Len(es) /\ agree(n)
    BY <1>2
  <2> HIDE DEF n
  <2>2. n = 0 \/ n \in 1 .. n
    BY <2>1, <1>1
  <2>3. QED
    BY <2>1, <2>2, <1>1
<1> HIDE DEF n
<1>4. SubSeq(lg, 1, prev + n) \in Seq(Entry)
  <2>1. \A j \in 1 .. prev + n : lg[j] \in Entry
    BY <1>1, <1>3, ElementOfSeq
  <2>2. QED
    BY <1>1, <1>3, <2>1, SubSeqProperties
<1>5. SubSeq(es, n + 1, Len(es)) \in Seq(Entry)
  <2>1. \A j \in n + 1 .. Len(es) : es[j] \in Entry
    BY <1>1, <1>3, ElementOfSeq
  <2>2. QED
    BY <1>1, <1>3, <2>1, SubSeqProperties
<1>6. QED
  BY <1>4, <1>5, ConcatProperties DEF MergeLog, n

\* A next index from 1 to next_slot makes a well-formed request.
LEMMA AppendReqType ==
  ASSUME NEW i \in Server, NEW p \in Server, NEW t \in Term,
         NEW lg \in Seq(Entry), NEW n \in 1 .. Len(lg) + 1, NEW commit \in Nat
  PROVE  AppendReq(i, p, t, lg, n, commit) \in Message
<1> DEFINE last == Smaller(Len(lg), n + MaxAppend - 1)
<1>1. Len(lg) \in Nat /\ MaxAppend \in Nat
  BY LenProperties, Bounds
<1>2. last \in Int /\ last <= Len(lg)
  BY <1>1 DEF Smaller
<1>3. SubSeq(lg, n, last) \in Seq(Entry)
  <2>1. \A j \in n .. last : lg[j] \in Entry
    BY <1>1, <1>2, ElementOfSeq
  <2>2. QED
    BY <1>1, <1>2, <2>1, SubSeqProperties
<1>4. TermAt(lg, n - 1) \in Term
  BY <1>1, TermAtType
<1>5. AppendReq(i, p, t, lg, n, commit) \in AppendRequest
  BY <1>1, <1>3, <1>4 DEF AppendReq, AppendRequest
<1>6. QED
  BY <1>5 DEF Message

LEMMA VoteReqType ==
  ASSUME LogTypes, NEW i \in Server, NEW p \in Server, NEW t \in Term
  PROVE  VoteReq(i, p, t) \in Message
<1>1. log[i] \in Seq(Entry)
  BY DEF LogTypes
<1>2. Len(log[i]) \in Nat /\ LastTerm(log[i]) \in Term
  BY <1>1, LenProperties, LastTermType
<1>3. VoteReq(i, p, t) \in VoteRequest
  BY <1>2 DEF VoteReq, VoteRequest
<1>4. QED
  BY <1>3 DEF Message

\* The members of a message, by its type
LEMMA MessageMembers ==
  ASSUME NEW m \in Message
  PROVE  /\ m.src \in Server /\ m.dst \in Server
         /\ Caller(m) \in Server /\ Callee(m) \in Server
         /\ IsRequest(m) => m.open \in BOOLEAN
         /\ m.type # "client_request" => m.term \in Term
         /\ m.type \in {"vote_response", "append_entries_response"}
              => m.accepted \in BOOLEAN
         /\ m.type = "append_entries_response" => m.next_idx \in Nat \ {0}
         /\ m.type = "append_entries_request"
              => /\ m.last_idx \in Nat /\ m.commit \in Nat
                 /\ m.entries \in Seq(Entry)
BY DEF Message, VoteRequest, AppendRequest, ClientMessage, VoteResponse,
       AppendResponse, Caller, Callee, IsRequest

\* A request whose caller is gone is still a request.
LEMMA ClosedRequest ==
  ASSUME NEW m \in Message, IsRequest(m)
  PROVE  [m EXCEPT !.open = FALSE] \in Message
<1>1. CASE m \in VoteRequest
  BY <1>1 DEF VoteRequest, Message
<1>2. CASE m \in AppendRequest
  BY <1>2 DEF AppendRequest, Message
<1>3. CASE m \in ClientMessage
  BY <1>3 DEF ClientMessage, Message
<1>4. QED
  BY <1>1, <1>2, <1>3 DEF Message, IsRequest, VoteResponse, AppendResponse

-----------------------------------------------------------------------------
(* Types *)

Statuses == {"up", "rival_leader", "index_too_large"}

LEMMA UpdateTermType ==
  ASSUME ServerTypes, NEW i \in Server, NEW t \in Term, UpdateTerm(i, t)
  PROVE  /\ term' \in [Server -> Term]
         /\ election_completed' \in [Server -> BOOLEAN]
         /\ votes_granted' \in [Server -> Nat]
         /\ voted_servers' \in [Server -> SUBSET Server]
BY DEF ServerTypes, UpdateTerm

LEMMA VotedForType ==
  ASSUME ServerTypes, NEW i \in Server, NEW t \in Term
  PROVE  VotedFor(i, t) \in Server \cup {None}
BY DEF ServerTypes, VotedFor

LEMMA ReplyType ==
  ASSUME net \subseteq Message, NEW req \in Message, NEW resp \in Message
  PROVE  Reply(req, resp) \subseteq Message
BY DEF Reply

\* Whatever next indexes it is given, request_append_entries sends requests from
\* index 1 up: a 0 is replaced and one past next_slot sends nothing.
LEMMA RequestAppendEntriesType ==
  ASSUME ServerTypes, PeerTypes, NEW i \in Server, NEW P \in SUBSET Server,
         NEW rest \in SUBSET Message, NEW lg \in Seq(Entry),
         NEW nx \in [Server -> Nat], NEW bz \in [Server -> BOOLEAN],
         NEW qc \in Nat, RequestAppendEntries(i, P, rest, lg, nx, bz, qc)
  PROVE  /\ status' \in [Server -> Statuses]
         /\ net' \subseteq Message
         /\ next_log_idx' \in Index
         /\ busy' \in Flags
<1> DEFINE free == {p \in P : ~bz[p]}
           start == [p \in Server |->
                      IF p \in free /\ nx[p] = 0 THEN Len(lg) + 1 ELSE nx[p]]
           over == {p \in free : start[p] > Len(lg) + 1}
           msgs(Q) == {AppendReq(i, p, term[i], lg, start[p], qc) : p \in Q}
<1>1. Len(lg) \in Nat /\ term[i] \in Term
  BY LenProperties DEF ServerTypes
<1>2. start \in [Server -> Nat]
  BY <1>1
<1>3. \A p \in free \ over : start[p] \in 1 .. Len(lg) + 1
  BY <1>1
<1>4. \A Q \in SUBSET (free \ over) : msgs(Q) \subseteq Message
  <2> SUFFICES ASSUME NEW p \in free \ over
               PROVE  AppendReq(i, p, term[i], lg, start[p], qc) \in Message
    OBVIOUS
  <2>1. start[p] \in 1 .. Len(lg) + 1 /\ p \in Server
    BY <1>3
  <2> HIDE DEF start
  <2>2. QED
    BY <1>1, <2>1, AppendReqType
<1> HIDE DEF start
<1>5. CASE /\ over = {}
           /\ net' = rest \cup msgs(free)
           /\ next_log_idx' = [next_log_idx EXCEPT ![i] = start]
           /\ busy' = [busy EXCEPT ![i] = [p \in Server |-> bz[p] \/ p \in free]]
           /\ UNCHANGED status
  <2>1. net' \subseteq Message
    BY <1>4, <1>5
  <2>2. [p \in Server |-> bz[p] \/ p \in free] \in [Server -> BOOLEAN]
    OBVIOUS
  <2>3. QED
    BY <1>2, <1>5, <2>1, <2>2 DEF ServerTypes, PeerTypes, Index, Flags, Statuses
<1>6. CASE /\ over # {}
           /\ \E Q \in SUBSET (free \ over) : net' = rest \cup msgs(Q)
           /\ next_log_idx' = [next_log_idx EXCEPT ![i] = start]
           /\ busy' = [busy EXCEPT ![i] = bz]
           /\ status' = [status EXCEPT ![i] = "index_too_large"]
  <2>1. net' \subseteq Message
    BY <1>4, <1>6
  <2>2. QED
    BY <1>2, <1>6, <2>1 DEF ServerTypes, PeerTypes, Index, Flags, Statuses
<1>7. QED
  BY <1>5, <1>6 DEF RequestAppendEntries, start

\* A new leader's log, indexes and first requests
LEMMA BecomeLeaderType ==
  ASSUME ServerTypes, LogTypes, PeerTypes, NEW i \in Server, NEW t \in Term,
         NEW rest \in SUBSET Message, BecomeLeader(i, t, rest)
  PROVE  /\ role' \in [Server -> {"follower", "candidate", "leader"}]
         /\ leader_' \in [Server -> Server \cup {None}]
         /\ elections' = elections \cup {<<t, i>>}
         /\ log' \in [Server -> Seq(Entry)]
         /\ conf_idx' \in [Server -> Nat]
         /\ quick_commit_idx' \in [Server -> Nat]
         /\ next_log_idx' \in Index
         /\ busy' \in Flags
         /\ net' \subseteq Message
<1> DEFINE lg == IF conf_idx[i] = 0
                 THEN Append(log[i], [term |-> t, kind |-> "conf"]) ELSE log[i]
           slot == Len(log[i]) + 1
<1>1. log[i] \in Seq(Entry) /\ Len(log[i]) \in Nat /\ quick_commit_idx[i] \in Nat
  BY LenProperties DEF LogTypes
<1>2. lg \in Seq(Entry) /\ Len(lg) \in Nat /\ slot \in 1 .. Len(lg) + 1
  <2>1. [term |-> t, kind |-> "conf"] \in Entry
    BY DEF Entry
  <2>2. CASE conf_idx[i] = 0
    BY <1>1, <2>1, <2>2, AppendProperties
  <2>3. CASE conf_idx[i] # 0
    BY <1>1, <2>3
  <2>4. QED
    BY <2>2, <2>3
<1> HIDE DEF lg
<1>3. {AppendReq(i, p, t, lg, slot, quick_commit_idx[i]) : p \in Peers(i)}
        \subseteq Message
  <2> SUFFICES ASSUME NEW p \in Server
               PROVE  AppendReq(i, p, t, lg, slot, quick_commit_idx[i]) \in Message
    BY DEF Peers
  <2> HIDE DEF slot
  <2>1. QED
    BY <1>1, <1>2, AppendReqType
<1>4. net' \subseteq Message
  BY <1>3 DEF BecomeLeader, lg
<1>5. /\ log' \in [Server -> Seq(Entry)]
      /\ conf_idx' \in [Server -> Nat]
  BY <1>1, <1>2 DEF BecomeLeader, LogTypes, lg
<1>6. quick_commit_idx' \in [Server -> Nat]
  <2>1. quick_commit_idx' = [quick_commit_idx EXCEPT ![i] =
          IF Peers(i) = {} THEN Larger(quick_commit_idx[i], Len(lg))
                           ELSE quick_commit_idx[i]]
    BY DEF BecomeLeader, lg, LogTypes
  <2>2. QED
    BY <1>1, <1>2, <2>1 DEF LogTypes, Larger
<1>7. /\ next_log_idx' \in Index
      /\ busy' \in Flags
  BY <1>1 DEF BecomeLeader, PeerTypes, Index, Flags
<1>8. QED
  BY <1>4, <1>5, <1>6, <1>7 DEF BecomeLeader, ServerTypes

-----------------------------------------------------------------------------
(* One lemma per action *)

LEMMA ElectionTimeoutType ==
  ASSUME TypeOK, NEW i \in Server, ElectionTimeout(i)
  PROVE  TypeOK'
<1> DEFINE t == term[i] + 1
<1> USE DEF TypeOK
<1>1. t \in Term
  BY Bounds DEF ElectionTimeout, ServerTypes, Term
<1>2. /\ UNCHANGED <<status, saved_conf_idx, sm_commit_index, matched_idx,
                     pending_commit, applied, boundVars>>
      /\ term' \in [Server -> Term]
      /\ voted_for' \in [Server -> Server \cup {None}]
      /\ election_completed' \in [Server -> BOOLEAN]
      /\ votes_granted' \in [Server -> Nat]
      /\ voted_servers' \in [Server -> SUBSET Server]
      /\ votes' \subseteq Server \X Term \X Server
  BY <1>1 DEF ElectionTimeout, ServerTypes, HistoryTypes, Wins
<1>3. CASE BecomeLeader(i, t, net)
  <2>1. elections' \subseteq Term \X Server
    BY <1>1, <1>3, BecomeLeaderType DEF HistoryTypes
  <2>2. QED
    BY <1>1, <1>2, <1>3, <2>1, BecomeLeaderType
       DEF ServerTypes, LogTypes, PeerTypes, HistoryTypes, BoundTypes, boundVars
<1>4. CASE /\ role' = [role EXCEPT ![i] = "candidate"]
           /\ net' = net \cup {VoteReq(i, p, t) : p \in Peers(i)}
           /\ UNCHANGED <<leader_, elections, log, conf_idx, next_log_idx, busy,
                          quick_commit_idx>>
  <2>1. net' \subseteq Message
    BY <1>1, <1>4, VoteReqType DEF Peers
  <2>2. QED
    BY <1>2, <1>4, <2>1
       DEF ServerTypes, LogTypes, PeerTypes, HistoryTypes, BoundTypes, boundVars
<1>5. QED
  BY <1>3, <1>4 DEF ElectionTimeout

LEMMA HandleVoteReqType ==
  ASSUME TypeOK, NEW m \in net, HandleVoteReq(m)
  PROVE  TypeOK'
<1> USE DEF TypeOK
<1>1. /\ m \in Message /\ m.src \in Server /\ m.dst \in Server /\ m.term \in Term
      /\ m.type = "vote_request"
  BY MessageMembers DEF HandleVoteReq
<1>2. PICK grant \in BOOLEAN :
        /\ voted_for' = [voted_for EXCEPT ![m.dst] =
                           IF grant THEN m.src ELSE VotedFor(m.dst, m.term)]
        /\ votes' = IF grant THEN votes \cup {<<m.dst, m.term, m.src>>} ELSE votes
        /\ net' = Reply(m, [type |-> "vote_response",
                            term |-> Larger(term[m.dst], m.term),
                            src |-> m.dst, dst |-> m.src, accepted |-> grant])
  BY DEF HandleVoteReq
<1>3. [type |-> "vote_response", term |-> Larger(term[m.dst], m.term),
       src |-> m.dst, dst |-> m.src, accepted |-> grant] \in VoteResponse
  BY <1>1 DEF VoteResponse, Larger, ServerTypes
<1>4. net' \subseteq Message
  <2> DEFINE resp == [type |-> "vote_response", term |-> Larger(term[m.dst], m.term),
                      src |-> m.dst, dst |-> m.src, accepted |-> grant]
  <2>1. resp \in Message
    BY <1>3 DEF Message
  <2> HIDE DEF resp
  <2>2. Reply(m, resp) \subseteq Message
    BY <1>1, <2>1, ReplyType
  <2>3. QED
    BY <1>2, <2>2 DEF resp
<1>5. ServerTypes'
  <2>1. VotedFor(m.dst, m.term) \in Server \cup {None}
    BY <1>1, VotedForType
  <2>2. voted_for' \in [Server -> Server \cup {None}]
    BY <1>1, <1>2, <2>1 DEF ServerTypes
  <2>3. UpdateTerm(m.dst, m.term)
    BY DEF HandleVoteReq
  <2>4. QED
    BY <1>1, <2>2, <2>3, UpdateTermType DEF HandleVoteReq, ServerTypes
<1>6. HistoryTypes'
  BY <1>1, <1>2 DEF HandleVoteReq, HistoryTypes
<1>7. QED
  BY <1>4, <1>5, <1>6 DEF HandleVoteReq, LogTypes, PeerTypes, BoundTypes,
                          logVars, commitVars, peerVars, boundVars

LEMMA HandleVotingRespType ==
  ASSUME TypeOK, NEW m \in net, HandleVotingResp(m)
  PROVE  TypeOK'
<1> DEFINE i == m.dst
           granted == votes_granted[i] + (IF m.accepted THEN 1 ELSE 0)
           voted == voted_servers[i] \cup {m.src}
<1> USE DEF TypeOK
<1>1. m.src \in Server /\ m.dst \in Server /\ net \ {m} \in SUBSET Message
  BY MessageMembers
<1>2. granted \in Nat /\ voted \in SUBSET Server /\ term[i] \in Term
  BY <1>1 DEF ServerTypes
<1>3. UNCHANGED <<status, stateVars, saved_conf_idx, sm_commit_index, matched_idx,
                  pending_commit, votes, applied, boundVars>>
  BY DEF HandleVotingResp
<1>4. /\ election_completed' \in [Server -> BOOLEAN]
      /\ votes_granted' \in [Server -> Nat]
      /\ voted_servers' \in [Server -> SUBSET Server]
  <2>1. CASE UNCHANGED electionVars
    BY <2>1 DEF electionVars, ServerTypes
  <2>2. CASE /\ votes_granted' = [votes_granted EXCEPT ![i] = granted]
             /\ voted_servers' = [voted_servers EXCEPT ![i] = voted]
             /\ election_completed' = [election_completed EXCEPT ![i] =
                  Wins(granted) \/ Cardinality(voted) >= Cardinality(Server)]
    BY <1>1, <1>2, <2>2 DEF ServerTypes
  <2>3. QED
    BY <2>1, <2>2 DEF HandleVotingResp
<1>5. CASE BecomeLeader(i, term[i], net \ {m})
  <2>1. elections' \subseteq Term \X Server
    BY <1>1, <1>2, <1>5, BecomeLeaderType DEF HistoryTypes
  <2>2. QED
    BY <1>1, <1>2, <1>3, <1>4, <1>5, <2>1, BecomeLeaderType
       DEF ServerTypes, LogTypes, PeerTypes, HistoryTypes, BoundTypes, boundVars,
           stateVars
<1>6. CASE /\ net' = net \ {m}
           /\ UNCHANGED <<role, leader_, elections, log, conf_idx, next_log_idx,
                          busy, quick_commit_idx>>
  BY <1>3, <1>4, <1>6
     DEF ServerTypes, LogTypes, PeerTypes, HistoryTypes, BoundTypes, boundVars,
         stateVars
<1>7. QED
  BY <1>5, <1>6 DEF HandleVotingResp

LEMMA HandleAppendEntriesType ==
  ASSUME TypeOK, NEW m \in net, HandleAppendEntries(m)
  PROVE  TypeOK'
<1> DEFINE i == m.dst
           accept == AcceptEntries(i, m)
           resp == [type |-> "append_entries_response",
                    term |-> Larger(term[i], m.term),
                    src |-> i, dst |-> m.src, accepted |-> accept,
                    next_idx |-> IF accept THEN m.last_idx + Len(m.entries) + 1
                                 ELSE Len(log[i]) + 1]
<1> USE DEF TypeOK
<1>1. /\ m \in Message /\ m.src \in Server /\ i \in Server /\ m.term \in Term
      /\ m.last_idx \in Nat /\ m.commit \in Nat /\ m.entries \in Seq(Entry)
  BY MessageMembers DEF HandleAppendEntries
<1>2. /\ log[i] \in Seq(Entry) /\ Len(log[i]) \in Nat /\ Len(m.entries) \in Nat
      /\ term[i] \in Term
  BY <1>1, LenProperties DEF LogTypes, ServerTypes
<1>3. accept \in BOOLEAN
  BY DEF AcceptEntries, LogOkay
<1>4. net' \subseteq Message
  <2>1. resp \in AppendResponse
    <3> HIDE DEF accept
    <3>1. QED
      BY <1>1, <1>2, <1>3 DEF AppendResponse, Larger
  <2>2. resp \in Message
    BY <2>1 DEF Message
  <2>3. net' = Reply(m, resp)
    BY DEF HandleAppendEntries
  <2> HIDE DEF resp
  <2>4. QED
    BY <1>1, <2>2, <2>3, ReplyType
<1>5. ServerTypes'
  <2>1. VotedFor(i, m.term) \in Server \cup {None}
    BY <1>1, VotedForType
  <2>2. UpdateTerm(i, m.term)
    BY DEF HandleAppendEntries
  <2>3. leader_' \in [Server -> Server \cup {None}]
    BY <1>1 DEF HandleAppendEntries, ServerTypes
  <2>4. QED
    BY <1>1, <2>1, <2>2, <2>3, UpdateTermType DEF HandleAppendEntries, ServerTypes
<1>6. LogTypes'
  <2>1. accept => m.last_idx \in 0 .. Len(log[i])
    BY <1>1, <1>2 DEF AcceptEntries, LogOkay
  <2>2. accept => MergeLog(log[i], m.last_idx, m.entries) \in Seq(Entry)
    BY <1>1, <1>2, <2>1, MergeLogType
  <2>3. log' = [log EXCEPT ![i] =
          IF accept THEN MergeLog(log[i], m.last_idx, m.entries) ELSE log[i]]
    BY DEF HandleAppendEntries, LogTypes
  <2>4. log' \in [Server -> Seq(Entry)]
    BY <1>2, <2>2, <2>3 DEF LogTypes
  <2>5. quick_commit_idx' \in [Server -> Nat]
    BY <1>1 DEF HandleAppendEntries, LogTypes, Larger
  <2>6. QED
    BY <2>4, <2>5 DEF HandleAppendEntries, LogTypes
<1>7. QED
  BY <1>4, <1>5, <1>6 DEF HandleAppendEntries, PeerTypes, HistoryTypes, BoundTypes,
                          peerVars, histVars, boundVars

LEMMA RivalLeaderExitType ==
  ASSUME TypeOK, NEW m \in net, RivalLeaderExit(m)
  PROVE  TypeOK'
<1> USE DEF TypeOK
<1>1. m \in Message /\ m.src \in Server /\ m.dst \in Server /\ m.open \in BOOLEAN
  BY MessageMembers DEF RivalLeaderExit, IsRequest
<1>2. busy' \in Flags
  BY <1>1 DEF RivalLeaderExit, PeerTypes, Flags
<1>3. QED
  BY <1>1, <1>2 DEF RivalLeaderExit, ServerTypes, LogTypes, PeerTypes, HistoryTypes,
     BoundTypes, stateVars, electionVars, logVars, commitVars, histVars, boundVars

\* The next index a response leaves for its peer is never negative: a decrement
\* of 0 wraps.
LEMMA HandleAppendEntriesRespType ==
  ASSUME TypeOK, NEW m \in net, HandleAppendEntriesResp(m)
  PROVE  TypeOK'
<1> DEFINE i == m.dst
           p == m.src
           bz == [busy[i] EXCEPT ![p] = FALSE]
           nx == [next_log_idx[i] EXCEPT ![p] =
                    IF m.accepted \/ (m.next_idx > 0 /\ @ > m.next_idx)
                    THEN m.next_idx ELSE Decrement(@)]
           mt == IF m.accepted
                 THEN [matched_idx[i] EXCEPT ![p] = m.next_idx - 1]
                 ELSE matched_idx[i]
           target == IF m.accepted THEN MajorityMatched(i, mt) ELSE 0
           qc == Larger(quick_commit_idx[i], target)
           spread == role[i] = "leader" /\ target > quick_commit_idx[i]
           catchUp == role[i] = "leader" /\ NeedToCatchUp(i, m)
           P == IF spread THEN Peers(i) ELSE IF catchUp THEN {p} ELSE {}
<1> USE DEF TypeOK
<1>1. /\ m \in Message /\ i \in Server /\ p \in Server
      /\ m.accepted \in BOOLEAN /\ m.next_idx \in Nat \ {0}
  BY MessageMembers DEF HandleAppendEntriesResp
<1>2. /\ busy[i] \in [Server -> BOOLEAN] /\ next_log_idx[i] \in [Server -> Nat]
      /\ matched_idx[i] \in [Server -> Nat] /\ quick_commit_idx[i] \in Nat
      /\ pending_commit[i] \in [Server -> BOOLEAN] /\ log[i] \in Seq(Entry)
  BY <1>1 DEF PeerTypes, LogTypes, Index, Flags
<1>3. bz \in [Server -> BOOLEAN]
  BY <1>1, <1>2
<1>4. nx \in [Server -> Nat]
  BY <1>1, <1>2, Bounds DEF Decrement
<1>5. mt \in [Server -> Nat]
  BY <1>1, <1>2
<1>6. target \in Nat
  <2> HIDE DEF mt
  <2>1. QED
    BY <1>1, <1>5, MajorityMatchedType
<1> HIDE DEF bz, nx, mt, target
<1>7. qc \in Nat /\ P \in SUBSET Server /\ net \ {m} \in SUBSET Message
  BY <1>1, <1>2, <1>6 DEF Larger, Peers
<1>8. /\ RequestAppendEntries(i, P, net \ {m}, log[i], nx, bz, qc)
      /\ matched_idx' = [matched_idx EXCEPT ![i] = mt]
      /\ quick_commit_idx' = [quick_commit_idx EXCEPT ![i] = qc]
      /\ pending_commit' = [pending_commit EXCEPT ![i] = [q \in Server |->
           /\ ~(m.accepted /\ q = p)
           /\ pending_commit[i][q] \/ (spread /\ bz[q])]]
      /\ UNCHANGED <<stateVars, role, leader_, electionVars, logVars,
                     sm_commit_index, histVars, boundVars>>
  BY DEF HandleAppendEntriesResp, bz, nx, mt, target
<1>9. /\ status' \in [Server -> Statuses]
      /\ net' \subseteq Message
      /\ next_log_idx' \in Index
      /\ busy' \in Flags
  <2> HIDE DEF qc, P
  <2>1. QED
    BY <1>1, <1>2, <1>3, <1>4, <1>7, <1>8, RequestAppendEntriesType
<1>10. /\ matched_idx' \in Index /\ quick_commit_idx' \in [Server -> Nat]
  BY <1>5, <1>7, <1>8 DEF PeerTypes, LogTypes, Index
<1>11. pending_commit' \in Flags
  <2> DEFINE pc == [q \in Server |->
               /\ ~(m.accepted /\ q = p)
               /\ pending_commit[i][q] \/ (spread /\ bz[q])]
  <2>1. pc \in [Server -> BOOLEAN]
    OBVIOUS
  <2>2. pending_commit' = [pending_commit EXCEPT ![i] = pc]
    BY <1>8
  <2> HIDE DEF pc
  <2>3. QED
    BY <2>1, <2>2 DEF PeerTypes, Flags
<1>12. QED
  BY <1>8, <1>9, <1>10, <1>11
     DEF ServerTypes, LogTypes, PeerTypes, HistoryTypes, BoundTypes, Statuses,
         stateVars, electionVars, logVars, histVars, boundVars

LEMMA HandleNewerTermRespType ==
  ASSUME TypeOK, NEW m \in net, HandleNewerTermResp(m)
  PROVE  TypeOK'
<1> USE DEF TypeOK
<1>1. m \in Message /\ m.src \in Server /\ m.dst \in Server /\ m.term \in Term
  BY MessageMembers DEF HandleNewerTermResp
<1>2. busy' \in Flags
  BY <1>1 DEF HandleNewerTermResp, PeerTypes, Flags, IsAppend
<1>3. ServerTypes'
  <2>1. UpdateTerm(m.dst, m.term)
    BY DEF HandleNewerTermResp
  <2>2. QED
    BY <1>1, <2>1, UpdateTermType DEF HandleNewerTermResp, ServerTypes
<1>4. QED
  BY <1>2, <1>3 DEF HandleNewerTermResp, LogTypes, PeerTypes, HistoryTypes,
                    BoundTypes, logVars, commitVars, histVars, boundVars

LEMMA HbTimeoutType ==
  ASSUME TypeOK, NEW i \in Server, NEW p \in Server, HbTimeout(i, p)
  PROVE  TypeOK'
<1> USE DEF TypeOK
<1>1. /\ log[i] \in Seq(Entry) /\ next_log_idx[i] \in [Server -> Nat]
      /\ busy[i] \in [Server -> BOOLEAN] /\ quick_commit_idx[i] \in Nat
      /\ {p} \in SUBSET Server /\ net \in SUBSET Message
  BY DEF LogTypes, PeerTypes, Index, Flags
<1>2. RequestAppendEntries(i, {p}, net, log[i], next_log_idx[i], busy[i],
                           quick_commit_idx[i])
  BY DEF HbTimeout
<1>3. /\ status' \in [Server -> Statuses]
      /\ net' \subseteq Message
      /\ next_log_idx' \in Index
      /\ busy' \in Flags
  BY <1>1, <1>2, RequestAppendEntriesType
<1>4. QED
  BY <1>3 DEF HbTimeout, ServerTypes, LogTypes, PeerTypes, HistoryTypes, BoundTypes,
     Statuses, stateVars, electionVars, logVars, commitVars, histVars, boundVars

LEMMA HandleCliReqType ==
  ASSUME TypeOK, NEW i \in Server, NEW rest \in SUBSET Message,
         HandleCliReq(i, rest)
  PROVE  /\ status' \in [Server -> Statuses]
         /\ net' \subseteq Message
         /\ log' \in [Server -> Seq(Entry)]
         /\ quick_commit_idx' \in [Server -> Nat]
         /\ next_log_idx' \in Index
         /\ busy' \in Flags
<1> DEFINE lg == Append(log[i], [term |-> term[i], kind |-> "app"])
<1> USE DEF TypeOK
<1>1. /\ log[i] \in Seq(Entry) /\ next_log_idx[i] \in [Server -> Nat]
      /\ busy[i] \in [Server -> BOOLEAN] /\ quick_commit_idx[i] \in Nat
      /\ term[i] \in Term
  BY DEF ServerTypes, LogTypes, PeerTypes, Index, Flags
<1>2. lg \in Seq(Entry) /\ Len(lg) \in Nat
  <2>1. [term |-> term[i], kind |-> "app"] \in Entry
    BY <1>1 DEF Entry
  <2>2. QED
    BY <1>1, <2>1, AppendProperties, LenProperties
<1> HIDE DEF lg
<1>3. CASE /\ log' = [log EXCEPT ![i] = lg]
           /\ quick_commit_idx' = [quick_commit_idx EXCEPT ![i] =
                IF Peers(i) = {} THEN Larger(@, Len(lg)) ELSE @]
           /\ RequestAppendEntries(i, Peers(i), rest, lg, next_log_idx[i],
                                   busy[i], quick_commit_idx[i])
  <2>1. Peers(i) \in SUBSET Server
    BY DEF Peers
  <2>2. /\ status' \in [Server -> Statuses]
        /\ net' \subseteq Message
        /\ next_log_idx' \in Index
        /\ busy' \in Flags
    BY <1>1, <1>2, <1>3, <2>1, RequestAppendEntriesType
  <2>3. quick_commit_idx' \in [Server -> Nat]
    BY <1>1, <1>2, <1>3 DEF LogTypes, Larger
  <2>4. QED
    BY <1>2, <1>3, <2>2, <2>3 DEF LogTypes
<1>4. CASE /\ net' = rest
           /\ UNCHANGED <<status, log, quick_commit_idx, next_log_idx, busy>>
  BY <1>4 DEF ServerTypes, LogTypes, PeerTypes, Statuses
<1>5. CASE /\ Forwards(i)
           /\ net' = rest \cup {ClientReq(i, leader_[i])}
           /\ UNCHANGED <<status, log, quick_commit_idx, next_log_idx, busy>>
  <2>1. leader_[i] \in Server
    BY <1>5 DEF Forwards, ServerTypes
  <2>2. ClientReq(i, leader_[i]) \in Message
    BY <2>1 DEF ClientReq, ClientMessage, Message
  <2>3. QED
    BY <1>5, <2>2 DEF ServerTypes, LogTypes, PeerTypes, Statuses
<1>6. QED
  BY <1>3, <1>4, <1>5 DEF HandleCliReq, lg

LEMMA ClientRequestType ==
  ASSUME TypeOK, NEW i \in Server, ClientRequest(i)
  PROVE  TypeOK'
<1>1. HandleCliReq(i, net) /\ net \in SUBSET Message
  BY DEF ClientRequest, TypeOK
<1>2. /\ status' \in [Server -> Statuses]
      /\ net' \subseteq Message
      /\ log' \in [Server -> Seq(Entry)]
      /\ quick_commit_idx' \in [Server -> Nat]
      /\ next_log_idx' \in Index
      /\ busy' \in Flags
  BY <1>1, HandleCliReqType
<1>3. ServerTypes' /\ LogTypes' /\ PeerTypes'
  BY <1>2 DEF ClientRequest, TypeOK, ServerTypes, LogTypes, PeerTypes, Statuses,
              stateVars, electionVars
<1>4. HistoryTypes' /\ BoundTypes'
  BY DEF ClientRequest, TypeOK, HistoryTypes, BoundTypes, histVars
<1>5. QED
  BY <1>2, <1>3, <1>4 DEF TypeOK

LEMMA ForwardedRequestType ==
  ASSUME TypeOK, NEW m \in net, ForwardedRequest(m)
  PROVE  TypeOK'
<1>1. /\ HandleCliReq(m.dst, net \ {m}) /\ net \ {m} \in SUBSET Message
      /\ m.dst \in Server
  BY MessageMembers DEF ForwardedRequest, TypeOK
<1>2. QED
  BY <1>1, HandleCliReqType
     DEF ForwardedRequest, TypeOK, ServerTypes, LogTypes, PeerTypes, HistoryTypes,
         BoundTypes, Statuses, stateVars, electionVars, histVars, boundVars

LEMMA CommitInBgType ==
  ASSUME TypeOK, NEW i \in Server, CommitInBg(i)
  PROVE  TypeOK'
<1> DEFINE k == sm_commit_index[i] + 1
<1> USE DEF TypeOK
<1>1. k \in Nat \ {0} /\ log[i] \in Seq(Entry)
  BY DEF LogTypes
<1>2. log[i][k] \in Entry
  BY <1>1, ElementOfSeq, LenProperties DEF CommitInBg
<1>3. HistoryTypes'
  BY <1>1, <1>2 DEF CommitInBg, HistoryTypes
<1>4. LogTypes'
  BY <1>1 DEF CommitInBg, LogTypes, Larger
<1>5. QED
  BY <1>3, <1>4 DEF CommitInBg, ServerTypes, PeerTypes, BoundTypes, stateVars,
     electionVars, peerVars, boundVars

LEMMA RpcErrorType ==
  ASSUME TypeOK, NEW m \in net, RpcError(m)
  PROVE  TypeOK'
<1> USE DEF TypeOK
<1>1. m \in Message /\ Caller(m) \in Server /\ Callee(m) \in Server
  BY MessageMembers
<1>2. net' \subseteq Message
  BY <1>1, ClosedRequest DEF RpcError
<1>3. busy' \in Flags
  BY <1>1 DEF RpcError, PeerTypes, Flags, FreedByError, IsAppend
<1>4. QED
  BY <1>2, <1>3 DEF RpcError, ServerTypes, LogTypes, PeerTypes, HistoryTypes,
     BoundTypes, stateVars, electionVars, logVars, commitVars, histVars, boundVars

LEMMA RestartType ==
  ASSUME TypeOK, NEW i \in Server, Restart(i)
  PROVE  TypeOK'
<1> USE DEF TypeOK
<1>1. net' \subseteq Message
  BY ClosedRequest DEF Restart
<1>2. ServerTypes'
  BY Bounds DEF Restart, ServerTypes, Term
<1>3. LogTypes'
  BY DEF Restart, LogTypes
<1>4. PeerTypes'
  BY DEF Restart, PeerTypes, Index, Flags
<1>5. QED
  BY <1>1, <1>2, <1>3, <1>4 DEF Restart, HistoryTypes, BoundTypes, histVars

-----------------------------------------------------------------------------

LEMMA InitType == Init => TypeOK
BY Bounds DEF Init, TypeOK, ServerTypes, LogTypes, PeerTypes, HistoryTypes,
   BoundTypes, Index, Flags, Term

LEMMA StutterType == TypeOK /\ UNCHANGED vars => TypeOK'
BY DEF TypeOK, ServerTypes, LogTypes, PeerTypes, HistoryTypes, BoundTypes, vars,
   stateVars, electionVars, logVars, commitVars, peerVars, histVars, boundVars

LEMMA NextType == TypeOK /\ [Next]_vars => TypeOK'
<1> SUFFICES ASSUME TypeOK, [Next]_vars PROVE TypeOK'
  OBVIOUS
<1>1. CASE UNCHANGED vars
  BY <1>1, StutterType
<1>2. ASSUME NEW i \in Server, ElectionTimeout(i) PROVE TypeOK'
  BY <1>2, ElectionTimeoutType
<1>3. ASSUME NEW i \in Server, ClientRequest(i) PROVE TypeOK'
  BY <1>3, ClientRequestType
<1>4. ASSUME NEW i \in Server, CommitInBg(i) PROVE TypeOK'
  BY <1>4, CommitInBgType
<1>5. ASSUME NEW i \in Server, Restart(i) PROVE TypeOK'
  BY <1>5, RestartType
<1>6. ASSUME NEW i \in Server, NEW p \in Server, HbTimeout(i, p) PROVE TypeOK'
  BY <1>6, HbTimeoutType
<1>7. ASSUME NEW m \in net, RpcError(m) PROVE TypeOK'
  BY <1>7, RpcErrorType
<1>8. ASSUME NEW m \in net, Deliver(m) PROVE TypeOK'
  BY <1>8, HandleVoteReqType, HandleVotingRespType, HandleAppendEntriesType,
     RivalLeaderExitType, HandleAppendEntriesRespType, HandleNewerTermRespType,
     ForwardedRequestType DEF Deliver
<1>9. QED
  BY <1>1, <1>2, <1>3, <1>4, <1>5, <1>6, <1>7, <1>8 DEF Next

\* Every variable of every server keeps its type, for any cluster and any number
\* of restarts, errors and requests: no index of raft_server or peer goes below
\* 0, although next_log_idx may wrap to ULongMax.
THEOREM TypeCorrect == Spec => []TypeOK
BY InitType, NextType, PTL DEF Spec

-----------------------------------------------------------------------------
(* A leader's log only grows: what a step may do to the log of one server *)

Grown(i) ==
  \/ log'[i] = log[i]
  \/ \E e \in Entry : log'[i] = Append(log[i], e)

LEMMA GrownExtends ==
  ASSUME NEW lg \in Seq(Entry), NEW new,
         new = lg \/ \E e \in Entry : new = Append(lg, e)
  PROVE  Len(lg) <= Len(new) /\ SubSeq(new, 1, Len(lg)) = lg
<1>1. Len(lg) \in Nat /\ \A k \in 1 .. Len(lg) : lg[k] \in Entry
  BY LenProperties, ElementOfSeq
<1>2. ASSUME NEW e \in Entry, new = Append(lg, e)
      PROVE  Len(lg) <= Len(new) /\ SubSeq(new, 1, Len(lg)) = lg
  BY <1>1, <1>2
<1>3. CASE new = lg
  BY <1>1, <1>3
<1>4. QED
  BY <1>2, <1>3

LEMMA BecomeLeaderGrown ==
  ASSUME TypeOK, NEW i \in Server, NEW t \in Term, NEW rest,
         BecomeLeader(i, t, rest), NEW j \in Server
  PROVE  Grown(j)
BY DEF BecomeLeader, Grown, TypeOK, LogTypes, Entry

LEMMA HandleCliReqGrown ==
  ASSUME TypeOK, NEW i \in Server, NEW rest, HandleCliReq(i, rest), NEW j \in Server
  PROVE  Grown(j)
<1>1. [term |-> term[i], kind |-> "app"] \in Entry
  BY DEF TypeOK, ServerTypes, Entry
<1>2. QED
  BY <1>1 DEF HandleCliReq, Grown, TypeOK, LogTypes

\* A request that makes a leader change its log makes it a follower.
LEMMA HandleAppendEntriesGrown ==
  ASSUME TypeOK, NEW m \in net, HandleAppendEntries(m),
         NEW j \in Server, role'[j] = "leader"
  PROVE  Grown(j)
<1>1. m.dst \in Server /\ m.term \in Term /\ term[m.dst] \in Term
  BY MessageMembers DEF TypeOK, ServerTypes, HandleAppendEntries, Message, VoteRequest,
     AppendRequest, ClientMessage, VoteResponse, AppendResponse
<1>2. CASE j = m.dst
  <2>1. ~(m.term >= term[j])
    BY <1>1, <1>2 DEF HandleAppendEntries, TypeOK, ServerTypes
  <2>2. QED
    BY <1>1, <1>2, <2>1 DEF HandleAppendEntries, AcceptEntries, Grown, TypeOK, LogTypes
<1>3. CASE j # m.dst
  BY <1>1, <1>3 DEF HandleAppendEntries, Grown, TypeOK, LogTypes
<1>4. QED
  BY <1>2, <1>3

LEMMA LeaderGrown ==
  ASSUME TypeOK, [Next]_vars, NEW j \in Server, role'[j] = "leader"
  PROVE  Grown(j)
<1>1. CASE UNCHANGED vars
  BY <1>1 DEF vars, logVars, Grown
<1>2. ASSUME NEW i \in Server, ElectionTimeout(i) PROVE Grown(j)
  <2>1. term[i] + 1 \in Term
    BY <1>2, Bounds DEF ElectionTimeout, TypeOK, ServerTypes, Term
  <2>2. QED
    BY <1>2, <2>1, BecomeLeaderGrown DEF ElectionTimeout, Grown
<1>3. ASSUME NEW i \in Server, ClientRequest(i) PROVE Grown(j)
  BY <1>3, HandleCliReqGrown DEF ClientRequest
<1>4. ASSUME NEW i \in Server, CommitInBg(i) PROVE Grown(j)
  BY <1>4 DEF CommitInBg, Grown
<1>5. ASSUME NEW i \in Server, Restart(i) PROVE Grown(j)
  BY <1>5 DEF Restart, Grown
<1>6. ASSUME NEW i \in Server, NEW p \in Server, HbTimeout(i, p) PROVE Grown(j)
  BY <1>6 DEF HbTimeout, logVars, Grown
<1>7. ASSUME NEW m \in net, RpcError(m) PROVE Grown(j)
  BY <1>7 DEF RpcError, logVars, Grown
<1>8. ASSUME NEW m \in net, Deliver(m) PROVE Grown(j)
  <2>1. m \in Message /\ m.dst \in Server
    BY MessageMembers DEF TypeOK
  <2>2. CASE HandleVoteReq(m)
    BY <2>2 DEF HandleVoteReq, logVars, Grown
  <2>3. CASE HandleVotingResp(m)
    BY <2>1, <2>3, BecomeLeaderGrown DEF HandleVotingResp, Grown, TypeOK, ServerTypes
  <2>4. CASE HandleAppendEntries(m)
    BY <2>4, HandleAppendEntriesGrown
  <2>5. CASE RivalLeaderExit(m) \/ HandleAppendEntriesResp(m) \/ HandleNewerTermResp(m)
    BY <2>5 DEF RivalLeaderExit, HandleAppendEntriesResp, HandleNewerTermResp, logVars, Grown
  <2>6. CASE ForwardedRequest(m)
    BY <2>1, <2>6, HandleCliReqGrown DEF ForwardedRequest
  <2>7. QED
    BY <1>8, <2>2, <2>3, <2>4, <2>5, <2>6 DEF Deliver
<1>9. QED
  BY <1>1, <1>2, <1>3, <1>4, <1>5, <1>6, <1>7, <1>8 DEF Next

\* While a server leads it removes and replaces no entry of its log, whatever
\* leaders of the past and of the future send it: handle_append_entries makes it
\* a follower first.
THEOREM LeaderKeepsLog == Spec => LeaderAppendOnly
<1> DEFINE A == \A i \in Server : role[i] = "leader" /\ role'[i] = "leader" =>
                  /\ Len(log[i]) <= Len(log'[i])
                  /\ SubSeq(log'[i], 1, Len(log[i])) = log[i]
<1>1. TypeOK /\ [Next]_vars => [A]_vars
  <2> SUFFICES ASSUME TypeOK, [Next]_vars, NEW i \in Server, role'[i] = "leader"
               PROVE  /\ Len(log[i]) <= Len(log'[i])
                      /\ SubSeq(log'[i], 1, Len(log[i])) = log[i]
    OBVIOUS
  <2>1. log[i] \in Seq(Entry)
    BY DEF TypeOK, LogTypes
  <2>2. QED
    BY <2>1, LeaderGrown, GrownExtends DEF Grown
<1>2. QED
  BY <1>1, TypeCorrect, PTL DEF Spec, LeaderAppendOnly

-----------------------------------------------------------------------------
(* A busy peer has a call for entries in flight: BusyHasCall is inductive    *)

\* An open call for entries from i to p is among the messages N.
CallIn(N, i, p) ==
  \E m \in N : /\ IsAppend(m) /\ (IsRequest(m) => m.open)
               /\ Caller(m) = i /\ Callee(m) = p

LEMMA CallKept ==
  ASSUME NEW N, NEW M, NEW i, NEW p, CallIn(N, i, p),
         \A m \in N \ M : ~(/\ IsAppend(m) /\ (IsRequest(m) => m.open)
                            /\ Caller(m) = i /\ Callee(m) = p)
  PROVE  CallIn(M, i, p)
BY DEF CallIn

LEMMA CallMore ==
  ASSUME NEW N, NEW M, NEW i, NEW p, CallIn(N, i, p), N \subseteq M
  PROVE  CallIn(M, i, p)
BY DEF CallIn

LEMMA AppendReqIsCall ==
  ASSUME NEW i, NEW p, NEW t, NEW lg, NEW n, NEW commit, NEW N,
         AppendReq(i, p, t, lg, n, commit) \in N
  PROVE  CallIn(N, i, p)
<1> DEFINE r == AppendReq(i, p, t, lg, n, commit)
<1>1. r.type = "append_entries_request" /\ r.src = i /\ r.dst = p /\ r.open = TRUE
  BY DEF AppendReq
<1> HIDE DEF r
<1>2. IsAppend(r) /\ (IsRequest(r) => r.open) /\ Caller(r) = i /\ Callee(r) = p
  BY <1>1 DEF IsAppend, IsRequest, Caller, Callee
<1>3. r \in N
  BY DEF r
<1>4. QED
  BY <1>2, <1>3 DEF CallIn

\* Who becomes busy gets a request; who was has a call among the rest.
LEMMA RequestAppendEntriesCalls ==
  ASSUME TypeOK, NEW i \in Server, NEW P \in SUBSET Server, NEW rest,
         NEW lg, NEW nx, NEW bz \in [Server -> BOOLEAN], NEW qc,
         RequestAppendEntries(i, P, rest, lg, nx, bz, qc),
         \A p \in Server : bz[p] => CallIn(rest, i, p),
         \A j, p \in Server : j # i /\ busy[j][p] => CallIn(rest, j, p)
  PROVE  BusyHasCall'
<1> DEFINE free == {p \in P : ~bz[p]}
           start == [p \in Server |->
                      IF p \in free /\ nx[p] = 0 THEN Len(lg) + 1 ELSE nx[p]]
           over == {p \in free : start[p] > Len(lg) + 1}
           msgs(Q) == {AppendReq(i, p, term[i], lg, start[p], qc) : p \in Q}
<1>1. rest \subseteq net'
  BY DEF RequestAppendEntries
<1>2. /\ busy' = [busy EXCEPT ![i] = busy'[i]]
      /\ \A p \in Server : busy'[i][p] => bz[p] \/ (p \in free /\ net' = rest \cup msgs(free))
  <2>0. busy \in [Server -> [Server -> BOOLEAN]]
    BY DEF TypeOK, PeerTypes, Flags
  <2>1. \/ /\ net' = rest \cup msgs(free)
           /\ busy' = [busy EXCEPT ![i] = [p \in Server |-> bz[p] \/ p \in free]]
        \/ busy' = [busy EXCEPT ![i] = bz]
    BY DEF RequestAppendEntries
  <2> HIDE DEF start, msgs
  <2>2. CASE /\ net' = rest \cup msgs(free)
             /\ busy' = [busy EXCEPT ![i] = [p \in Server |-> bz[p] \/ p \in free]]
    <3>1. busy'[i] = [p \in Server |-> bz[p] \/ p \in free]
      BY <2>0, <2>2
    <3>2. QED
      BY <2>2, <3>1
  <2>3. CASE busy' = [busy EXCEPT ![i] = bz]
    <3>1. busy'[i] = bz
      BY <2>0, <2>3
    <3>2. QED
      BY <2>3, <3>1
  <2>4. QED
    BY <2>1, <2>2, <2>3
<1> HIDE DEF start
<1>3. ASSUME NEW p \in free, net' = rest \cup msgs(free)
      PROVE  CallIn(net', i, p)
  <2>1. AppendReq(i, p, term[i], lg, start[p], qc) \in net'
    BY <1>3
  <2>2. QED
    BY <2>1, AppendReqIsCall
<1>4. ASSUME NEW j \in Server, NEW p \in Server, busy'[j][p]
      PROVE  CallIn(net', j, p)
  <2>1. CASE j = i
    BY <1>1, <1>2, <1>3, <1>4, <2>1, CallMore
  <2>2. CASE j # i
    <3>1. busy[j][p]
      BY <1>2, <1>4, <2>2 DEF TypeOK, PeerTypes, Flags
    <3>2. QED
      BY <1>1, <2>2, <3>1, CallMore
  <2>3. QED
    BY <2>1, <2>2
<1>5. QED
  BY <1>4 DEF BusyHasCall, CallIn

\* Every peer of a new leader gets a request.
LEMMA BecomeLeaderCalls ==
  ASSUME TypeOK, NEW i \in Server, NEW t, NEW rest, BecomeLeader(i, t, rest),
         \A j, p \in Server : busy[j][p] => CallIn(rest, j, p)
  PROVE  BusyHasCall'
<1> DEFINE lg == log'[i]
<1>1. rest \subseteq net'
  BY DEF BecomeLeader
<1>2. \A p \in Peers(i) : \E n, g, q : AppendReq(i, p, t, g, n, q) \in net'
  BY DEF BecomeLeader
<1>3. busy' = [busy EXCEPT ![i] = [p \in Server |-> p # i]]
  BY DEF BecomeLeader
<1>4. ASSUME NEW j \in Server, NEW p \in Server, busy'[j][p]
      PROVE  CallIn(net', j, p)
  <2>1. CASE j = i
    <3>1. p \in Peers(i)
      BY <1>3, <1>4, <2>1 DEF Peers, TypeOK, PeerTypes, Flags
    <3>2. QED
      BY <1>2, <2>1, <3>1, AppendReqIsCall
  <2>2. CASE j # i
    <3>1. busy[j][p]
      BY <1>3, <1>4, <2>2 DEF TypeOK, PeerTypes, Flags
    <3>2. QED
      BY <1>1, <3>1, CallMore
  <2>3. QED
    BY <2>1, <2>2
<1>5. QED
  BY <1>4 DEF BusyHasCall, CallIn

LEMMA BusyCalls ==
  ASSUME BusyHasCall, NEW j \in Server, NEW p \in Server, busy[j][p]
  PROVE  CallIn(net, j, p)
BY DEF BusyHasCall, CallIn

\* A message that is no open call for entries is nobody's reason to be busy.
LEMMA OthersStay ==
  ASSUME BusyHasCall, NEW m,
         ~IsAppend(m) \/ (IsRequest(m) /\ ~m.open),
         NEW j \in Server, NEW p \in Server, busy[j][p]
  PROVE  CallIn(net \ {m}, j, p)
BY BusyCalls, CallKept

\* An answer ends the call of its own peer alone.
LEMMA OtherCallsStay ==
  ASSUME BusyHasCall, NEW m, NEW j \in Server, NEW p \in Server, busy[j][p],
         j # Caller(m) \/ p # Callee(m)
  PROVE  CallIn(net \ {m}, j, p)
BY BusyCalls, CallKept

\* A step that sends, makes nobody busy and takes no call
LEMMA BusyKept ==
  ASSUME BusyHasCall, busy' = busy,
         \A j, p \in Server : busy[j][p] => CallIn(net', j, p)
  PROVE  BusyHasCall'
BY DEF BusyHasCall, CallIn

LEMMA ElectionTimeoutCalls ==
  ASSUME TypeOK, BusyHasCall, NEW i \in Server, ElectionTimeout(i)
  PROVE  BusyHasCall'
<1>1. CASE BecomeLeader(i, term[i] + 1, net)
  BY <1>1, BusyCalls, BecomeLeaderCalls
<1>2. CASE net \subseteq net' /\ busy' = busy
  BY <1>2, BusyCalls, CallMore, BusyKept
<1>3. QED
  BY <1>1, <1>2 DEF ElectionTimeout

\* An answer takes the place of an open request.
LEMMA ReplyCalls ==
  ASSUME BusyHasCall, NEW m \in net, IsRequest(m), NEW resp,
         ~IsRequest(resp), IsAppend(m) => IsAppend(resp),
         resp.src = m.dst, resp.dst = m.src, net' = Reply(m, resp), busy' = busy
  PROVE  BusyHasCall'
<1> SUFFICES ASSUME NEW j \in Server, NEW p \in Server, busy[j][p]
             PROVE  CallIn(net', j, p)
  BY BusyKept
<1>1. net \ {m} \subseteq net'
  BY DEF Reply
<1>2. CASE ~IsAppend(m) \/ ~m.open \/ j # Caller(m) \/ p # Callee(m)
  BY <1>1, <1>2, OthersStay, OtherCallsStay, CallMore
<1>3. CASE IsAppend(m) /\ m.open /\ j = Caller(m) /\ p = Callee(m)
  <2>1. resp \in net' /\ IsAppend(resp) /\ Caller(resp) = j /\ Callee(resp) = p
    BY <1>3 DEF Reply, Caller, Callee
  <2>2. QED
    BY <2>1 DEF CallIn
<1>4. QED
  BY <1>2, <1>3

LEMMA HandleVoteReqCalls ==
  ASSUME BusyHasCall, NEW m \in net, HandleVoteReq(m)
  PROVE  BusyHasCall'
BY ReplyCalls DEF HandleVoteReq, peerVars, IsRequest, IsAppend

LEMMA HandleAppendEntriesCalls ==
  ASSUME BusyHasCall, NEW m \in net, HandleAppendEntries(m)
  PROVE  BusyHasCall'
BY ReplyCalls DEF HandleAppendEntries, peerVars, IsRequest, IsAppend

LEMMA HandleVotingRespCalls ==
  ASSUME TypeOK, BusyHasCall, NEW m \in net, HandleVotingResp(m)
  PROVE  BusyHasCall'
<1>1. m.dst \in Server /\ ~IsAppend(m)
  BY MessageMembers DEF TypeOK, HandleVotingResp, IsAppend
<1>2. CASE BecomeLeader(m.dst, term[m.dst], net \ {m})
  BY <1>1, <1>2, OthersStay, BecomeLeaderCalls
<1>3. CASE net' = net \ {m} /\ busy' = busy
  BY <1>1, <1>3, OthersStay, BusyKept
<1>4. QED
  BY <1>2, <1>3 DEF HandleVotingResp

\* A call that ends leaves its caller's flag for the callee free.
LEMMA EndedCalls ==
  ASSUME TypeOK, BusyHasCall, NEW m \in net, NEW ended \in BOOLEAN,
         IsAppend(m) /\ (IsRequest(m) => m.open) => ended,
         busy' = [busy EXCEPT ![Caller(m)][Callee(m)] = @ /\ ~ended],
         net \ {m} \subseteq net'
  PROVE  BusyHasCall'
<1>1. Caller(m) \in Server /\ Callee(m) \in Server
  BY MessageMembers DEF TypeOK
<1>2. busy \in [Server -> [Server -> BOOLEAN]]
  BY DEF TypeOK, PeerTypes, Flags
<1>3. ASSUME NEW j \in Server, NEW p \in Server, busy'[j][p]
      PROVE  CallIn(net', j, p)
  <2>1. busy[j][p] /\ (j = Caller(m) /\ p = Callee(m) => ~ended)
    BY <1>1, <1>2, <1>3
  <2>2. QED
    BY <2>1, OthersStay, OtherCallsStay, CallMore
<1>4. QED
  BY <1>3 DEF BusyHasCall, CallIn

LEMMA RivalLeaderExitCalls ==
  ASSUME TypeOK, BusyHasCall, NEW m \in net, RivalLeaderExit(m)
  PROVE  BusyHasCall'
<1>1. IsRequest(m) /\ Caller(m) = m.src /\ Callee(m) = m.dst
  BY DEF RivalLeaderExit, IsRequest, Caller, Callee
<1>2. m.open \in BOOLEAN
  BY DEF TypeOK, RivalLeaderExit, Message, VoteRequest, AppendRequest, ClientMessage,
     VoteResponse, AppendResponse
<1>3. QED
  BY <1>1, <1>2, EndedCalls DEF RivalLeaderExit

LEMMA HandleNewerTermRespCalls ==
  ASSUME TypeOK, BusyHasCall, NEW m \in net, HandleNewerTermResp(m)
  PROVE  BusyHasCall'
<1>1. Caller(m) = m.dst /\ Callee(m) = m.src
  BY DEF HandleNewerTermResp, IsRequest, Caller, Callee
<1>2. IsAppend(m) \in BOOLEAN
  BY DEF IsAppend
<1>3. QED
  BY <1>1, <1>2, EndedCalls DEF HandleNewerTermResp

LEMMA RpcErrorCalls ==
  ASSUME TypeOK, BusyHasCall, NEW m \in net, RpcError(m)
  PROVE  BusyHasCall'
<1>1. FreedByError(m) = (IsAppend(m) /\ (IsRequest(m) => m.open))
  BY DEF FreedByError
<1>2. QED
  BY <1>1, EndedCalls DEF RpcError

\* handle_rpc_result frees the peer; handle_append_entries_resp may make it, and
\* others, busy again.
LEMMA HandleAppendEntriesRespCalls ==
  ASSUME TypeOK, BusyHasCall, NEW m \in net, HandleAppendEntriesResp(m)
  PROVE  BusyHasCall'
<1> DEFINE i == m.dst
           p == m.src
           bz == [busy[i] EXCEPT ![p] = FALSE]
<1>1. i \in Server /\ p \in Server /\ Caller(m) = i /\ Callee(m) = p
  BY MessageMembers DEF TypeOK, HandleAppendEntriesResp, IsRequest, Caller, Callee
<1>2. bz \in [Server -> BOOLEAN]
  BY <1>1 DEF TypeOK, PeerTypes, Flags
<1>3a. \E nx, qc : \E P \in SUBSET Server :
         RequestAppendEntries(i, P, net \ {m}, log[i], nx, bz, qc)
  BY <1>1 DEF HandleAppendEntriesResp, Peers
<1>3b. PICK nx, qc : \E P \in SUBSET Server :
         RequestAppendEntries(i, P, net \ {m}, log[i], nx, bz, qc)
  BY <1>3a
<1>3. PICK P \in SUBSET Server :
        RequestAppendEntries(i, P, net \ {m}, log[i], nx, bz, qc)
  BY <1>3b
<1>4. ASSUME NEW q \in Server, bz[q] PROVE CallIn(net \ {m}, i, q)
  <2>1. q # p /\ busy[i][q]
    BY <1>1, <1>4 DEF TypeOK, PeerTypes, Flags
  <2>2. QED
    BY <1>1, <2>1, OtherCallsStay
<1>5. \A j, q \in Server : j # i /\ busy[j][q] => CallIn(net \ {m}, j, q)
  BY <1>1, OtherCallsStay
<1> HIDE DEF bz, i
<1>6. QED
  BY <1>1, <1>2, <1>3, <1>4, <1>5, RequestAppendEntriesCalls

LEMMA HbTimeoutCalls ==
  ASSUME TypeOK, BusyHasCall, NEW i \in Server, NEW p \in Server, HbTimeout(i, p)
  PROVE  BusyHasCall'
<1>1. busy[i] \in [Server -> BOOLEAN]
  BY DEF TypeOK, PeerTypes, Flags
<1>2. RequestAppendEntries(i, {p}, net, log[i], next_log_idx[i], busy[i],
                           quick_commit_idx[i])
  BY DEF HbTimeout
<1>3. QED
  BY <1>1, <1>2, BusyCalls, RequestAppendEntriesCalls

LEMMA HandleCliReqCalls ==
  ASSUME TypeOK, BusyHasCall, NEW i \in Server, NEW rest, HandleCliReq(i, rest),
         \A j, p \in Server : busy[j][p] => CallIn(rest, j, p)
  PROVE  BusyHasCall'
<1>1. busy[i] \in [Server -> BOOLEAN] /\ Peers(i) \in SUBSET Server
  BY DEF TypeOK, PeerTypes, Flags, Peers
<1>2. CASE rest \subseteq net' /\ busy' = busy
  BY <1>2, CallMore, BusyKept
<1>3. ASSUME NEW lg, NEW nx, NEW qc,
             RequestAppendEntries(i, Peers(i), rest, lg, nx, busy[i], qc)
      PROVE  BusyHasCall'
  BY <1>1, <1>3, RequestAppendEntriesCalls
<1>4. QED
  BY <1>2, <1>3 DEF HandleCliReq

LEMMA ForwardedRequestCalls ==
  ASSUME TypeOK, BusyHasCall, NEW m \in net, ForwardedRequest(m)
  PROVE  BusyHasCall'
<1>1. m.dst \in Server /\ ~IsAppend(m)
  BY MessageMembers DEF TypeOK, ForwardedRequest, IsAppend
<1>2. QED
  BY <1>1, OthersStay, HandleCliReqCalls DEF ForwardedRequest

\* A process that starts again has no call and no busy peer; the calls of the
\* others go on.
LEMMA RestartCalls ==
  ASSUME TypeOK, BusyHasCall, NEW i \in Server, Restart(i)
  PROVE  BusyHasCall'
<1> SUFFICES ASSUME NEW j \in Server, NEW p \in Server, busy'[j][p]
             PROVE  CallIn(net', j, p)
  BY DEF BusyHasCall, CallIn
<1>1. j # i /\ busy[j][p]
  BY DEF Restart, TypeOK, PeerTypes, Flags
<1>2. {m \in net : Caller(m) # i} \subseteq net'
  BY DEF Restart
<1>3. QED
  BY <1>1, <1>2, BusyCalls DEF CallIn

LEMMA NextCalls ==
  ASSUME TypeOK, BusyHasCall, [Next]_vars
  PROVE  BusyHasCall'
<1>1. CASE UNCHANGED vars
  BY <1>1 DEF vars, peerVars, BusyHasCall
<1>2. ASSUME NEW i \in Server, ElectionTimeout(i) PROVE BusyHasCall'
  BY <1>2, ElectionTimeoutCalls
<1>3. ASSUME NEW i \in Server, ClientRequest(i) PROVE BusyHasCall'
  BY <1>3, BusyCalls, HandleCliReqCalls DEF ClientRequest
<1>4. ASSUME NEW i \in Server, CommitInBg(i) PROVE BusyHasCall'
  BY <1>4 DEF CommitInBg, peerVars, BusyHasCall
<1>5. ASSUME NEW i \in Server, Restart(i) PROVE BusyHasCall'
  BY <1>5, RestartCalls
<1>6. ASSUME NEW i \in Server, NEW p \in Server, HbTimeout(i, p) PROVE BusyHasCall'
  BY <1>6, HbTimeoutCalls
<1>7. ASSUME NEW m \in net, RpcError(m) PROVE BusyHasCall'
  BY <1>7, RpcErrorCalls
<1>8. ASSUME NEW m \in net, Deliver(m) PROVE BusyHasCall'
  BY <1>8, HandleVoteReqCalls, HandleVotingRespCalls, HandleAppendEntriesCalls,
     RivalLeaderExitCalls, HandleAppendEntriesRespCalls, HandleNewerTermRespCalls,
     ForwardedRequestCalls DEF Deliver
<1>9. QED
  BY <1>1, <1>2, <1>3, <1>4, <1>5, <1>6, <1>7, <1>8 DEF Next

\* A peer that is busy has a call for entries in flight, for any cluster, through
\* lost answers, late ones and restarts: no flag of peer stays set with nobody
\* to clear it.
THEOREM NoFlagForgotten == Spec => []BusyHasCall
<1>1. Init => BusyHasCall
  BY DEF Init, BusyHasCall
<1>2. TypeOK /\ BusyHasCall /\ [Next]_vars => BusyHasCall'
  BY NextCalls
<1>3. QED
  BY <1>1, <1>2, TypeCorrect, PTL DEF Spec
=============================================================================
