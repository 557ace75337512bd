----------------------------- MODULE PartsProofs -----------------------------
(***************************************************************************)
(* What holds of the parts that MCParts composes, for every value of its   *)
(* constants: each part runs by its own specification, whichever the       *)
(* others are, and keeps the invariants of its module.                     *)
(***************************************************************************)
EXTENDS MCParts, Sequences, FiniteSetTheorems, TLAPS

parts_vars == <<part, sn_vars, fs_vars, mem_vars, ct_vars, el_vars,
                tm_vars, as_vars, rp_vars, cl_vars>>

-----------------------------------------------------------------------------
(* CommitThread, for every length of the log and every choice of configuration entries *)

\* Who holds stopping_lock_ is told by where the two threads are that use it ...
StoppingLockHeld ==
  /\ stopping_lock = "committer" <=> committer = "leave"
  /\ stopping_lock = "destructor" <=> destructor = "wait"

\* ... and the destructor is only woken by a committing thread on its way out.
WokenByCommitter ==
  /\ destructor = "woken" => committer \in {"leave", "gone"}
  /\ destructor = "done" => committer = "gone"

CtInv == TypeOK /\ AppliesStored /\ StoppingLockHeld /\ WokenByCommitter

\* The invariant holds when the server has been constructed.
LEMMA InitCtInv == ASSUME CommitAssumption, Init PROVE CtInv
<1>1. last \in 0 .. MaxIndex /\ sm_commit_index \in 0 .. MaxIndex
  BY DEF CommitAssumption, Init
<1>2. TypeOK
  BY <1>1 DEF Init, TypeOK
<1>3. AppliesStored
  BY <1>1 DEF Init, AppliesStored
<1> QED BY <1>2, <1>3 DEF Init, CtInv, StoppingLockHeld, WokenByCommitter

\* A handler leaves to the thread what it may apply.
LEMMA HandlerKeepsCtInv ==
  ASSUME CommitAssumption, CtInv,
         \/ \E n \in 0 .. MaxIndex : AppendOnly(n)
         \/ Handling
  PROVE  CtInv'
<1> USE DEF CommitAssumption, CtInv, TypeOK, AppliesStored, StoppingLockHeld,
        WokenByCommitter, indexes, locks, Smaller, Larger
<1>1. ASSUME NEW n \in 0 .. MaxIndex, AppendOnly(n) PROVE CtInv'
  BY <1>1 DEF AppendOnly, Rewrite, Idle
<1>2. ASSUME NEW n \in 0 .. MaxIndex, Receive(n) PROVE CtInv'
  BY <1>2 DEF Receive, Rewrite, Idle
<1>3. ASSUME NEW target \in 0 .. MaxIndex, Commit(target) PROVE CtInv'
  BY <1>3 DEF Commit
<1>4. CASE NotifyCommit
  BY <1>4 DEF NotifyCommit, Wake
<1> QED BY <1>1, <1>2, <1>3, <1>4 DEF Handling

\* So does the thread itself.
LEMMA CommitterKeepsCtInv ==
  ASSUME CommitAssumption, CtInv, Committing PROVE CtInv'
<1> USE DEF CommitAssumption, CtInv, TypeOK, AppliesStored, StoppingLockHeld,
        WokenByCommitter, indexes, locks
<1>1. CASE Test \/ Block \/ Resume \/ ApplyConfig
  BY <1>1 DEF Test, Block, Resume, ApplyConfig
<1>2. CASE StopCommitting
  BY <1>2 DEF StopCommitting
<1>3. CASE Leave
  BY <1>3 DEF Leave
<1>4. CASE Apply
  BY <1>4 DEF Apply, Work
<1> QED BY <1>1, <1>2, <1>3, <1>4 DEF Committing

\* And the destructor.
LEMMA DestructorKeepsCtInv == ASSUME CtInv, BeginStop \/ Destroying PROVE CtInv'
<1> USE DEF CtInv, TypeOK, AppliesStored, StoppingLockHeld, WokenByCommitter,
        indexes, locks
<1>1. CASE BeginStop
  BY <1>1 DEF BeginStop, Idle
<1>2. CASE NotifyStop
  BY <1>2 DEF NotifyStop, Wake
<1>3. CASE HandOver \/ AwaitStop
  BY <1>3 DEF HandOver, AwaitStop
<1>4. CASE Finish
  BY <1>4 DEF Finish
<1> QED BY <1>1, <1>2, <1>3, <1>4 DEF Destroying

\* The invariant holds in every state.
LEMMA Invariance == CommitAssumption => (Spec => []CtInv)
<1> SUFFICES ASSUME CommitAssumption PROVE Spec => []CtInv
  OBVIOUS
<1>1. CtInv /\ [Next]_vars => CtInv'
  <2>1. CASE UNCHANGED vars
    BY <2>1 DEF vars, indexes, locks, CtInv, TypeOK, AppliesStored,
       StoppingLockHeld, WokenByCommitter
  <2> QED
    BY <2>1, HandlerKeepsCtInv, CommitterKeepsCtInv, DestructorKeepsCtInv DEF Next
<1>2. Init => CtInv
  BY InitCtInv
<1> QED BY <1>1, <1>2, PTL DEF Spec

\* Indexes stay within the log, locks with the threads that use them.
THEOREM TypeCorrect == CommitAssumption => (Spec => []TypeOK)
BY Invariance, PTL DEF CtInv

\* commit_in_bg never reads an entry that is not stored, or applies one that is
\* not committed, although it tests the indexes without lock_.
THEOREM AppliedIsStored == CommitAssumption => (Spec => []AppliesStored)
BY Invariance, PTL DEF CtInv

\* ~raft_server returns only after the thread's last use of the server.
THEOREM StoppedBeforeDestroyed ==
  CommitAssumption => (Spec => []DestroyedAfterStop)
<1>1. CtInv => DestroyedAfterStop
  BY DEF CtInv, WokenByCommitter, DestroyedAfterStop
<1> QED BY <1>1, Invariance, PTL

-----------------------------------------------------------------------------
(* AsyncResult *)

\* Where the threads are tells what they have done; a handler that was there when the
\* result was stored is called by the setter before it notifies, a later one by the
\* registrar when it tests.
AsInv ==
  /\ setter \in {"store", "call", "notify", "done"}
  /\ registrar \in {"register", "test", "done"}
  /\ as_calls \in Nat
  /\ getter \in [Getter -> {"start", "waiting", "woken", "returned"}]
  /\ has_result <=> setter # "store"
  /\ as_handler <=> registrar # "register"
  /\ setter \in {"notify", "done"} /\ registrar = "done" => as_calls > 0
  /\ As!NobodyLeftWaiting

LEMMA AsyncRuns == PartsSpec => As!Spec
<1>1. PartsInit => As!Init
  BY DEF PartsInit
<1>2. [PartsNext]_parts_vars => [As!Next]_as_vars
  BY DEF PartsNext, parts_vars, as_vars
<1>3. QED
  BY <1>1, <1>2, PTL DEF PartsSpec, As!Spec, parts_vars, as_vars, As!vars

LEMMA AsyncInvariant == As!Spec => []AsInv
<1> USE DEF AsInv, As!NobodyLeftWaiting
<1>1. As!Init => AsInv
  BY DEF As!Init
<1>2. AsInv /\ [As!Next]_(As!vars) => AsInv'
  <2> SUFFICES ASSUME AsInv, [As!Next]_(As!vars) PROVE AsInv'
    OBVIOUS
  <2>1. CASE As!Store
    BY <2>1 DEF As!Store
  <2>2. CASE As!Call
    BY <2>2 DEF As!Call
  <2>3. CASE As!NotifyAll
    BY <2>3 DEF As!NotifyAll
  <2>4. CASE As!Register
    BY <2>4 DEF As!Register
  <2>5. CASE As!TestResult
    BY <2>5 DEF As!TestResult
  <2>6. ASSUME NEW g \in Getter, As!Get(g) \/ As!Return(g) PROVE AsInv'
    BY <2>6 DEF As!Get, As!Return
  <2>7. CASE UNCHANGED As!vars
    BY <2>7 DEF As!vars
  <2>8. QED
    BY <2>1, <2>2, <2>3, <2>4, <2>5, <2>6, <2>7 DEF As!Next
<1>3. QED
  BY <1>1, <1>2, PTL DEF As!Spec

\* async_result calls a handler that is registered before, after or while the result
\* is set, however many threads wait in get (when_ready, set_result).
THEOREM HandlerIsCalled == PartsSpec => []HandlerCalled
<1>1. AsInv => HandlerCalled
  BY DEF AsInv, HandlerCalled, As!HandlerCalled
<1>2. QED
  BY <1>1, AsyncRuns, AsyncInvariant, PTL

\* No thread is left waiting in get when set_result has notified (get, set_result).
THEOREM NobodyWaitsForever == PartsSpec => []NobodyLeftWaiting
<1>1. AsInv => NobodyLeftWaiting
  BY DEF AsInv, NobodyLeftWaiting
<1>2. QED
  BY <1>1, AsyncRuns, AsyncInvariant, PTL

-----------------------------------------------------------------------------
(* Ns3Rpc *)

\* The types of what an answer is judged by, and the property itself
RpInv ==
  /\ rp_busy \in BOOLEAN /\ sent \in Seq({"vote", "append"})
  /\ Rp!BusyPeerIsFreed

LEMMA RpcRuns == PartsSpec => Rp!Spec
<1>1. PartsInit => Rp!Init
  BY DEF PartsInit
<1>2. [PartsNext]_parts_vars => [Rp!Next]_rp_vars
  BY DEF PartsNext, parts_vars, rp_vars
<1>3. QED
  BY <1>1, <1>2, PTL DEF PartsSpec, Rp!Spec, parts_vars, rp_vars, Rp!vars

\* A request for entries leaves the peer busy and puts its handler in place, or finds
\* the peer as it was.
LEMMA RequestAppendKeeps ==
  ASSUME NEW free \in BOOLEAN, NEW rest \in Seq({"vote", "append"}),
         ~free => rp_handler = "append" /\ rest # <<>>,
         Rp!RequestAppend(free, rest)
  PROVE  /\ rp_busy' \in BOOLEAN /\ sent' \in Seq({"vote", "append"})
         /\ rp_handler' = "append" /\ sent' # <<>>
<1>1. Append(rest, "append") \in Seq({"vote", "append"}) /\ Append(rest, "append") # <<>>
  OBVIOUS
<1>2. QED
  BY <1>1 DEF Rp!RequestAppend, Rp!Send

LEMMA RpcInvariant == Rp!Spec => []RpInv
<1> USE DEF RpInv, Rp!BusyPeerIsFreed
<1>1. Rp!Init => RpInv
  <2>1. <<>> \in Seq({"vote", "append"})
    OBVIOUS
  <2>2. QED
    BY <2>1 DEF Rp!Init
<1>2. RpInv /\ [Rp!Next]_(Rp!vars) => RpInv'
  <2> SUFFICES ASSUME RpInv, [Rp!Next]_(Rp!vars) PROVE RpInv'
    OBVIOUS
  <2>1. CASE Rp!BecomeCandidate
    <3>1. Append(sent, "vote") \in Seq({"vote", "append"})
      OBVIOUS
    <3>2. QED
      BY <2>1, <3>1 DEF Rp!BecomeCandidate, Rp!Send
  <2>2. CASE Rp!BecomeFollower
    BY <2>2 DEF Rp!BecomeFollower
  <2>3. CASE Rp!LeaderSends
    BY <2>3, RequestAppendKeeps DEF Rp!LeaderSends
  <2>4. CASE Rp!Answer
    <3> DEFINE free == ~rp_busy \/ rp_handler = "append"
               rest == Tail(sent)
    <3>1. rest \in Seq({"vote", "append"}) /\ free \in BOOLEAN
      BY <2>4 DEF Rp!Answer
    <3>2. rp_role = "leader" => free
      OBVIOUS
    <3>3. Rp!Answered(free, rest)
      BY <2>4 DEF Rp!Answer
    <3> HIDE DEF free, rest
    <3>4. CASE Rp!BecomeLeader(free, rest)
      BY <3>1, <3>4, RequestAppendKeeps DEF Rp!BecomeLeader
    <3>5. CASE rp_role = "leader" /\ Rp!RequestAppend(free, rest)
      BY <3>1, <3>2, <3>5, RequestAppendKeeps
    <3>6. CASE /\ rp_busy' = ~free /\ sent' = rest /\ rp_role' \in {rp_role, "follower"}
               /\ UNCHANGED <<rp_handler, calls>>
      BY <3>1, <3>2, <3>6
    <3>7. QED
      BY <3>3, <3>4, <3>5, <3>6 DEF Rp!Answered
  <2>5. CASE Rp!BecomeLeader(~rp_busy, sent)
    BY <2>5, RequestAppendKeeps DEF Rp!BecomeLeader
  <2>6. CASE UNCHANGED Rp!vars
    BY <2>6 DEF Rp!vars
  <2>7. QED
    BY <2>1, <2>2, <2>3, <2>4, <2>5, <2>6 DEF Rp!Next
<1>3. QED
  BY <1>1, <1>2, PTL DEF Rp!Spec

\* However many calls are sent and whichever handler their answers find, a peer that a
\* leader takes for busy has a call that will free it (ns3_rpc_client::send, set_free).
THEOREM BusyPeerAnswers == PartsSpec => []BusyPeerIsFreed
<1>1. RpInv => BusyPeerIsFreed
  BY DEF RpInv, BusyPeerIsFreed
<1>2. QED
  BY <1>1, RpcRuns, RpcInvariant, PTL

-----------------------------------------------------------------------------
(* ClientNode *)

ClTypes ==
  /\ i \in 1 .. MaxRequest
  /\ leader_ \in [Node -> Node \cup {Nobody}] /\ leading \subseteq Node
  /\ cl_net \subseteq Node \X (1 .. MaxRequest) \X BOOLEAN
  /\ appended \in [1 .. MaxRequest -> Nat]

\* A request that is in flight is in flight once and has not been appended ...
OnceInFlight ==
  \A m \in cl_net :
    /\ appended[m[2]] = 0 /\ m[2] <= i
    /\ \A n \in cl_net : m[2] = n[2] => m = n

\* ... those the client has not come to have not been appended either ...
NewNotAppended ==
  \A n \in 1 .. MaxRequest : appended[n] <= 1 /\ (n > i => appended[n] = 0)

\* ... and the client waits for the answer to the request it has sent itself.
DirectIsLast == \A m \in cl_net : m[3] => m[2] = i /\ answer = "none"

\* The request that the client will repeat is gone.
RepeatedIsGone ==
  answer # "none" /\ answer = Nobody
    => appended[i] = 0 /\ \A m \in cl_net : m[2] # i

\* A server that leads takes itself for the leader.
LeadersKnow == \A s \in leading : leader_[s] = s

ClInv ==
  /\ ClTypes /\ OnceInFlight /\ NewNotAppended /\ DirectIsLast /\ RepeatedIsGone
  /\ LeadersKnow

LEMMA ClientRuns == PartsSpec => Cl!Spec
<1>1. PartsInit => Cl!Init
  BY DEF PartsInit
<1>2. [PartsNext]_parts_vars => [Cl!Next]_cl_vars
  BY DEF PartsNext, parts_vars, cl_vars
<1>3. QED
  BY <1>1, <1>2, PTL DEF PartsSpec, Cl!Spec, parts_vars, cl_vars, Cl!vars

LEMMA ClientBounds ==
  Contact \in Node /\ Nobody \notin Node /\ MaxRequest \in Nat \ {0}
BY PartsAssumption DEF Cl!ClientAssumption

LEMMA RequestParts ==
  ASSUME NEW s \in Node, NEW n \in 1 .. MaxRequest, NEW d \in BOOLEAN,
         NEW t, t = <<s, n, d>>
  PROVE  /\ t \in Node \X (1 .. MaxRequest) \X BOOLEAN
         /\ t[1] = s /\ t[2] = n /\ (t[3] <=> d)
<1>1. t \in Node \X (1 .. MaxRequest) \X BOOLEAN
  OBVIOUS
<1>2. t[1] = s /\ t[2] = n
  OBVIOUS
<1>3. t[3] = d
  OBVIOUS
<1>4. QED
  BY <1>1, <1>2, <1>3

LEMMA ClientInit == ASSUME Cl!Init PROVE ClInv
<1>1. PICK t : t = <<Contact, 1, TRUE>>
  OBVIOUS
<1>2. /\ i = 1 /\ leader_ = [s \in Node |-> Nobody] /\ leading = {}
      /\ cl_net = {t} /\ answer = "none" /\ appended = [n \in 1 .. MaxRequest |-> 0]
  BY <1>1 DEF Cl!Init
<1>3. 1 \in 1 .. MaxRequest /\ Contact \in Node
  BY ClientBounds
<1>4. t \in Node \X (1 .. MaxRequest) \X BOOLEAN /\ t[2] = 1
  BY <1>1, <1>3, RequestParts
<1>5. ClTypes /\ OnceInFlight
  BY <1>2, <1>3, <1>4 DEF ClTypes, OnceInFlight
<1>6. NewNotAppended /\ DirectIsLast /\ RepeatedIsGone /\ LeadersKnow
  BY <1>2, <1>3, <1>4 DEF NewNotAppended, DirectIsLast, RepeatedIsGone, LeadersKnow
<1>7. QED
  BY <1>5, <1>6 DEF ClInv

LEMMA ClientRequest == ASSUME ClInv, Cl!Request PROVE ClInv'
<1>1. PICK n : n = IF Cl!Resends(answer) THEN i ELSE i + 1
  OBVIOUS
<1>a. PICK t : t = <<Contact, n, TRUE>>
  OBVIOUS
<1>2. /\ answer # "none" /\ n <= MaxRequest
      /\ i' = n /\ cl_net' = cl_net \cup {t} /\ answer' = "none"
      /\ UNCHANGED <<leader_, leading, appended, changes>>
  BY <1>1, <1>a DEF Cl!Request
<1>3. n \in 1 .. MaxRequest /\ n >= i
  BY <1>1, <1>2, ClientBounds DEF ClInv, ClTypes
<1>b. t \in Node \X (1 .. MaxRequest) \X BOOLEAN /\ t[2] = n
  BY <1>a, <1>3, ClientBounds, RequestParts
<1>4. appended[n] = 0 /\ \A m \in cl_net : m[2] # n
  BY <1>1, <1>2, <1>3
     DEF Cl!Resends, ClInv, ClTypes, OnceInFlight, NewNotAppended, RepeatedIsGone
<1>5. \A m \in cl_net : ~m[3]
  BY <1>2 DEF ClInv, DirectIsLast
<1>6. ClTypes'
  BY <1>2, <1>3, <1>b DEF ClInv, ClTypes
<1>7. OnceInFlight'
  BY <1>2, <1>3, <1>4, <1>b DEF ClInv, ClTypes, OnceInFlight
<1>8. NewNotAppended' /\ RepeatedIsGone' /\ LeadersKnow'
  BY <1>2, <1>3 DEF ClInv, ClTypes, NewNotAppended, RepeatedIsGone, LeadersKnow
<1>9. DirectIsLast'
  BY <1>2, <1>5, <1>b DEF ClInv, DirectIsLast
<1>10. QED
  BY <1>6, <1>7, <1>8, <1>9 DEF ClInv

\* A server drops the request, appends it or passes it on.
LEMMA ClientHandle ==
  ASSUME ClInv, NEW m \in cl_net, Cl!HandleCliReq(m) PROVE ClInv'
<1>1. PICK s \in Node, n \in 1 .. MaxRequest, d \in BOOLEAN : m = <<s, n, d>>
  BY DEF ClInv, ClTypes
<1>2. PICK rest : rest = cl_net \ {m}
  OBVIOUS
<1>3. /\ n <= i /\ appended[n] = 0 /\ rest \subseteq cl_net /\ \A r \in rest : r[2] # n
  BY <1>1, <1>2 DEF ClInv, OnceInFlight
<1>4. d => n = i /\ answer = "none" /\ \A r \in rest : ~r[3]
  BY <1>1, <1>3 DEF ClInv, DirectIsLast
<1>5. UNCHANGED <<i, leader_, leading, changes>> /\ (~d => answer' = answer)
  BY <1>1 DEF Cl!HandleCliReq
<1>6. RepeatedIsGone => (answer # "none" /\ answer = Nobody => n # i)
  BY <1>1 DEF RepeatedIsGone
<1>7. LeadersKnow'
  BY <1>5 DEF ClInv, LeadersKnow
<1>8. ASSUME cl_net' = rest, UNCHANGED appended PROVE ClInv'
  <2>1. ClTypes' /\ OnceInFlight' /\ NewNotAppended'
    BY <1>3, <1>5, <1>8 DEF ClInv, ClTypes, OnceInFlight, NewNotAppended
  <2>2. DirectIsLast'
    BY <1>3, <1>4, <1>5, <1>8 DEF ClInv, DirectIsLast
  <2>3. RepeatedIsGone'
    BY <1>3, <1>4, <1>5, <1>8 DEF ClInv, RepeatedIsGone
  <2>4. QED
    BY <2>1, <2>2, <2>3, <1>7 DEF ClInv
<1>9. ASSUME s \in leading, cl_net' = rest, appended' = [appended EXCEPT ![n] = @ + 1],
             d => answer' = leader_[s]
      PROVE  ClInv'
  <2>1. ClTypes' /\ OnceInFlight'
    BY <1>3, <1>5, <1>9 DEF ClInv, ClTypes, OnceInFlight
  <2>2. NewNotAppended'
    BY <1>3, <1>5, <1>9 DEF ClInv, ClTypes, NewNotAppended
  <2>3. DirectIsLast'
    BY <1>3, <1>4, <1>5, <1>9 DEF ClInv, DirectIsLast
  <2>4. d => answer' # Nobody
    BY <1>9, ClientBounds DEF ClInv, LeadersKnow
  <2>5. RepeatedIsGone'
    BY <1>3, <1>5, <1>6, <1>9, <2>4 DEF ClInv, ClTypes, RepeatedIsGone
  <2>6. QED
    BY <2>1, <2>2, <2>3, <2>5, <1>7 DEF ClInv
<1>10. ASSUME leader_[s] \in Node, cl_net' = rest \cup {<<leader_[s], n, FALSE>>},
              UNCHANGED appended, d => answer' = leader_[s]
       PROVE  ClInv'
  <2>a. PICK t : t = <<leader_[s], n, FALSE>>
    OBVIOUS
  <2>b. /\ t \in Node \X (1 .. MaxRequest) \X BOOLEAN /\ t[2] = n /\ ~t[3]
        /\ cl_net' = rest \cup {t}
    BY <1>10, <2>a, RequestParts
  <2>1. ClTypes'
    BY <1>3, <1>5, <1>10, <2>b DEF ClInv, ClTypes
  <2>2. OnceInFlight'
    BY <1>3, <1>5, <1>10, <2>b DEF ClInv, OnceInFlight
  <2>3. NewNotAppended'
    BY <1>5, <1>10 DEF ClInv, NewNotAppended
  <2>4. DirectIsLast'
    BY <1>3, <1>4, <1>5, <1>10, <2>b DEF ClInv, DirectIsLast
  <2>5. RepeatedIsGone'
    BY <1>3, <1>5, <1>6, <1>10, <2>b, ClientBounds DEF ClInv, RepeatedIsGone
  <2>6. QED
    BY <2>1, <2>2, <2>3, <2>4, <2>5, <1>7 DEF ClInv
<1>11. leader_[s] \in Node \cup {Nobody}
  BY DEF ClInv, ClTypes
<1>12. QED
  BY <1>1, <1>2, <1>8, <1>9, <1>10, <1>11 DEF Cl!HandleCliReq

LEMMA ClientChange == ASSUME ClInv, Cl!Change PROVE ClInv'
<1>1. UNCHANGED <<i, cl_net, answer, appended>>
  BY DEF Cl!Change
<1>2. OnceInFlight' /\ NewNotAppended' /\ DirectIsLast' /\ RepeatedIsGone'
  BY <1>1 DEF ClInv, OnceInFlight, NewNotAppended, DirectIsLast, RepeatedIsGone
<1>3. ClTypes' /\ LeadersKnow'
  BY <1>1 DEF ClInv, ClTypes, LeadersKnow, Cl!Change, Cl!Elected, Cl!Deposed, Cl!Learns
<1>4. QED
  BY <1>2, <1>3 DEF ClInv

\* For any number of servers, requests and changes of leadership, the retries of the
\* client and the forwarding between the servers append no request twice
\* (ClientNode::HandleRead, send_msg_to_leader).
THEOREM RequestAppendedOnce == PartsSpec => []AppendedOnce
<1>1. ClInv /\ [Cl!Next]_(Cl!vars) => ClInv'
  <2> SUFFICES ASSUME ClInv, [Cl!Next]_(Cl!vars) PROVE ClInv'
    OBVIOUS
  <2>1. CASE UNCHANGED Cl!vars
    BY <2>1 DEF Cl!vars, ClInv, ClTypes, OnceInFlight, NewNotAppended, DirectIsLast,
                RepeatedIsGone, LeadersKnow
  <2>2. QED
    BY <2>1, ClientRequest, ClientHandle, ClientChange DEF Cl!Next
<1>2. ClInv => AppendedOnce
  BY DEF ClInv, NewNotAppended, AppendedOnce, Cl!AppendedOnce
<1>3. QED
  BY <1>1, <1>2, ClientRuns, ClientInit, PTL DEF Cl!Spec

-----------------------------------------------------------------------------
(* Election, whose proofs are in a module of their own *)

ElProofs == INSTANCE ElectionProofs WITH Server <- Node

LEMMA ElectionRuns == PartsSpec => ElProofs!Spec
<1>1. PartsInit => ElProofs!Init
  BY DEF PartsInit, El!Init, ElProofs!Init
<1>2. \A S : El!Majority(S) <=> ElProofs!Majority(S)
  BY DEF El!Majority, ElProofs!Majority, El!Cardinality, ElProofs!Cardinality
<1>3. [PartsNext]_parts_vars => [ElProofs!Next]_el_vars
  <2>1. El!Next => ElProofs!Next
    BY <1>2 DEF El!Next, ElProofs!Next, El!Cast, ElProofs!Cast, El!Elect, ElProofs!Elect,
       El!Voters, ElProofs!Voters
  <2>2. QED
    BY <2>1 DEF PartsNext, parts_vars, el_vars
<1>4. QED
  BY <1>1, <1>3, PTL DEF PartsSpec, ElProofs!Spec, parts_vars, el_vars

\* At most one server is elected in a term.
THEOREM OneLeaderElected == PartsSpec => []OneLeaderPerTerm
<1>1. ElProofs!ElectionAssumption
  BY PartsAssumption DEF ElProofs!ElectionAssumption, El!ElectionAssumption,
     ElProofs!IsFiniteSet, El!IsFiniteSet
<1>2. ElProofs!OneLeaderPerTerm => OneLeaderPerTerm
  BY DEF ElProofs!OneLeaderPerTerm, OneLeaderPerTerm, El!OneLeaderPerTerm
<1>3. QED
  BY <1>1, <1>2, ElectionRuns, ElProofs!OneLeader, PTL

-----------------------------------------------------------------------------
(* Timers *)

PendingFor(q, t) == {e \in q.events : e.task = t}
Armed(q, t) == PendingFor(q, t) # {} /\ ~q.cancelled[t]

Shape(q) ==
  /\ DOMAIN q = {"events", "id", "cancelled"}
  /\ \A e \in q.events : e.task \in Tm!Task /\ e = Tm!Event(e.task, e.id)
  /\ DOMAIN q.id = Tm!Task /\ q.cancelled \in [Tm!Task -> BOOLEAN]

\* Every pending election event is the one that m_tasks names, so that a cancel
\* finds it.
NamedInMap(q) == \A e \in PendingFor(q, ElectionTask) : e.id = q.id[ElectionTask]

\* A leader has no election event, and a heartbeat to come for every peer.
TmInv ==
  /\ Shape(sched) /\ NamedInMap(sched)
  /\ hb_enabled \in [Peer -> BOOLEAN]
  /\ catching_up \in BOOLEAN /\ unheard \in BOOLEAN
  /\ catching_up => unheard
  /\ role = "leader" => PendingFor(sched, ElectionTask) = {}
  /\ status = "running" /\ role # "leader" /\ ~unheard => Armed(sched, ElectionTask)
  /\ role = "leader" => \A p \in Peer : hb_enabled[p] /\ Armed(sched, p)
  /\ status # "illegal"

LEMMA Tasks == ElectionTask \notin Peer /\ Tm!Task = Peer \cup {ElectionTask}
BY PartsAssumption DEF Tm!TimersAssumption, Tm!Task

LEMMA EventParts ==
  ASSUME NEW t, NEW n
  PROVE  LET e == Tm!Event(t, n) IN e.task = t /\ e.id = n /\ e = Tm!Event(e.task, e.id)
BY DEF Tm!Event

LEMMA CancelRemoves ==
  ASSUME NEW q, Shape(q), NamedInMap(q), NEW T \in SUBSET Tm!Task
  PROVE  /\ Shape(Tm!Cancel(q, T)) /\ NamedInMap(Tm!Cancel(q, T))
         /\ ElectionTask \in T
            => /\ PendingFor(Tm!Cancel(q, T), ElectionTask) = {}
               /\ Tm!Cancel(q, T).id[ElectionTask] = 0
         /\ ElectionTask \notin T
            => /\ PendingFor(Tm!Cancel(q, T), ElectionTask) = PendingFor(q, ElectionTask)
               /\ Tm!Cancel(q, T).cancelled[ElectionTask] = q.cancelled[ElectionTask]
BY Tasks DEF Tm!Cancel, Shape, NamedInMap, PendingFor

LEMMA ScheduleElection ==
  ASSUME NEW q, Shape(q), PendingFor(q, ElectionTask) = {}, q.id[ElectionTask] = 0,
         NEW r, r = Tm!Schedule(q, {ElectionTask})
  PROVE  Shape(r) /\ NamedInMap(r) /\ Armed(r, ElectionTask)
<1> DEFINE n == Tm!Fresh(q, ElectionTask)
<1> HIDE DEF n
<1>1. /\ DOMAIN r = {"events", "id", "cancelled"}
      /\ r.events = q.events \cup {Tm!Event(ElectionTask, n)}
      /\ r.id = [t \in Tm!Task |-> IF t \in {ElectionTask} /\ q.id[t] = 0
                                   THEN Tm!Fresh(q, t) ELSE q.id[t]]
      /\ r.cancelled = [t \in Tm!Task |-> q.cancelled[t] /\ t \notin {ElectionTask}]
  BY DEF Tm!Schedule, n
<1>2. r.id[ElectionTask] = n
  BY <1>1, Tasks DEF n
<1>3. LET e == Tm!Event(ElectionTask, n) IN
      e.task = ElectionTask /\ e.id = n /\ e = Tm!Event(e.task, e.id)
  BY EventParts
<1>4. Shape(r)
  BY <1>1, <1>3, Tasks DEF Shape
<1>5. PendingFor(r, ElectionTask) = {Tm!Event(ElectionTask, n)}
  BY <1>1, <1>3 DEF PendingFor
<1>6. QED
  BY <1>1, <1>2, <1>3, <1>4, <1>5, Tasks DEF Shape, NamedInMap, Armed, PendingFor

LEMMA SchedulePeers ==
  ASSUME NEW q, Shape(q), NamedInMap(q), NEW T \in SUBSET Peer,
         NEW r, r = Tm!Schedule(q, T)
  PROVE  /\ Shape(r) /\ NamedInMap(r)
         /\ PendingFor(r, ElectionTask) = PendingFor(q, ElectionTask)
         /\ r.cancelled[ElectionTask] = q.cancelled[ElectionTask]
         /\ \A p \in T : Armed(r, p)
         /\ \A p \in Peer : Armed(q, p) => Armed(r, p)
<1>1. /\ DOMAIN r = {"events", "id", "cancelled"}
      /\ r.events = q.events \cup {Tm!Event(t, Tm!Fresh(q, t)) : t \in T}
      /\ r.id = [t \in Tm!Task |-> IF t \in T /\ q.id[t] = 0
                                   THEN Tm!Fresh(q, t) ELSE q.id[t]]
      /\ r.cancelled = [t \in Tm!Task |-> q.cancelled[t] /\ t \notin T]
  BY DEF Tm!Schedule
<1>2. \A p \in T : Tm!Event(p, Tm!Fresh(q, p)) \in r.events
  BY <1>1
<1>3. Shape(r)
  BY <1>1, EventParts, Tasks DEF Shape
<1>4. PendingFor(r, ElectionTask) = PendingFor(q, ElectionTask)
  BY <1>1, EventParts, Tasks DEF PendingFor
<1>5. /\ r.id[ElectionTask] = q.id[ElectionTask]
      /\ r.cancelled[ElectionTask] = q.cancelled[ElectionTask]
  BY <1>1, Tasks DEF Shape
<1>6. \A p \in T : Armed(r, p)
  BY <1>1, <1>2, EventParts, Tasks DEF Armed, PendingFor
<1>7. \A p \in Peer : Armed(q, p) => Armed(r, p)
  BY <1>1, <1>6, Tasks DEF Armed, PendingFor, Shape
<1>8. QED
  BY <1>3, <1>4, <1>5, <1>6, <1>7 DEF NamedInMap

\* restart_election_timer leaves one event, or with catching_up the queue as it was.
LEMMA Restart ==
  ASSUME NEW q, Shape(q), NamedInMap(q), Tm!RestartElectionTimer(q)
  PROVE  /\ Shape(sched') /\ NamedInMap(sched')
         /\ catching_up => sched' = q /\ unheard' = unheard
         /\ ~catching_up => Armed(sched', ElectionTask) /\ unheard' = FALSE
<1>1. CASE catching_up
  BY <1>1 DEF Tm!RestartElectionTimer
<1>2. CASE ~catching_up
  <2> DEFINE c == Tm!Cancel(q, {ElectionTask})
  <2>1. Shape(c) /\ PendingFor(c, ElectionTask) = {} /\ c.id[ElectionTask] = 0
    BY CancelRemoves, Tasks
  <2>2. sched' = Tm!Schedule(c, {ElectionTask}) /\ unheard' = FALSE
    BY <1>2 DEF Tm!RestartElectionTimer
  <2> HIDE DEF c
  <2>3. QED
    BY <1>2, <2>1, <2>2, ScheduleElection
<1>3. QED
  BY <1>1, <1>2

LEMMA TimersRun == PartsSpec => Tm!Spec
<1>1. PartsInit => Tm!Init
  BY DEF PartsInit
<1>2. [PartsNext]_parts_vars => [Tm!Next]_(Tm!vars)
  BY DEF PartsNext, parts_vars, tm_vars, Tm!vars, Tm!serverVars
<1>3. QED
  BY <1>1, <1>2, PTL DEF PartsSpec, Tm!Spec, parts_vars, tm_vars

\* An event that has run is no longer pending.
LEMMA EventRuns ==
  ASSUME TmInv, NEW e \in sched.events, NEW q, q = [sched EXCEPT !.events = @ \ {e}]
  PROVE  /\ Shape(q) /\ NamedInMap(q)
         /\ role = "leader" => PendingFor(q, ElectionTask) = {}
         /\ e.task # ElectionTask
            => PendingFor(q, ElectionTask) = PendingFor(sched, ElectionTask)
         /\ q.cancelled = sched.cancelled
         /\ \A p \in Peer : p # e.task /\ Armed(sched, p) => Armed(q, p)
<1>1. /\ DOMAIN q = {"events", "id", "cancelled"} /\ q.events = sched.events \ {e}
      /\ q.id = sched.id /\ q.cancelled = sched.cancelled
  BY DEF TmInv, Shape
<1>2. QED
  BY <1>1 DEF TmInv, Shape, NamedInMap, PendingFor, Armed

LEMMA TimerFires == ASSUME TmInv, NEW e \in sched.events, Tm!Fire(e) PROVE TmInv'
<1> DEFINE q == [sched EXCEPT !.events = @ \ {e}]
<1>1. /\ Shape(q) /\ NamedInMap(q)
      /\ role = "leader" => PendingFor(q, ElectionTask) = {}
      /\ e.task # ElectionTask
         => PendingFor(q, ElectionTask) = PendingFor(sched, ElectionTask)
      /\ q.cancelled = sched.cancelled
      /\ \A p \in Peer : p # e.task /\ Armed(sched, p) => Armed(q, p)
  BY EventRuns
<1>2. \/ sched.cancelled[e.task] /\ sched' = q /\ UNCHANGED <<Tm!serverVars, status, unheard>>
      \/ ~sched.cancelled[e.task] /\ e.task = ElectionTask /\ Tm!ElectionTimeout(q)
      \/ ~sched.cancelled[e.task] /\ e.task \in Peer /\ Tm!HbTimeout(e.task, q)
  BY DEF Tm!Fire
<1>3. status = "running"
  BY DEF Tm!Fire
<1> HIDE DEF q
<1>4. CASE sched.cancelled[e.task] /\ sched' = q
           /\ UNCHANGED <<Tm!serverVars, status, unheard>>
  BY <1>1, <1>4 DEF TmInv, Tm!serverVars, Armed
<1>5. CASE e.task = ElectionTask /\ Tm!ElectionTimeout(q)
  <2>1. e \in PendingFor(sched, ElectionTask)
    BY <1>5 DEF PendingFor
  <2>2. role # "leader"
    BY <2>1 DEF TmInv
  <2>3. UNCHANGED <<catching_up, hb_enabled>> /\ role' # "leader"
    BY <1>5, <2>2 DEF Tm!ElectionTimeout
  <2>4. CASE Tm!RestartElectionTimer(q) /\ status' = status
    BY <1>1, <2>2, <2>3, <2>4, Restart DEF TmInv
  <2>5. CASE status' = "left" /\ sched' = q /\ unheard' = unheard
    BY <1>1, <2>2, <2>3, <2>5 DEF TmInv
  <2>6. QED
    BY <1>5, <2>2, <2>4, <2>5 DEF Tm!ElectionTimeout
<1>6. CASE e.task \in Peer /\ Tm!HbTimeout(e.task, q)
  <2>1. UNCHANGED <<Tm!serverVars, status, unheard>> /\ e.task # ElectionTask
    BY <1>6, Tasks DEF Tm!HbTimeout
  <2>2. PendingFor(q, ElectionTask) = PendingFor(sched, ElectionTask)
    BY <1>1, <2>1
  <2>3. CASE role = "leader"
    <3>1. sched' = Tm!Schedule(q, {e.task})
      BY <1>6, <2>3 DEF Tm!HbTimeout, TmInv
    <3>2. /\ Shape(sched') /\ NamedInMap(sched')
          /\ PendingFor(sched', ElectionTask) = PendingFor(q, ElectionTask)
          /\ \A p \in {e.task} : Armed(sched', p)
          /\ \A p \in Peer : Armed(q, p) => Armed(sched', p)
      BY <1>1, <1>6, <3>1, SchedulePeers
    <3>3. QED
      BY <1>1, <2>1, <2>2, <2>3, <3>2 DEF TmInv, Tm!serverVars
  <2>4. CASE role # "leader"
    <3>1. sched' = q
      BY <1>6, <2>4 DEF Tm!HbTimeout
    <3>2. QED
      BY <1>1, <2>1, <2>2, <2>4, <3>1 DEF TmInv, Tm!serverVars, Armed
  <2>5. QED
    BY <2>3, <2>4
<1>7. QED
  BY <1>2, <1>4, <1>5, <1>6

LEMMA TimersBecomeLeader == ASSUME TmInv, Tm!BecomeLeader PROVE TmInv'
<1> DEFINE c == Tm!Cancel(sched, {ElectionTask})
<1>1. Shape(c) /\ NamedInMap(c) /\ PendingFor(c, ElectionTask) = {}
  BY CancelRemoves, Tasks DEF TmInv
<1>2. sched' = Tm!Schedule(c, Peer)
  BY DEF Tm!BecomeLeader, Tm!StopElectionTimer
<1> HIDE DEF c
<1>3. /\ Shape(sched') /\ NamedInMap(sched') /\ PendingFor(sched', ElectionTask) = {}
      /\ \A p \in Peer : Armed(sched', p)
  BY <1>1, <1>2, SchedulePeers
<1>4. QED
  BY <1>3 DEF TmInv, Tm!BecomeLeader

LEMMA TimersBecomeFollower ==
  ASSUME TmInv, Tm!BecomeFollower, UNCHANGED <<catching_up, status>> PROVE TmInv'
<1> DEFINE c == Tm!Cancel(sched, Peer)
<1>1. Shape(c) /\ NamedInMap(c)
  BY CancelRemoves, Tasks DEF TmInv
<1>2. Tm!RestartElectionTimer(c)
  BY DEF Tm!BecomeFollower
<1> HIDE DEF c
<1>3. /\ Shape(sched') /\ NamedInMap(sched')
      /\ catching_up => unheard' = unheard
      /\ ~catching_up => Armed(sched', ElectionTask) /\ unheard' = FALSE
  BY <1>1, <1>2, Restart
<1>4. role' = "follower" /\ hb_enabled' \in [Peer -> BOOLEAN]
  BY DEF Tm!BecomeFollower
<1>5. CASE catching_up
  BY <1>3, <1>4, <1>5 DEF TmInv
<1>6. CASE ~catching_up
  BY <1>3, <1>4, <1>6 DEF TmInv
<1>7. QED
  BY <1>5, <1>6

LEMMA TimersInvariant == Tm!Spec => []TmInv
<1>1. Tm!Init => TmInv
  <2> SUFFICES ASSUME Tm!Init PROVE TmInv
    OBVIOUS
  <2>1. /\ DOMAIN sched = {"events", "id", "cancelled"}
        /\ sched.events = {Tm!Event(ElectionTask, 1)}
        /\ sched.id = [t \in Tm!Task |-> IF t = ElectionTask THEN 1 ELSE 0]
        /\ sched.cancelled = [t \in Tm!Task |-> FALSE]
    BY DEF Tm!Init
  <2>2. Shape(sched) /\ NamedInMap(sched) /\ Armed(sched, ElectionTask)
    BY <2>1, Tasks, EventParts DEF Shape, NamedInMap, PendingFor, Armed
  <2>3. QED
    BY <2>2 DEF Tm!Init, TmInv
<1>2. TmInv /\ [Tm!Next]_(Tm!vars) => TmInv'
  <2> SUFFICES ASSUME TmInv, [Tm!Next]_(Tm!vars) PROVE TmInv'
    OBVIOUS
  <2>1. CASE Tm!UpdateTerm
    BY <2>1, TimersBecomeFollower DEF Tm!UpdateTerm
  <2>2. CASE Tm!HearFromLeader
    <3>1. CASE role = "candidate"
      BY <2>2, <3>1, TimersBecomeFollower DEF Tm!HearFromLeader
    <3>2. CASE role # "candidate"
      <4>1. Tm!RestartElectionTimer(sched) /\ role # "leader"
            /\ UNCHANGED <<role, hb_enabled, catching_up, status>>
        BY <2>2, <3>2 DEF Tm!HearFromLeader
      <4>2. QED
        BY <4>1, Restart DEF TmInv
    <3>3. QED
      BY <3>1, <3>2
  <2>3. CASE Tm!Join
    BY <2>3 DEF TmInv, Tm!Join
  <2>4. CASE Tm!Joined
    BY <2>4 DEF TmInv, Tm!Joined
  <2>5. CASE Tm!Leave
    BY <2>5 DEF TmInv, Tm!Leave
  <2>6. CASE UNCHANGED Tm!vars
    BY <2>6 DEF TmInv, Tm!vars, Tm!serverVars
  <2>7. QED
    BY <2>1, <2>2, <2>3, <2>4, <2>5, <2>6, TimerFires, TimersBecomeLeader DEF Tm!Next
<1>3. QED
  BY <1>1, <1>2, PTL DEF Tm!Spec

\* However often the timer is cancelled and restarted and whichever event the
\* simulator runs next, a server that does not lead has one election event to come
\* (restart_election_timer, m_tasks).
THEOREM OneElectionEvent == PartsSpec => []OneElectionTimer
<1>1. TmInv => OneElectionTimer
  <2> SUFFICES ASSUME TmInv PROVE Tm!OneElectionTimer
    BY DEF OneElectionTimer
  <2>1. Tm!Live(ElectionTask) \subseteq PendingFor(sched, ElectionTask)
    BY DEF Tm!Live, PendingFor
  <2>2. PendingFor(sched, ElectionTask)
          \subseteq {Tm!Event(ElectionTask, sched.id[ElectionTask])}
    BY DEF TmInv, Shape, NamedInMap, PendingFor
  <2>3. Tm!Live(ElectionTask) = {}
          \/ Tm!Live(ElectionTask) = {Tm!Event(ElectionTask, sched.id[ElectionTask])}
    BY <2>1, <2>2
  <2>4. Tm!Cardinality(Tm!Live(ElectionTask)) <= 1
    <3>1. \A S : Tm!Cardinality(S) = Cardinality(S)
      BY DEF Tm!Cardinality, Cardinality
    <3>2. Cardinality({}) = 0
      BY FS_EmptySet
    <3>3. Cardinality({Tm!Event(ElectionTask, sched.id[ElectionTask])}) = 1
      BY FS_Singleton
    <3>4. QED
      BY <2>3, <3>1, <3>2, <3>3
  <2>5. status = "running" /\ role # "leader" /\ ~catching_up /\ ~unheard
        => Tm!Live(ElectionTask) # {}
    BY DEF TmInv, Armed, PendingFor, Tm!Live
  <2>6. QED
    BY <2>4, <2>5 DEF Tm!OneElectionTimer
<1>2. QED
  BY <1>1, TimersRun, TimersInvariant, PTL

\* "A leader should never encounter election timeout" (handle_election_timeout).
THEOREM NoTimeoutOfLeader == PartsSpec => []LeaderNeverTimesOut
<1>1. TmInv => LeaderNeverTimesOut
  BY DEF TmInv, LeaderNeverTimesOut, Tm!LeaderNeverTimesOut
<1>2. QED
  BY <1>1, TimersRun, TimersInvariant, PTL

\* A leader has a heartbeat to come for each of any number of peers, also when events
\* of an earlier term of office are still there (become_leader, handle_hb_timeout).
THEOREM HeartbeatsContinue == PartsSpec => []HeartbeatsGoOn
<1>1. TmInv => HeartbeatsGoOn
  BY DEF TmInv, HeartbeatsGoOn, Tm!HeartbeatsGoOn, Tm!Live, Armed, PendingFor
<1>2. QED
  BY <1>1, TimersRun, TimersInvariant, PTL

-----------------------------------------------------------------------------
(* Snapshot *)

\* All blocks of the snapshot with this index up to this offset are saved.
SavedUpTo(n, offset) == \A o \in Sn!Offsets : o < offset => <<n, o>> \in saved

\* The call of the leader that is under way: its request or the answer to it.
UnderWay(m) == m.type \in {"append_resp", "install_resp"} \/ m.open

SnTypes ==
  /\ sn_start_idx \in [Sn!Server -> Nat] /\ sn_last \in [Sn!Server -> Nat]
  /\ sn_sm_commit_index \in [Sn!Server -> Nat] /\ sn_quick_commit_idx \in [Sn!Server -> Nat]
  /\ place \in [Sn!Server -> {"test", "add", "read", "apply"}]
  /\ tested \in [Sn!Server -> Nat] /\ last_snapshot \in [Sn!Server -> Nat]
  /\ sm_snapshot \in [Sn!Server -> Nat] /\ creating \in [Sn!Server -> Nat]
  /\ running \in [Sn!Server -> BOOLEAN]
  /\ next_log_idx \in Nat \ {0} /\ sn_busy \in BOOLEAN /\ pending_commit \in BOOLEAN
  /\ sync_ctx \in [snapshot : Nat, offset : Sn!Offsets]
  /\ sn_net \subseteq Sn!Message
  /\ installing \in [snapshot : Nat, applied : BOOLEAN, open : BOOLEAN]
  /\ saved \subseteq Nat \X Sn!Offsets /\ applied_snapshots \subseteq Nat /\ errors \in Nat

\* One call is under way at a time, and none when the peer is not busy: a message, or the
\* installation of the snapshot that the leader is sending.
OneCall ==
  /\ \A m \in sn_net : UnderWay(m) => /\ sn_busy /\ ~installing.open
                                      /\ \A n \in sn_net : UnderWay(n) => m = n
  /\ installing.open => sn_busy /\ sync_ctx.snapshot = installing.snapshot

\* A request asks what the leader still wants to know, and its answer takes the leader
\* on: back to where the follower's log ends, or to a block with all before it saved.
MessageOK(m) ==
  /\ m.type = "append" /\ m.open => m.last_log_idx = next_log_idx - 1
  /\ m.type = "append_resp" => /\ m.next_idx > 0
                               /\ ~m.accepted => m.next_idx < next_log_idx
  /\ m.type = "install" => /\ SavedUpTo(m.snapshot, m.offset)
                           /\ m.open => sync_ctx = [snapshot |-> m.snapshot, offset |-> m.offset]
  /\ m.type = "install_resp" /\ m.accepted
     => /\ m.next_idx >= SnapshotSize \/ m.next_idx \in Sn!Offsets
        /\ SavedUpTo(sync_ctx.snapshot, m.next_idx)

\* An installation under way has cut the log up to a snapshot all of which is saved, and
\* past apply_snapshot the state machine has it.
InstallOK ==
  Sn!Installing =>
    /\ sn_start_idx[Follower] - 1 = installing.snapshot
    /\ \A o \in Sn!Offsets : <<installing.snapshot, o>> \in saved
    /\ installing.applied => installing.snapshot <= sm_snapshot[Follower]

\* The leader's commit index only grows, as nothing is installed there, and its snapshots
\* are of what it has applied, each later than the last.
LeaderSnapshots ==
  /\ place[Leader] = "add" => tested[Leader] = sn_sm_commit_index[Leader]
  /\ last_snapshot[Leader] <= sn_sm_commit_index[Leader]
  /\ creating[Leader] <= sn_sm_commit_index[Leader]
  /\ creating[Leader] # 0 => last_snapshot[Leader] <= creating[Leader]

CallOK ==
  /\ OneCall /\ \A m \in sn_net : MessageOK(m)
  /\ SavedUpTo(sync_ctx.snapshot, sync_ctx.offset)

SnInv ==
  /\ SnTypes /\ CallOK /\ InstallOK
  /\ Sn!SnapshotIsWhole /\ Sn!CutIsInSnapshot /\ LeaderSnapshots

LEMMA SnapshotBounds ==
  /\ Leader # Follower /\ Sn!Server = {Leader, Follower}
  /\ Reserved \in Nat /\ MaxAppend \in Nat \ {0}
  /\ SnapshotSize \in Nat \ {0} /\ BlockSize \in Nat \ {0}
BY PartsAssumption DEF Sn!SnapshotAssumption, Sn!Server

\* Offsets are the multiples of the block size.
LEMMA Quotient ==
  ASSUME NEW B \in Nat \ {0}, NEW o \in Nat, o % B = 0 PROVE \E q \in Nat : o = q * B
<1>1. o = (o \div B) * B + (o % B) /\ o \div B \in Int
  OBVIOUS
<1>2. o = B * (o \div B)
  BY <1>1
<1>3. o \div B \in Nat
  BY <1>1, <1>2
<1>4. QED
  BY <1>1, <1>2, <1>3

LEMMA MultipleHasNoRest == ASSUME NEW B \in Nat \ {0}, NEW q \in Nat PROVE (q * B) % B = 0
OBVIOUS

LEMMA MultipleIsFar ==
  ASSUME NEW B \in Nat \ {0}, NEW q \in Nat, NEW r \in Nat, q * B < r * B
  PROVE  q * B + B <= r * B
<1>1. q < r
  OBVIOUS
<1>2. QED
  BY <1>1

LEMMA NextOffset ==
  ASSUME NEW o \in Sn!Offsets, o + BlockSize < SnapshotSize
  PROVE  o + BlockSize \in Sn!Offsets
<1>1. o \in Nat /\ o % BlockSize = 0
  BY SnapshotBounds DEF Sn!Offsets
<1>2. PICK q \in Nat : o = q * BlockSize
  BY <1>1, SnapshotBounds, Quotient
<1>3. o + BlockSize = (q + 1) * BlockSize
  BY <1>1, <1>2, SnapshotBounds
<1>4. ((q + 1) * BlockSize) % BlockSize = 0
  <2>1. q + 1 \in Nat
    OBVIOUS
  <2>2. QED
    BY <2>1, SnapshotBounds, MultipleHasNoRest
<1>5. (o + BlockSize) % BlockSize = 0
  BY <1>3, <1>4
<1>6. o + BlockSize \in 0 .. SnapshotSize - 1
  BY <1>1, SnapshotBounds
<1>7. QED
  BY <1>5, <1>6 DEF Sn!Offsets

LEMMA OffsetsApart ==
  ASSUME NEW o \in Sn!Offsets, NEW p \in Sn!Offsets, p < o + BlockSize PROVE p <= o
<1>1. o \in Nat /\ p \in Nat /\ o % BlockSize = 0 /\ p % BlockSize = 0
  BY SnapshotBounds DEF Sn!Offsets
<1>2. PICK q \in Nat : o = q * BlockSize
  BY <1>1, SnapshotBounds, Quotient
<1>3. PICK r \in Nat : p = r * BlockSize
  BY <1>1, SnapshotBounds, Quotient
<1>4. CASE o < p
  <2>1. o + BlockSize <= p
    BY <1>2, <1>3, <1>4, SnapshotBounds, MultipleIsFar
  <2>2. QED
    BY <1>1, <2>1, SnapshotBounds
<1>5. QED
  BY <1>1, <1>4

LEMMA OffsetTypes ==
  0 \in Sn!Offsets /\ \A o \in Sn!Offsets : o \in Nat /\ o < SnapshotSize
<1>1. 0 % BlockSize = 0
  <2>1. 0 * BlockSize = 0 /\ 0 \in Nat
    BY SnapshotBounds
  <2>2. QED
    BY <2>1, SnapshotBounds, MultipleHasNoRest
<1>2. QED
  BY <1>1, SnapshotBounds DEF Sn!Offsets

\* The fields of a message of each type
LEMMA MessageParts ==
  ASSUME NEW m \in Sn!Message
  PROVE  /\ m.type \in {"append", "install", "append_resp", "install_resp"}
         /\ m.type = "append" => /\ m.last_log_idx \in Nat /\ m.end \in Nat /\ m.commit \in Nat
                                 /\ m.open \in BOOLEAN
         /\ m.type = "install" => /\ m.snapshot \in Nat /\ m.offset \in Sn!Offsets
                                  /\ m.open \in BOOLEAN
         /\ m.type \in {"append_resp", "install_resp"}
            => m.accepted \in BOOLEAN /\ m.next_idx \in Nat
BY DEF Sn!Message

\* request_append_entries, called when no call is under way, starts one.
LEMMA RequestKeeps ==
  ASSUME SnTypes, saved' = saved, ~installing.open, installing' = installing, sn_last' \in [Sn!Server -> Nat],
         sn_quick_commit_idx' \in [Sn!Server -> Nat],
         NEW nxt \in Nat \ {0}, next_log_idx' = nxt,
         NEW ctx \in [snapshot : Nat, offset : Sn!Offsets],
         SavedUpTo(ctx.snapshot, ctx.offset),
         NEW rest \in SUBSET sn_net, \A m \in rest : ~UnderWay(m) /\ MessageOK(m),
         Sn!Request(nxt, ctx, rest) \/ Sn!Wait(nxt, ctx, rest)
  PROVE  /\ sync_ctx' \in [snapshot : Nat, offset : Sn!Offsets]
         /\ sn_busy' \in BOOLEAN /\ running' \in [Sn!Server -> BOOLEAN]
         /\ sn_net' \subseteq Sn!Message /\ CallOK'
<1> USE DEF CallOK
<1>1. \A m \in rest : m \in Sn!Message /\ MessageOK(m)'
  BY DEF MessageOK, UnderWay, SavedUpTo, SnTypes
<1>2. ASSUME NEW new, new \in Sn!Message, sn_net' = rest \cup {new}, sn_busy' = TRUE,
             MessageOK(new)'
      PROVE  /\ sn_net' \subseteq Sn!Message /\ OneCall' /\ (\A m \in sn_net' : MessageOK(m)')
             /\ sn_busy' \in BOOLEAN
  BY <1>1, <1>2 DEF OneCall, UnderWay
<1>3. ASSUME sn_net' = rest, sn_busy' \in BOOLEAN
      PROVE  sn_net' \subseteq Sn!Message /\ OneCall' /\ (\A m \in sn_net' : MessageOK(m)')
  BY <1>1, <1>3 DEF OneCall, UnderWay
<1>4. CASE Sn!SendEntries(nxt, ctx, rest)
  <2>1. PICK new : new = [type |-> "append", last_log_idx |-> nxt - 1,
                          end |-> Sn!Smaller(sn_last'[Leader], nxt - 1 + MaxAppend),
                          commit |-> sn_quick_commit_idx'[Leader], open |-> TRUE]
    OBVIOUS
  <2>2. /\ sn_net' = rest \cup {new} /\ sn_busy' = TRUE /\ running' = running
        /\ sync_ctx' = ctx
    BY <1>4, <2>1 DEF Sn!SendEntries
  <2>3. Sn!Smaller(sn_last'[Leader], nxt - 1 + MaxAppend) \in Nat
    BY SnapshotBounds DEF Sn!Smaller
  <2>4. new \in Sn!Message
    BY <2>1, <2>3, SnapshotBounds DEF Sn!Message
  <2>5. MessageOK(new)'
    BY <2>1 DEF MessageOK
  <2>6. SavedUpTo(sync_ctx.snapshot, sync_ctx.offset)'
    BY <2>2 DEF SavedUpTo
  <2>7. /\ sn_net' \subseteq Sn!Message /\ OneCall' /\ (\A m \in sn_net' : MessageOK(m)')
        /\ sn_busy' \in BOOLEAN
    BY <1>2, <2>2, <2>4, <2>5
  <2>8. QED
    BY <2>2, <2>6, <2>7 DEF SnTypes
<1>5. CASE Sn!SendBlock(nxt, ctx, rest)
  <2> DEFINE newer == ctx = Sn!NoCtx \/ last_snapshot[Leader] > ctx.snapshot
             c == IF newer THEN [snapshot |-> last_snapshot[Leader], offset |-> 0] ELSE ctx
  <2>1. PICK new : new = [type |-> "install", snapshot |-> c.snapshot, offset |-> c.offset,
                          open |-> TRUE]
    OBVIOUS
  <2>2. /\ sn_net' = rest \cup {new} /\ sn_busy' = TRUE /\ running' = running
        /\ sync_ctx' = c
    BY <1>5, <2>1 DEF Sn!SendBlock
  <2>3. c \in [snapshot : Nat, offset : Sn!Offsets]
    BY SnapshotBounds, OffsetTypes DEF SnTypes
  <2>4. SavedUpTo(c.snapshot, c.offset)
    BY OffsetTypes DEF SavedUpTo
  <2>5. c = [snapshot |-> c.snapshot, offset |-> c.offset]
    BY <2>3
  <2> HIDE DEF c
  <2>6. /\ new.type = "install" /\ new.snapshot = c.snapshot /\ new.offset = c.offset
        /\ new \in Sn!Message
    BY <2>1, <2>3 DEF Sn!Message
  <2>7. SavedUpTo(sync_ctx.snapshot, sync_ctx.offset)'
    BY <2>2, <2>4 DEF SavedUpTo
  <2>8. MessageOK(new)'
    <3>1. SavedUpTo(new.snapshot, new.offset)'
      BY <2>4, <2>6 DEF SavedUpTo
    <3>2. QED
      BY <2>2, <2>5, <2>6, <3>1 DEF MessageOK
  <2>9. /\ sn_net' \subseteq Sn!Message /\ OneCall' /\ (\A m \in sn_net' : MessageOK(m)')
        /\ sn_busy' \in BOOLEAN
    BY <1>2, <2>2, <2>6, <2>8
  <2>10. QED
    BY <2>2, <2>3, <2>7, <2>9 DEF SnTypes
<1>6. CASE Sn!CannotSend(nxt, ctx, rest) \/ Sn!Wait(nxt, ctx, rest)
  BY <1>3, <1>6 DEF Sn!CannotSend, Sn!Wait, Sn!Exit, SavedUpTo, SnTypes
<1>7. QED
  BY <1>4, <1>5, <1>6 DEF Sn!Request

LEMMA CallKept ==
  ASSUME CallOK, UNCHANGED <<sn_net, sn_busy, next_log_idx, saved, sync_ctx>>,
         installing'.open = installing.open, installing'.snapshot = installing.snapshot
  PROVE  CallOK'
BY DEF CallOK, OneCall, UnderWay, MessageOK, SavedUpTo

\* What a step keeps that leaves the logs' beginnings, the commit indexes, the snapshots
\* and the installation alone
LEMMA SnapshotsKept ==
  ASSUME SnInv, saved \subseteq saved',
         UNCHANGED <<sn_start_idx, sn_sm_commit_index, place, tested, last_snapshot,
                     sm_snapshot, creating, installing, applied_snapshots>>
  PROVE  InstallOK' /\ Sn!CutIsInSnapshot' /\ LeaderSnapshots' /\ Sn!SnapshotIsWhole'
BY DEF SnInv, InstallOK, Sn!Installing, Sn!NoInstall, Sn!CutIsInSnapshot, LeaderSnapshots,
       Sn!SnapshotIsWhole

\* ... or only the beginnings and the snapshots
LEMMA CutKept ==
  ASSUME SnInv, UNCHANGED <<sn_start_idx, last_snapshot, sm_snapshot, installing, saved,
                            applied_snapshots>>
  PROVE  InstallOK' /\ Sn!CutIsInSnapshot' /\ Sn!SnapshotIsWhole'
BY DEF SnInv, InstallOK, Sn!Installing, Sn!NoInstall, Sn!CutIsInSnapshot, Sn!SnapshotIsWhole

LEMMA SnTest == ASSUME SnInv, NEW s \in Sn!Server, Sn!Test(s) PROVE SnInv'
<1> USE DEF Sn!Test, Sn!logVars, Sn!snapshotVars, Sn!peerVars, Sn!history
<1>1. SnTypes'
  BY DEF SnInv, SnTypes
<1>2. LeaderSnapshots'
  BY SnapshotBounds DEF SnInv, SnTypes, LeaderSnapshots
<1>3. CallOK' /\ InstallOK' /\ Sn!CutIsInSnapshot' /\ Sn!SnapshotIsWhole'
  BY CallKept, CutKept DEF SnInv
<1>4. QED
  BY <1>1, <1>2, <1>3 DEF SnInv

LEMMA SnIncrement == ASSUME SnInv, NEW s \in Sn!Server, Sn!Increment(s) PROVE SnInv'
<1>1. PICK j \in {sn_sm_commit_index[s], tested[s]} :
        sn_sm_commit_index' = [sn_sm_commit_index EXCEPT ![s] = j + 1]
  BY DEF Sn!Increment
<1>2. /\ place[s] = "add" /\ place' = [place EXCEPT ![s] = "read"]
      /\ tested' = [tested EXCEPT ![s] = 0]
      /\ UNCHANGED <<sn_start_idx, sn_last, sn_quick_commit_idx, last_snapshot, sm_snapshot,
                     creating, running, next_log_idx, sn_busy, pending_commit, sync_ctx,
                     sn_net, installing, saved, applied_snapshots, errors>>
  BY DEF Sn!Increment, Sn!logVars, Sn!snapshotVars, Sn!peerVars, Sn!history
<1>3. j \in Nat
  BY <1>1 DEF SnInv, SnTypes
<1>4. SnTypes'
  BY <1>1, <1>2, <1>3 DEF SnInv, SnTypes
<1>5. LeaderSnapshots'
  <2>1. s = Leader => j = sn_sm_commit_index[Leader]
    BY <1>1, <1>2 DEF SnInv, LeaderSnapshots
  <2>2. /\ place'[Leader] # "add" \/ s # Leader
        /\ s # Leader => UNCHANGED <<place[Leader], tested[Leader], sn_sm_commit_index[Leader]>>
        /\ s = Leader => sn_sm_commit_index'[Leader] = sn_sm_commit_index[Leader] + 1
    BY <1>1, <1>2, <2>1, SnapshotBounds DEF SnInv, SnTypes
  <2>3. QED
    BY <1>2, <2>2, SnapshotBounds DEF SnInv, SnTypes, LeaderSnapshots
<1>6. CallOK' /\ InstallOK' /\ Sn!CutIsInSnapshot' /\ Sn!SnapshotIsWhole'
  BY <1>2, CallKept, CutKept DEF SnInv
<1>7. QED
  BY <1>4, <1>5, <1>6 DEF SnInv

LEMMA SnRead == ASSUME SnInv, NEW s \in Sn!Server, Sn!Read(s) PROVE SnInv'
<1>1. /\ place[s] = "read"
      /\ place' = [place EXCEPT ![s] = "apply"] \/ place' = place
      /\ running' = running \/ running' = [running EXCEPT ![s] = FALSE]
      /\ UNCHANGED <<sn_start_idx, sn_last, sn_sm_commit_index, sn_quick_commit_idx, tested,
                     last_snapshot, sm_snapshot, creating, next_log_idx, sn_busy,
                     pending_commit, sync_ctx, sn_net, installing, saved, applied_snapshots,
                     errors>>
  BY DEF Sn!Read, Sn!Exit, Sn!logVars, Sn!snapshotVars, Sn!peerVars, Sn!history
<1>2. SnTypes'
  BY <1>1 DEF SnInv, SnTypes
<1>3. LeaderSnapshots'
  BY <1>1, SnapshotBounds DEF SnInv, SnTypes, LeaderSnapshots
<1>4. CallOK' /\ InstallOK' /\ Sn!CutIsInSnapshot' /\ Sn!SnapshotIsWhole'
  BY <1>1, CallKept, CutKept DEF SnInv
<1>5. QED
  BY <1>2, <1>3, <1>4 DEF SnInv

LEMMA SnApplyEntry == ASSUME SnInv, NEW s \in Sn!Server, Sn!ApplyEntry(s) PROVE SnInv'
<1> USE DEF Sn!ApplyEntry, Sn!logVars, Sn!peerVars, Sn!history
<1>1. SnTypes'
  BY DEF SnInv, SnTypes
<1>2. LeaderSnapshots'
  BY SnapshotBounds DEF SnInv, SnTypes, LeaderSnapshots
<1>3. CallOK' /\ InstallOK' /\ Sn!CutIsInSnapshot' /\ Sn!SnapshotIsWhole'
  BY CallKept, CutKept DEF SnInv
<1>4. QED
  BY <1>1, <1>2, <1>3 DEF SnInv

LEMMA SnSnapshotTaken == ASSUME SnInv, NEW s \in Sn!Server, Sn!SnapshotTaken(s) PROVE SnInv'
<1> USE DEF Sn!SnapshotTaken, Sn!logVars, Sn!commitVars, Sn!peerVars, Sn!history
<1>1. SnTypes'
  BY DEF SnInv, SnTypes
<1>2. \A t \in Sn!Server : sm_snapshot[t] <= sm_snapshot'[t]
  BY DEF SnInv, SnTypes
<1>3. Sn!CutIsInSnapshot' /\ InstallOK'
  BY <1>1, <1>2, SnapshotBounds DEF SnInv, SnTypes, Sn!CutIsInSnapshot, InstallOK,
     Sn!Installing, Sn!NoInstall
<1>4. LeaderSnapshots'
  BY DEF SnInv, SnTypes, LeaderSnapshots
<1>5. CallOK' /\ Sn!SnapshotIsWhole'
  BY CallKept DEF SnInv, Sn!SnapshotIsWhole
<1>6. QED
  BY <1>1, <1>3, <1>4, <1>5 DEF SnInv

LEMMA SnSnapshotFailed == ASSUME SnInv, NEW s \in Sn!Server, Sn!SnapshotFailed(s) PROVE SnInv'
<1> USE DEF Sn!SnapshotFailed, Sn!logVars, Sn!commitVars, Sn!peerVars
<1>1. SnTypes'
  BY DEF SnInv, SnTypes
<1>2. LeaderSnapshots'
  BY SnapshotBounds DEF SnInv, SnTypes, LeaderSnapshots
<1>3. CallOK' /\ InstallOK' /\ Sn!CutIsInSnapshot' /\ Sn!SnapshotIsWhole'
  BY CallKept, CutKept DEF SnInv
<1>4. QED
  BY <1>1, <1>2, <1>3 DEF SnInv

LEMMA SnCompleted ==
  ASSUME SnInv, NEW s \in Sn!Server, Sn!on_snapshot_completed(s)
  PROVE  SnInv'
<1> DEFINE cut == creating[s] - Reserved
<1>1. /\ creating[s] # 0 /\ creating' = [creating EXCEPT ![s] = 0]
      /\ sm_snapshot[s] >= creating[s] /\ (s = Follower => ~Sn!Installing)
      /\ last_snapshot' = [last_snapshot EXCEPT ![s] = creating[s]]
      /\ UNCHANGED <<sn_sm_commit_index, sn_quick_commit_idx, place, tested, sm_snapshot,
                     next_log_idx, sn_busy, pending_commit, sync_ctx, sn_net, installing,
                     saved, applied_snapshots>>
      /\ running' = running \/ running' = [running EXCEPT ![s] = FALSE]
      /\ errors' = errors \/ errors' = errors + 1
      /\ \/ /\ cut >= sn_start_idx[s]
            /\ sn_start_idx' = [sn_start_idx EXCEPT ![s] = cut + 1]
            /\ sn_last' = [sn_last EXCEPT ![s] = Sn!Larger(@, cut)]
         \/ UNCHANGED <<sn_start_idx, sn_last>>
  BY DEF Sn!on_snapshot_completed, Sn!commitVars, Sn!logVars, Sn!peerVars, Sn!Exit
<1>2. /\ creating[s] \in Nat /\ cut \in Int /\ cut <= creating[s]
      /\ sn_start_idx[s] \in Nat /\ sn_last[s] \in Nat /\ sm_snapshot[s] \in Nat
  BY SnapshotBounds DEF SnInv, SnTypes
<1> HIDE DEF cut
<1>3. SnTypes'
  <2>1. sn_start_idx' \in [Sn!Server -> Nat] /\ sn_last' \in [Sn!Server -> Nat]
    BY <1>1, <1>2 DEF SnInv, SnTypes, Sn!Larger
  <2>2. /\ running' \in [Sn!Server -> BOOLEAN] /\ creating' \in [Sn!Server -> Nat]
        /\ last_snapshot' \in [Sn!Server -> Nat] /\ errors' \in Nat
    <3>1. errors \in Nat
      BY DEF SnInv, SnTypes
    <3>2. errors' \in Nat
      BY <1>1, <3>1
    <3>3. /\ running' \in [Sn!Server -> BOOLEAN] /\ creating' \in [Sn!Server -> Nat]
          /\ last_snapshot' \in [Sn!Server -> Nat]
      <4>1. running' \in [Sn!Server -> BOOLEAN]
        BY <1>1 DEF SnInv, SnTypes
      <4>2. creating' \in [Sn!Server -> Nat] /\ last_snapshot' \in [Sn!Server -> Nat]
        BY <1>1, <1>2 DEF SnInv, SnTypes
      <4>3. QED
        BY <4>1, <4>2
    <3>4. QED
      BY <3>2, <3>3
  <2>3. QED
    BY <1>1, <2>1, <2>2 DEF SnInv, SnTypes
<1>4. LeaderSnapshots'
  BY <1>1, <1>2, SnapshotBounds DEF SnInv, SnTypes, LeaderSnapshots
<1>5. Sn!CutIsInSnapshot'
  <2>1. ASSUME NEW t \in Sn!Server
        PROVE  \/ sn_start_idx'[t] - 1 <= sm_snapshot'[t]
               \/ /\ t = Follower /\ Sn!Installing'
                  /\ sn_start_idx'[t] - 1 = installing'.snapshot
                  /\ \A o \in Sn!Offsets : <<installing'.snapshot, o>> \in saved'
    <3>1. CASE t = s
      <4>1. sn_start_idx[s] - 1 <= sm_snapshot[s]
        BY <1>1 DEF SnInv, Sn!CutIsInSnapshot
      <4>2. QED
        BY <1>1, <1>2, <3>1, <4>1 DEF SnInv, SnTypes
    <3>2. CASE t # s
      <4>1. sn_start_idx'[t] = sn_start_idx[t]
        BY <1>1, <3>2 DEF SnInv, SnTypes
      <4>2. QED
        BY <1>1, <4>1 DEF SnInv, Sn!CutIsInSnapshot, Sn!Installing, Sn!NoInstall
    <3>3. QED
      BY <3>1, <3>2
  <2>2. sn_start_idx'[Leader] - 1 <= last_snapshot'[Leader]
    <3>1. s = Leader => last_snapshot[Leader] <= creating[Leader]
      BY <1>1 DEF SnInv, LeaderSnapshots
    <3>2. QED
      BY <1>1, <1>2, <3>1, SnapshotBounds DEF SnInv, SnTypes, Sn!CutIsInSnapshot
  <2>3. QED
    BY <2>1, <2>2 DEF Sn!CutIsInSnapshot, Sn!Installing
<1>6. InstallOK'
  <2>1. Sn!Installing => sn_start_idx'[Follower] = sn_start_idx[Follower]
    BY <1>1, SnapshotBounds DEF SnInv, SnTypes
  <2>2. QED
    BY <1>1, <2>1 DEF SnInv, InstallOK, Sn!Installing, Sn!NoInstall
<1>7. CallOK' /\ Sn!SnapshotIsWhole'
  BY <1>1, CallKept DEF SnInv, Sn!SnapshotIsWhole
<1>8. QED
  BY <1>3, <1>4, <1>5, <1>6, <1>7 DEF SnInv

\* A request that is not for the call under way is as it was.
LEMMA OthersIdle ==
  ASSUME CallOK, NEW m \in sn_net, UnderWay(m)
  PROVE  ~installing.open /\ \A n \in sn_net \ {m} : ~UnderWay(n) /\ MessageOK(n)
BY DEF CallOK, OneCall

LEMMA SnClientRequest == ASSUME SnInv, Sn!ClientRequest PROVE SnInv'
<1>1. /\ sn_last' = [sn_last EXCEPT ![Leader] = @ + 1]
      /\ sn_quick_commit_idx' = [sn_quick_commit_idx EXCEPT ![Leader] = sn_last[Leader] + 1]
      /\ UNCHANGED <<sn_start_idx, sn_sm_commit_index, place, tested, last_snapshot,
                     sm_snapshot, creating, next_log_idx, installing, saved,
                     applied_snapshots, errors>>
  BY DEF Sn!ClientRequest, Sn!snapshotVars, Sn!history
<1>2. /\ sn_last' \in [Sn!Server -> Nat] /\ sn_quick_commit_idx' \in [Sn!Server -> Nat]
  BY <1>1, SnapshotBounds DEF SnInv, SnTypes
<1>3. SnTypes' /\ CallOK'
  <2>1. CASE sn_busy
    <3>1. pending_commit' = TRUE /\ UNCHANGED <<sn_busy, sync_ctx, sn_net, running>>
      BY <2>1 DEF Sn!ClientRequest
    <3>2. QED
      BY <1>1, <1>2, <3>1, CallKept DEF SnInv, SnTypes
  <2>2. CASE ~sn_busy
    <3>1. Sn!Request(next_log_idx, sync_ctx, sn_net) /\ pending_commit' = pending_commit
      BY <2>2 DEF Sn!ClientRequest
    <3>2. ~installing.open /\ \A m \in sn_net : ~UnderWay(m) /\ MessageOK(m)
      BY <2>2 DEF SnInv, CallOK, OneCall
    <3>3. /\ SnTypes /\ saved' = saved /\ installing' = installing /\ next_log_idx \in Nat \ {0}
          /\ next_log_idx' = next_log_idx /\ sn_net \in SUBSET sn_net
          /\ sync_ctx \in [snapshot : Nat, offset : Sn!Offsets]
          /\ SavedUpTo(sync_ctx.snapshot, sync_ctx.offset)
      BY <1>1 DEF SnInv, SnTypes, CallOK
    <3>4. /\ sync_ctx' \in [snapshot : Nat, offset : Sn!Offsets]
          /\ sn_busy' \in BOOLEAN /\ running' \in [Sn!Server -> BOOLEAN]
          /\ sn_net' \subseteq Sn!Message /\ CallOK'
      BY <1>2, <3>1, <3>2, <3>3, RequestKeeps
    <3>5. QED
      BY <1>1, <1>2, <3>1, <3>4 DEF SnInv, SnTypes
  <2>3. QED
    BY <2>1, <2>2
<1>4. InstallOK' /\ Sn!CutIsInSnapshot' /\ LeaderSnapshots' /\ Sn!SnapshotIsWhole'
  BY <1>1, SnapshotsKept
<1>5. QED
  BY <1>3, <1>4 DEF SnInv

\* The steps of the leader that touch only its peer object
LEMMA PeerStep ==
  ASSUME SnInv,
         UNCHANGED <<sn_start_idx, sn_last, sn_sm_commit_index, sn_quick_commit_idx, place,
                     tested, last_snapshot, sm_snapshot, creating, installing, saved,
                     applied_snapshots, errors>>,
         ~installing.open,
         pending_commit' \in BOOLEAN,
         NEW nxt \in Nat \ {0}, next_log_idx' = nxt,
         NEW ctx \in [snapshot : Nat, offset : Sn!Offsets],
         SavedUpTo(ctx.snapshot, ctx.offset),
         NEW rest \in SUBSET sn_net, \A m \in rest : ~UnderWay(m) /\ MessageOK(m),
         Sn!Request(nxt, ctx, rest) \/ Sn!Wait(nxt, ctx, rest)
  PROVE  SnInv'
<1>1. SnTypes /\ sn_last' \in [Sn!Server -> Nat] /\ sn_quick_commit_idx' \in [Sn!Server -> Nat]
  BY DEF SnInv, SnTypes
<1>2. /\ sync_ctx' \in [snapshot : Nat, offset : Sn!Offsets]
      /\ sn_busy' \in BOOLEAN /\ running' \in [Sn!Server -> BOOLEAN]
      /\ sn_net' \subseteq Sn!Message /\ CallOK'
  BY <1>1, RequestKeeps
<1>3. SnTypes'
  BY <1>2 DEF SnInv, SnTypes
<1>4. InstallOK' /\ Sn!CutIsInSnapshot' /\ LeaderSnapshots' /\ Sn!SnapshotIsWhole'
  BY SnapshotsKept
<1>5. QED
  BY <1>2, <1>3, <1>4 DEF SnInv

LEMMA SnHbTimeout == ASSUME SnInv, Sn!HbTimeout PROVE SnInv'
<1>1. /\ UNCHANGED <<sn_start_idx, sn_last, sn_sm_commit_index, sn_quick_commit_idx, place,
                     tested, last_snapshot, sm_snapshot, creating, installing, saved,
                     applied_snapshots, errors>>
      /\ ~sn_busy /\ next_log_idx' = next_log_idx /\ pending_commit' = pending_commit
      /\ Sn!Request(next_log_idx, sync_ctx, sn_net)
  BY DEF Sn!HbTimeout, Sn!logVars, Sn!commitVars, Sn!snapshotVars, Sn!history
<1>2. ~installing.open /\ \A m \in sn_net : ~UnderWay(m) /\ MessageOK(m)
  BY <1>1 DEF SnInv, CallOK, OneCall
<1>3. /\ pending_commit' \in BOOLEAN /\ next_log_idx \in Nat \ {0} /\ sn_net \in SUBSET sn_net
      /\ sync_ctx \in [snapshot : Nat, offset : Sn!Offsets]
      /\ SavedUpTo(sync_ctx.snapshot, sync_ctx.offset)
  BY <1>1 DEF SnInv, SnTypes, CallOK
<1>4. QED
  BY <1>1, <1>2, <1>3, PeerStep

LEMMA SnHandleAppendResp ==
  ASSUME SnInv, NEW m \in sn_net, Sn!HandleAppendResp(m) PROVE SnInv'
<1> DEFINE rest == sn_net \ {m}
<1>1. /\ m.type = "append_resp"
      /\ UNCHANGED <<sn_start_idx, sn_last, sn_sm_commit_index, sn_quick_commit_idx, place,
                     tested, last_snapshot, sm_snapshot, creating, installing, saved,
                     applied_snapshots, errors>>
      /\ next_log_idx' = IF m.accepted \/ (m.next_idx > 0 /\ next_log_idx > m.next_idx)
                         THEN m.next_idx ELSE next_log_idx - 1
      /\ pending_commit' = (pending_commit /\ ~m.accepted)
      /\ Sn!Request(next_log_idx', sync_ctx, rest) \/ Sn!Wait(next_log_idx', sync_ctx, rest)
  BY DEF Sn!HandleAppendResp, Sn!logVars, Sn!commitVars, Sn!snapshotVars, Sn!history
<1>2. ~installing.open /\ \A n \in rest : ~UnderWay(n) /\ MessageOK(n)
  BY <1>1, OthersIdle DEF SnInv, UnderWay
<1>3. m.accepted \in BOOLEAN /\ m.next_idx \in Nat
  BY <1>1, MessageParts DEF SnInv, SnTypes
<1>4. m.next_idx > 0 /\ (~m.accepted => m.next_idx < next_log_idx)
  BY <1>1 DEF SnInv, CallOK, MessageOK
<1>5. next_log_idx' \in Nat \ {0}
  BY <1>1, <1>3, <1>4
<1>6. /\ pending_commit' \in BOOLEAN /\ rest \in SUBSET sn_net
      /\ sync_ctx \in [snapshot : Nat, offset : Sn!Offsets]
      /\ SavedUpTo(sync_ctx.snapshot, sync_ctx.offset)
  BY <1>1 DEF SnInv, SnTypes, CallOK
<1> HIDE DEF rest
<1>7. PICK nxt \in Nat \ {0} : nxt = next_log_idx'
  BY <1>5
<1>8. QED
  BY <1>1, <1>2, <1>6, <1>7, PeerStep

LEMMA SnHandleInstallResp ==
  ASSUME SnInv, NEW m \in sn_net, Sn!HandleInstallResp(m) PROVE SnInv'
<1> DEFINE dropped == m.accepted /\ sync_ctx = Sn!NoCtx
           done == m.accepted /\ ~dropped /\ m.next_idx >= SnapshotSize
           nxt == IF done THEN sync_ctx.snapshot + 1 ELSE next_log_idx
           ctx == IF done THEN Sn!NoCtx
                  ELSE IF m.accepted /\ ~dropped THEN [sync_ctx EXCEPT !.offset = m.next_idx]
                  ELSE sync_ctx
           rest == sn_net \ {m}
<1>1. /\ m.type = "install_resp" /\ next_log_idx' = nxt
      /\ UNCHANGED <<sn_start_idx, sn_last, sn_sm_commit_index, sn_quick_commit_idx, place,
                     tested, last_snapshot, sm_snapshot, creating, installing, saved,
                     applied_snapshots, errors>>
      /\ pending_commit' = (pending_commit /\ ~done)
      /\ Sn!Request(nxt, ctx, rest) \/ Sn!Wait(nxt, ctx, rest)
  BY DEF Sn!HandleInstallResp, Sn!logVars, Sn!commitVars, Sn!snapshotVars, Sn!history
<1>2. ~installing.open /\ \A n \in rest : ~UnderWay(n) /\ MessageOK(n)
  BY <1>1, OthersIdle DEF SnInv, UnderWay
<1>3. m.accepted \in BOOLEAN /\ m.next_idx \in Nat
  BY <1>1, MessageParts DEF SnInv, SnTypes
<1>4. /\ sync_ctx \in [snapshot : Nat, offset : Sn!Offsets] /\ next_log_idx \in Nat \ {0}
      /\ SavedUpTo(sync_ctx.snapshot, sync_ctx.offset) /\ pending_commit \in BOOLEAN
  BY DEF SnInv, SnTypes, CallOK
<1>5. m.accepted => /\ m.next_idx >= SnapshotSize \/ m.next_idx \in Sn!Offsets
                    /\ SavedUpTo(sync_ctx.snapshot, m.next_idx)
  BY <1>1 DEF SnInv, CallOK, MessageOK
<1>6. /\ ctx \in [snapshot : Nat, offset : Sn!Offsets] /\ SavedUpTo(ctx.snapshot, ctx.offset)
  <2>1. CASE done
    BY <2>1, OffsetTypes DEF Sn!NoCtx, SavedUpTo
  <2>2. CASE ~done /\ m.accepted /\ ~dropped
    <3>1. m.next_idx \in Sn!Offsets
      BY <1>3, <1>5, <2>2, SnapshotBounds
    <3>2. /\ ctx = [sync_ctx EXCEPT !.offset = m.next_idx]
      BY <2>2
    <3>3. ctx.snapshot = sync_ctx.snapshot /\ ctx.offset = m.next_idx
      BY <1>4, <3>2
    <3>4. QED
      BY <1>4, <1>5, <2>2, <3>1, <3>2, <3>3
  <2>3. CASE ~done /\ ~(m.accepted /\ ~dropped)
    BY <1>4, <2>3
  <2>4. QED
    BY <2>1, <2>2, <2>3
<1>7. nxt \in Nat \ {0} /\ rest \in SUBSET sn_net /\ pending_commit' \in BOOLEAN
  BY <1>1, <1>3, <1>4
<1> HIDE DEF dropped, done, nxt, ctx, rest
<1>8. QED
  BY <1>1, <1>2, <1>6, <1>7, PeerStep

\* The follower answers a request that the leader still waits for, and drops another.
LEMMA ReplyKeeps ==
  ASSUME SnTypes, CallOK, NEW m \in sn_net, m.type \in {"append", "install"},
         saved \subseteq saved', UNCHANGED <<next_log_idx, sn_busy, sync_ctx, installing>>,
         NEW a \in Sn!Message, a.type \in {"append_resp", "install_resp"},
         m.open => MessageOK(a)',
         \/ sn_net' = (sn_net \ {m}) \cup (IF m.open THEN {a} ELSE {})
         \/ sn_net' = sn_net \ {m}
  PROVE  sn_net' \subseteq Sn!Message /\ CallOK'
<1>1. \A n \in sn_net : MessageOK(n)'
  BY DEF CallOK, MessageOK, SavedUpTo
<1>2. \A n \in sn_net' : n \in sn_net \ {m} \/ (m.open /\ n = a)
  OBVIOUS
<1>3. sn_net' \subseteq Sn!Message /\ \A n \in sn_net' : MessageOK(n)'
  BY <1>1, <1>2 DEF SnTypes
<1>4. m.open => UnderWay(m)
  BY DEF UnderWay
<1>5. OneCall'
  <2>1. CASE m.open
    <3>1. sn_busy /\ ~installing.open /\ \A n \in sn_net \ {m} : ~UnderWay(n)
      BY <1>4, <2>1 DEF CallOK, OneCall
    <3>2. QED
      BY <1>2, <3>1 DEF OneCall, UnderWay
  <2>2. CASE ~m.open
    BY <1>2, <2>2 DEF CallOK, OneCall, UnderWay
  <2>3. QED
    BY <2>1, <2>2
<1>6. SavedUpTo(sync_ctx.snapshot, sync_ctx.offset)'
  BY DEF CallOK, SavedUpTo
<1>7. QED
  BY <1>3, <1>5, <1>6 DEF CallOK

LEMMA Answers ==
  ASSUME NEW type \in {"append_resp", "install_resp"}, NEW ok \in BOOLEAN, NEW next \in Nat
  PROVE  LET a == [type |-> type, accepted |-> ok, next_idx |-> next] IN
         a \in Sn!Message /\ a.type = type /\ a.accepted = ok /\ a.next_idx = next
BY DEF Sn!Message

LEMMA SnHandleAppend == ASSUME SnInv, NEW m \in sn_net, Sn!HandleAppend(m) PROVE SnInv'
<1> DEFINE okay == m.last_log_idx <= sn_last[Follower]
           next == IF okay THEN m.end + 1 ELSE sn_last[Follower] + 1
<1>1. /\ m.type = "append"
      /\ UNCHANGED <<sn_start_idx, sn_sm_commit_index, place, tested, last_snapshot,
                     sm_snapshot, creating, next_log_idx, sn_busy, pending_commit, sync_ctx,
                     installing, saved, applied_snapshots, errors>>
  BY DEF Sn!HandleAppend, Sn!snapshotVars, Sn!peerVars, Sn!history
<1>2. /\ m.last_log_idx \in Nat /\ m.end \in Nat /\ m.commit \in Nat
      /\ sn_last[Follower] \in Nat /\ sn_quick_commit_idx[Follower] \in Nat
  BY <1>1, MessageParts, SnapshotBounds DEF SnInv, SnTypes
<1>3. okay \in BOOLEAN /\ next \in Nat
  BY <1>2
<1>4. PICK a : a = [type |-> "append_resp", accepted |-> okay, next_idx |-> next]
  OBVIOUS
<1>5. a \in Sn!Message /\ a.type = "append_resp" /\ a.accepted = okay /\ a.next_idx = next
  BY <1>3, <1>4, Answers
<1>6. m.open => MessageOK(a)'
  <2> SUFFICES ASSUME m.open PROVE next > 0 /\ (~okay => next < next_log_idx)
    BY <1>1, <1>5 DEF MessageOK
  <2>1. m.last_log_idx = next_log_idx - 1 /\ next_log_idx \in Nat
    BY <1>1 DEF SnInv, SnTypes, CallOK, MessageOK
  <2>2. QED
    BY <1>2, <2>1
<1>7. \/ sn_net' = (sn_net \ {m}) \cup (IF m.open THEN {a} ELSE {})
      \/ sn_net' = sn_net \ {m}
  <2>1. CASE okay
    <3>1. a = [type |-> "append_resp", accepted |-> TRUE, next_idx |-> m.end + 1]
      BY <1>4, <2>1
    <3>2. QED
      BY <2>1, <3>1 DEF Sn!HandleAppend, Sn!Reply
  <2>2. CASE ~okay
    <3>1. a = [type |-> "append_resp", accepted |-> FALSE,
               next_idx |-> sn_last[Follower] + 1]
      <4>1. okay = FALSE /\ next = sn_last[Follower] + 1
        BY <2>2
      <4> HIDE DEF okay, next
      <4>2. QED
        BY <1>4, <4>1
    <3>2. QED
      BY <2>2, <3>1 DEF Sn!HandleAppend, Sn!Reply
  <2>3. QED
    BY <2>1, <2>2
<1>8. sn_net' \subseteq Sn!Message /\ CallOK'
  BY <1>1, <1>5, <1>6, <1>7, ReplyKeeps DEF SnInv
<1>9. /\ sn_last' \in [Sn!Server -> Nat] /\ sn_quick_commit_idx' \in [Sn!Server -> Nat]
      /\ running' \in [Sn!Server -> BOOLEAN]
  BY <1>2 DEF Sn!HandleAppend, Sn!Exit, Sn!Larger, SnInv, SnTypes
<1>10. SnTypes'
  BY <1>1, <1>8, <1>9 DEF SnInv, SnTypes
<1>11. InstallOK' /\ Sn!CutIsInSnapshot' /\ LeaderSnapshots' /\ Sn!SnapshotIsWhole'
  BY <1>1, SnapshotsKept
<1>12. QED
  BY <1>8, <1>10, <1>11 DEF SnInv

\* With the block of this request all up to the next are saved.
LEMMA BlockSaved ==
  ASSUME NEW n, NEW offset \in Sn!Offsets, SavedUpTo(n, offset),
         saved' = saved \cup {<<n, offset>>}, NEW o \in Sn!Offsets, o < offset + BlockSize
  PROVE  <<n, o>> \in saved'
<1>1. o <= offset /\ o \in Nat /\ offset \in Nat
  BY OffsetsApart, OffsetTypes
<1>2. QED
  BY <1>1 DEF SavedUpTo

LEMMA SnHandleInstall == ASSUME SnInv, NEW m \in sn_net, Sn!HandleInstall(m) PROVE SnInv'
<1> DEFINE refused == m.snapshot <= sn_sm_commit_index[Follower]
           done == m.offset + BlockSize >= SnapshotSize
           Answer(ok, next) == [type |-> "install_resp", accepted |-> ok, next_idx |-> next]
           Cut == /\ ~refused /\ done /\ m.snapshot >= sn_start_idx[Follower]
                  /\ sn_start_idx' = [sn_start_idx EXCEPT ![Follower] = m.snapshot + 1]
                  /\ sn_last' = [sn_last EXCEPT ![Follower] = Sn!Larger(@, m.snapshot)]
                  /\ installing' = [snapshot |-> m.snapshot, applied |-> FALSE,
                                    open |-> m.open]
                  /\ sn_net' = sn_net \ {m} /\ UNCHANGED <<running, errors>>
<1>1. m.type = "install" /\ m.snapshot \in Nat /\ m.offset \in Sn!Offsets /\ m.offset \in Nat
      /\ m.open \in BOOLEAN
  BY MessageParts, OffsetTypes DEF Sn!HandleInstall, SnInv, SnTypes
<1>2. /\ ~Sn!Installing
      /\ saved' = IF refused THEN saved ELSE saved \cup {<<m.snapshot, m.offset>>}
      /\ UNCHANGED <<sn_sm_commit_index, sn_quick_commit_idx, place, tested, last_snapshot,
                     sm_snapshot, creating, next_log_idx, sn_busy, pending_commit, sync_ctx,
                     applied_snapshots>>
      /\ \/ Cut
         \/ /\ UNCHANGED <<sn_start_idx, sn_last, installing>>
            /\ running' = running \/ running' = [running EXCEPT ![Follower] = FALSE]
            /\ errors' = errors \/ errors' = errors + 1
            /\ \/ Sn!Reply(m, "install_resp", FALSE, 0)
               \/ ~refused /\ ~done /\ Sn!Reply(m, "install_resp", TRUE, m.offset + BlockSize)
               \/ sn_net' = sn_net \ {m}
  BY DEF Sn!HandleInstall, Sn!commitVars, Sn!snapshotVars, Sn!peerVars, Sn!logVars, Sn!Exit
<1>3. SavedUpTo(m.snapshot, m.offset)
  BY <1>1 DEF SnInv, CallOK, MessageOK
<1>4. saved \subseteq saved' /\ saved' \subseteq Nat \X Sn!Offsets
  BY <1>1, <1>2 DEF SnInv, SnTypes
<1>5. ~refused => \A o \in Sn!Offsets : o < m.offset + BlockSize => <<m.snapshot, o>> \in saved'
  BY <1>1, <1>2, <1>3, BlockSaved
<1>6. m.open => sync_ctx.snapshot = m.snapshot
  BY <1>1 DEF SnInv, CallOK, MessageOK
<1>7. CASE Cut
  <2>1. \A o \in Sn!Offsets : <<m.snapshot, o>> \in saved'
    <3>1. \A o \in Sn!Offsets : o < m.offset + BlockSize
      BY <1>1, <1>7, OffsetTypes, SnapshotBounds
    <3>2. QED
      BY <1>5, <1>7, <3>1
  <2> HIDE DEF refused, done
  <2>2. /\ installing'.snapshot = m.snapshot /\ installing'.open = m.open
        /\ ~installing'.applied
        /\ installing' \in [snapshot : Nat, applied : BOOLEAN, open : BOOLEAN]
    BY <1>1, <1>7
  <2>3. /\ sn_start_idx'[Follower] = m.snapshot + 1
        /\ sn_start_idx'[Leader] = sn_start_idx[Leader]
    BY <1>7, SnapshotBounds DEF SnInv, SnTypes
  <2>4. CallOK'
    <3>1. \A n \in sn_net' : MessageOK(n)'
      BY <1>2, <1>4, <1>7 DEF SnInv, CallOK, MessageOK, SavedUpTo
    <3>2. OneCall'
      <4>1. CASE m.open
        <5>1. UnderWay(m)
          BY <4>1 DEF UnderWay
        <5>2. sn_busy /\ \A n \in sn_net' : ~UnderWay(n)
          BY <1>7, <5>1 DEF SnInv, CallOK, OneCall
        <5>3. QED
          BY <1>2, <1>6, <2>2, <4>1, <5>2 DEF OneCall, UnderWay
      <4>2. CASE ~m.open
        BY <1>2, <1>7, <2>2, <4>2 DEF SnInv, CallOK, OneCall, UnderWay
      <4>3. QED
        BY <4>1, <4>2
    <3>3. SavedUpTo(sync_ctx.snapshot, sync_ctx.offset)'
      BY <1>2, <1>4 DEF SnInv, CallOK, SavedUpTo
    <3>4. QED
      BY <3>1, <3>2, <3>3 DEF CallOK
  <2>5. SnTypes'
    <3>1. Sn!Larger(sn_last[Follower], m.snapshot) \in Nat
      BY <1>1, SnapshotBounds DEF SnInv, SnTypes, Sn!Larger
    <3>2. sn_start_idx' \in [Sn!Server -> Nat] /\ sn_last' \in [Sn!Server -> Nat]
      <4>1. /\ sn_start_idx' = [sn_start_idx EXCEPT ![Follower] = m.snapshot + 1]
            /\ sn_last' = [sn_last EXCEPT ![Follower] = Sn!Larger(@, m.snapshot)]
        BY <1>7
      <4>2. sn_start_idx \in [Sn!Server -> Nat] /\ sn_last \in [Sn!Server -> Nat]
        BY DEF SnInv, SnTypes
      <4>3. m.snapshot + 1 \in Nat
        BY <1>1
      <4>4. sn_start_idx' \in [Sn!Server -> Nat]
        BY <4>1, <4>2, <4>3
      <4> HIDE DEF Cut
      <4>5. sn_last' \in [Sn!Server -> Nat]
        BY <3>1, <4>1, <4>2
      <4>6. QED
        BY <4>4, <4>5
    <3>3. sn_net' \subseteq Sn!Message /\ running' = running /\ errors' = errors
      BY <1>7 DEF SnInv, SnTypes
    <3>4. QED
      BY <1>2, <1>4, <2>2, <3>2, <3>3 DEF SnInv, SnTypes
  <2>6. InstallOK'
    BY <1>1, <2>1, <2>2, <2>3 DEF InstallOK
  <2>7. Sn!CutIsInSnapshot'
    <3>1. Sn!Installing' /\ sn_start_idx'[Follower] - 1 = installing'.snapshot
      <4>1. m.snapshot # 0
        BY <1>1, <1>7, SnapshotBounds DEF SnInv, SnTypes, refused
      <4>2. QED
        BY <1>1, <2>2, <2>3, <4>1 DEF Sn!Installing, Sn!NoInstall
    <3>2. sn_start_idx[Leader] - 1 <= sm_snapshot[Leader]
      BY SnapshotBounds DEF SnInv, Sn!CutIsInSnapshot
    <3>3. sn_start_idx'[Leader] - 1 <= last_snapshot'[Leader]
      BY <1>2, <2>3 DEF SnInv, Sn!CutIsInSnapshot
    <3>4. QED
      BY <1>2, <2>1, <2>2, <2>3, <3>1, <3>2, <3>3, SnapshotBounds
         DEF Sn!CutIsInSnapshot, Sn!Installing
  <2>8. LeaderSnapshots' /\ Sn!SnapshotIsWhole'
    BY <1>2, <1>4 DEF SnInv, LeaderSnapshots, Sn!SnapshotIsWhole
  <2>9. QED
    BY <2>4, <2>5, <2>6, <2>7, <2>8 DEF SnInv
<1>8. CASE ~Cut
  <2>1. /\ UNCHANGED <<sn_start_idx, sn_last, installing>>
        /\ running' = running \/ running' = [running EXCEPT ![Follower] = FALSE]
        /\ errors' = errors \/ errors' = errors + 1
        /\ \/ sn_net' = (sn_net \ {m}) \cup (IF m.open THEN {Answer(FALSE, 0)} ELSE {})
           \/ /\ ~refused /\ ~done
              /\ sn_net' = (sn_net \ {m}) \cup
                           (IF m.open THEN {Answer(TRUE, m.offset + BlockSize)} ELSE {})
           \/ sn_net' = sn_net \ {m}
    <3> HIDE DEF Cut
    <3>1. QED
      BY <1>2, <1>8 DEF Sn!Reply
  <2> HIDE DEF refused, Cut
  <2>2. PICK a \in Sn!Message :
          /\ a.type = "install_resp" /\ (m.open => MessageOK(a)')
          /\ \/ sn_net' = (sn_net \ {m}) \cup (IF m.open THEN {a} ELSE {})
             \/ sn_net' = sn_net \ {m}
    <3>1. /\ Answer(FALSE, 0) \in Sn!Message /\ Answer(FALSE, 0).type = "install_resp"
          /\ MessageOK(Answer(FALSE, 0))'
      BY DEF Sn!Message, MessageOK
    <3>2. CASE ~refused /\ ~done
               /\ sn_net' = (sn_net \ {m}) \cup
                            (IF m.open THEN {Answer(TRUE, m.offset + BlockSize)} ELSE {})
      <4>1. PICK next : next = m.offset + BlockSize
        OBVIOUS
      <4>2. next \in Nat /\ next \in Sn!Offsets
        BY <1>1, <3>2, <4>1, NextOffset, SnapshotBounds
      <4>3. PICK a : a = Answer(TRUE, next)
        OBVIOUS
      <4>4. a \in Sn!Message /\ a.type = "install_resp" /\ a.next_idx = next
        BY <4>2, <4>3 DEF Sn!Message
      <4>5. m.open => MessageOK(a)'
        BY <1>2, <1>5, <1>6, <3>2, <4>1, <4>2, <4>4 DEF MessageOK, SavedUpTo
      <4> HIDE DEF Answer
      <4>6. QED
        BY <3>2, <4>1, <4>3, <4>4, <4>5
    <3> HIDE DEF Answer
    <3>3. QED
      BY <2>1, <3>1, <3>2
  <2>3. sn_net' \subseteq Sn!Message /\ CallOK'
    BY <1>1, <1>2, <1>4, <2>1, <2>2, ReplyKeeps DEF SnInv
  <2>4. SnTypes'
    <3>1. errors \in Nat /\ running \in [Sn!Server -> BOOLEAN]
      BY DEF SnInv, SnTypes
    <3>2. errors' \in Nat
      BY <2>1, <3>1
    <3>3. running' \in [Sn!Server -> BOOLEAN]
      BY <2>1, <3>1
    <3>4. QED
      BY <1>2, <1>4, <2>1, <2>3, <3>2, <3>3 DEF SnInv, SnTypes
  <2>5. InstallOK' /\ Sn!CutIsInSnapshot' /\ LeaderSnapshots' /\ Sn!SnapshotIsWhole'
    BY <1>2, <1>4, <2>1, SnapshotsKept
  <2>6. QED
    BY <2>3, <2>4, <2>5 DEF SnInv
<1>9. QED
  BY <1>7, <1>8

LEMMA SnApplySnapshot == ASSUME SnInv, Sn!ApplySnapshot PROVE SnInv'
<1>1. /\ Sn!Installing
      /\ sm_snapshot' = [sm_snapshot EXCEPT ![Follower] = installing.snapshot]
      /\ applied_snapshots' = applied_snapshots \cup {installing.snapshot}
      /\ installing' = [installing EXCEPT !.applied = TRUE]
      /\ UNCHANGED <<sn_start_idx, sn_last, sn_sm_commit_index, sn_quick_commit_idx, place,
                     tested, last_snapshot, creating, running, next_log_idx, sn_busy,
                     pending_commit, sync_ctx, sn_net, saved, errors>>
  BY DEF Sn!ApplySnapshot, Sn!logVars, Sn!commitVars, Sn!peerVars
<1>2. /\ installing'.snapshot = installing.snapshot /\ installing'.open = installing.open
      /\ installing' \in [snapshot : Nat, applied : BOOLEAN, open : BOOLEAN]
      /\ installing.snapshot \in Nat
  BY <1>1 DEF SnInv, SnTypes
<1>3. SnTypes'
  <2>1. sm_snapshot' \in [Sn!Server -> Nat] /\ applied_snapshots' \subseteq Nat
    BY <1>1, <1>2 DEF SnInv, SnTypes
  <2>2. QED
    BY <1>1, <1>2, <2>1 DEF SnInv, SnTypes
<1>4. CallOK'
  BY <1>1, <1>2, CallKept DEF SnInv
<1>5. /\ sm_snapshot'[Follower] = installing.snapshot
      /\ sm_snapshot'[Leader] = sm_snapshot[Leader]
  BY <1>1, SnapshotBounds DEF SnInv, SnTypes
<1>6. InstallOK'
  BY <1>1, <1>2, <1>5 DEF SnInv, InstallOK
<1>7. Sn!CutIsInSnapshot'
  <2>1. sn_start_idx[Follower] - 1 = installing.snapshot
    BY <1>1 DEF SnInv, InstallOK
  <2>2. /\ sn_start_idx[Leader] - 1 <= sm_snapshot[Leader]
        /\ sn_start_idx[Leader] - 1 <= last_snapshot[Leader]
    BY SnapshotBounds DEF SnInv, Sn!CutIsInSnapshot
  <2>3. QED
    BY <1>1, <1>2, <1>5, <2>1, <2>2, SnapshotBounds DEF Sn!CutIsInSnapshot
<1>8. LeaderSnapshots'
  BY <1>1 DEF SnInv, LeaderSnapshots
<1>9. Sn!SnapshotIsWhole'
  BY <1>1 DEF SnInv, InstallOK, Sn!SnapshotIsWhole
<1>10. QED
  BY <1>3, <1>4, <1>6, <1>7, <1>8, <1>9 DEF SnInv

LEMMA SnInstallFails == ASSUME SnInv, Sn!InstallFails PROVE SnInv'
<1> USE DEF Sn!InstallFails, Sn!Exit, Sn!logVars, Sn!commitVars, Sn!snapshotVars, Sn!peerVars
<1>1. SnTypes'
  <2>1. errors \in Nat /\ running \in [Sn!Server -> BOOLEAN]
    BY DEF SnInv, SnTypes
  <2>2. errors' \in Nat
    BY <2>1
  <2>3. running' \in [Sn!Server -> BOOLEAN]
    BY <2>1
  <2>4. QED
    BY <2>2, <2>3 DEF SnInv, SnTypes
<1>2. CallOK' /\ InstallOK' /\ Sn!CutIsInSnapshot' /\ LeaderSnapshots' /\ Sn!SnapshotIsWhole'
  BY CallKept, SnapshotsKept DEF SnInv
<1>3. QED
  BY <1>1, <1>2 DEF SnInv

LEMMA SnFinishInstall == ASSUME SnInv, Sn!FinishInstall PROVE SnInv'
<1>1. PICK a : a = [type |-> "install_resp", accepted |-> TRUE, next_idx |-> SnapshotSize]
  OBVIOUS
<1>2. /\ installing.applied /\ installing' = Sn!NoInstall
      /\ sn_sm_commit_index' = [sn_sm_commit_index EXCEPT ![Follower] = installing.snapshot]
      /\ sn_quick_commit_idx' = [sn_quick_commit_idx EXCEPT ![Follower] = installing.snapshot]
      /\ last_snapshot' = [last_snapshot EXCEPT ![Follower] = installing.snapshot]
      /\ sn_net' = sn_net \cup (IF installing.open THEN {a} ELSE {})
      /\ UNCHANGED <<sn_start_idx, sn_last, place, tested, sm_snapshot, creating, running,
                     next_log_idx, sn_busy, pending_commit, sync_ctx, saved,
                     applied_snapshots, errors>>
  BY <1>1 DEF Sn!FinishInstall, Sn!logVars, Sn!peerVars, Sn!history
<1>3. Sn!Installing /\ installing.snapshot \in Nat
  BY <1>2 DEF SnInv, SnTypes, Sn!Installing, Sn!NoInstall
<1>4. a \in Sn!Message /\ a.type = "install_resp" /\ a.next_idx = SnapshotSize
  BY <1>1, SnapshotBounds DEF Sn!Message
<1>5. installing.open => MessageOK(a)'
  <2> SUFFICES ASSUME installing.open
               PROVE  SavedUpTo(sync_ctx.snapshot, SnapshotSize)'
    BY <1>4, SnapshotBounds DEF MessageOK
  <2>1. sync_ctx'.snapshot = installing.snapshot
    BY <1>2 DEF SnInv, CallOK, OneCall
  <2>2. QED
    BY <1>2, <1>3, <2>1 DEF SnInv, InstallOK, SavedUpTo
<1>6. ~installing'.open /\ installing' \in [snapshot : Nat, applied : BOOLEAN, open : BOOLEAN]
  BY <1>2 DEF Sn!NoInstall
<1>7. CallOK'
  <2>1. \A n \in sn_net' : n \in sn_net \/ (installing.open /\ n = a)
    BY <1>2
  <2>2. \A n \in sn_net : MessageOK(n)'
    BY <1>2 DEF SnInv, CallOK, MessageOK, SavedUpTo
  <2>3. installing.open => sn_busy /\ \A n \in sn_net : ~UnderWay(n)
    BY DEF SnInv, CallOK, OneCall
  <2>4. OneCall'
    BY <1>2, <1>6, <2>1, <2>3 DEF SnInv, CallOK, OneCall, UnderWay
  <2>5. SavedUpTo(sync_ctx.snapshot, sync_ctx.offset)'
    BY <1>2 DEF SnInv, CallOK, SavedUpTo
  <2>6. QED
    BY <1>5, <2>1, <2>2, <2>4, <2>5 DEF CallOK
<1>8. SnTypes'
  <2>1. sn_net' \subseteq Sn!Message
    BY <1>2, <1>4 DEF SnInv, SnTypes
  <2>2. QED
    BY <1>2, <1>3, <1>6, <2>1 DEF SnInv, SnTypes
<1>9. /\ last_snapshot'[Leader] = last_snapshot[Leader]
      /\ sn_sm_commit_index'[Leader] = sn_sm_commit_index[Leader]
  BY <1>2, SnapshotBounds DEF SnInv, SnTypes
<1>10. Sn!CutIsInSnapshot'
  <2>1. sn_start_idx[Follower] - 1 <= sm_snapshot[Follower]
    BY <1>2, <1>3 DEF SnInv, InstallOK
  <2>2. /\ sn_start_idx[Leader] - 1 <= sm_snapshot[Leader]
        /\ sn_start_idx[Leader] - 1 <= last_snapshot[Leader]
    BY SnapshotBounds DEF SnInv, Sn!CutIsInSnapshot
  <2>3. QED
    BY <1>2, <1>9, <2>1, <2>2, SnapshotBounds DEF Sn!CutIsInSnapshot
<1>11. InstallOK' /\ LeaderSnapshots' /\ Sn!SnapshotIsWhole'
  BY <1>2, <1>9 DEF SnInv, InstallOK, Sn!Installing, LeaderSnapshots, Sn!SnapshotIsWhole
<1>12. QED
  BY <1>7, <1>8, <1>10, <1>11 DEF SnInv

\* The leader gives up the installation under way.
LEMMA InstallGivenUp ==
  ASSUME SnInv, installing.open, installing' = [installing EXCEPT !.open = FALSE],
         sn_busy' = FALSE, UNCHANGED <<sn_net, next_log_idx, sync_ctx, saved>>
  PROVE  /\ sn_net' \subseteq Sn!Message /\ CallOK'
         /\ installing' \in [snapshot : Nat, applied : BOOLEAN, open : BOOLEAN]
         /\ installing'.snapshot = installing.snapshot
         /\ installing'.applied = installing.applied
<1>1. /\ installing' \in [snapshot : Nat, applied : BOOLEAN, open : BOOLEAN]
      /\ installing'.snapshot = installing.snapshot /\ ~installing'.open
      /\ installing'.applied = installing.applied
  BY DEF SnInv, SnTypes
<1>2. \A n \in sn_net : ~UnderWay(n)
  BY DEF SnInv, CallOK, OneCall
<1>3. CallOK'
  BY <1>1, <1>2 DEF SnInv, CallOK, OneCall, UnderWay, MessageOK, SavedUpTo
<1>4. QED
  BY <1>1, <1>3 DEF SnInv, SnTypes

\* The leader's call is lost, or given up while its request is still to arrive.
LEMMA MessageGivenUp ==
  ASSUME SnInv, NEW m \in sn_net, "open" \in DOMAIN m => m.open, installing' = installing,
         sn_busy' = FALSE, UNCHANGED <<next_log_idx, sync_ctx, saved>>,
         \/ sn_net' = sn_net \ {m}
         \/ /\ "open" \in DOMAIN m
            /\ sn_net' = (sn_net \ {m}) \cup {[m EXCEPT !.open = FALSE]}
  PROVE  sn_net' \subseteq Sn!Message /\ CallOK'
<1>2. m \in Sn!Message /\ MessageOK(m)
  BY DEF SnInv, SnTypes, CallOK
<1>3. UnderWay(m)
  <2>1. m.type \notin {"append_resp", "install_resp"} => "open" \in DOMAIN m
    BY <1>2 DEF Sn!Message
  <2>2. QED
    BY <2>1 DEF UnderWay
<1>4. ~installing.open /\ \A n \in sn_net \ {m} : ~UnderWay(n) /\ MessageOK(n)
  BY <1>3, OthersIdle DEF SnInv
<1>5. PICK late : late = [m EXCEPT !.open = FALSE]
  OBVIOUS
<1>6. "open" \in DOMAIN m => late \in Sn!Message /\ ~UnderWay(late) /\ MessageOK(late)
  <2>1. CASE m.type = "append"
    <3>1. m \in [type : {"append"}, last_log_idx : Nat, end : Nat, commit : Nat,
                 open : BOOLEAN]
      BY <1>2, <2>1 DEF Sn!Message
    <3>2. late \in [type : {"append"}, last_log_idx : Nat, end : Nat, commit : Nat,
                    open : BOOLEAN] /\ late.type = "append" /\ late.open = FALSE
      BY <1>5, <3>1
    <3>3. QED
      BY <3>2 DEF Sn!Message, UnderWay, MessageOK
  <2>2. CASE m.type = "install"
    <3>1. m \in [type : {"install"}, snapshot : Nat, offset : Sn!Offsets, open : BOOLEAN]
      BY <1>2, <2>2 DEF Sn!Message
    <3>2. /\ late \in [type : {"install"}, snapshot : Nat, offset : Sn!Offsets,
                       open : BOOLEAN]
          /\ late.type = "install" /\ late.open = FALSE
          /\ late.snapshot = m.snapshot /\ late.offset = m.offset
      BY <1>5, <3>1
    <3>3. QED
      BY <1>2, <2>2, <3>2 DEF Sn!Message, UnderWay, MessageOK
  <2>3. CASE m.type \in {"append_resp", "install_resp"}
    BY <1>2, <2>3 DEF Sn!Message
  <2>4. QED
    BY <1>2, <2>1, <2>2, <2>3, MessageParts
<1>7. \A n \in sn_net' : n \in Sn!Message /\ ~UnderWay(n) /\ MessageOK(n)
  BY <1>4, <1>5, <1>6 DEF SnInv, SnTypes
<1>8. CallOK'
  BY <1>4, <1>7 DEF SnInv, CallOK, OneCall, UnderWay, MessageOK, SavedUpTo
<1>9. QED
  BY <1>7, <1>8

LEMMA SnRpcError == ASSUME SnInv, Sn!RpcError PROVE SnInv'
<1>1. /\ UNCHANGED <<sn_start_idx, sn_last, sn_sm_commit_index, sn_quick_commit_idx, place,
                     tested, last_snapshot, sm_snapshot, creating, running, next_log_idx,
                     pending_commit, sync_ctx, saved, applied_snapshots>>
      /\ errors' = errors + 1 /\ sn_busy' = FALSE
      /\ \/ /\ installing.open
            /\ installing' = [installing EXCEPT !.open = FALSE] /\ sn_net' = sn_net
         \/ /\ installing' = installing
            /\ \E m \in sn_net :
                 /\ "open" \in DOMAIN m => m.open
                 /\ \/ sn_net' = sn_net \ {m}
                    \/ /\ "open" \in DOMAIN m
                       /\ sn_net' = (sn_net \ {m}) \cup {[m EXCEPT !.open = FALSE]}
  BY DEF Sn!RpcError, Sn!logVars, Sn!commitVars, Sn!snapshotVars
<1>2. /\ sn_net' \subseteq Sn!Message /\ CallOK'
      /\ installing' \in [snapshot : Nat, applied : BOOLEAN, open : BOOLEAN]
      /\ installing'.snapshot = installing.snapshot
      /\ installing'.applied = installing.applied
  <2>1. CASE installing.open /\ installing' = [installing EXCEPT !.open = FALSE]
             /\ sn_net' = sn_net
    BY <1>1, <2>1, InstallGivenUp
  <2>2. CASE installing' = installing
    <3>1. CASE installing.open /\ sn_net' = sn_net
               /\ installing' = [installing EXCEPT !.open = FALSE]
      BY <2>1, <3>1
    <3>2. ASSUME NEW m \in sn_net, "open" \in DOMAIN m => m.open,
                 \/ sn_net' = sn_net \ {m}
                 \/ /\ "open" \in DOMAIN m
                    /\ sn_net' = (sn_net \ {m}) \cup {[m EXCEPT !.open = FALSE]}
          PROVE  sn_net' \subseteq Sn!Message /\ CallOK'
      BY <1>1, <2>2, <3>2, MessageGivenUp
    <3>3. QED
      BY <1>1, <2>2, <3>1, <3>2 DEF SnInv, SnTypes
  <2>3. QED
    BY <1>1, <2>1, <2>2
<1>3. SnTypes'
  <2>1. errors \in Nat
    BY DEF SnInv, SnTypes
  <2>2. errors' \in Nat
    BY <2>1 DEF Sn!RpcError
  <2>3. sn_busy' \in BOOLEAN
    BY DEF Sn!RpcError
  <2>4. QED
    BY <1>1, <1>2, <2>2, <2>3 DEF SnInv, SnTypes
<1>4. Sn!Installing' => Sn!Installing
  <2>1. installing.open => Sn!Installing
    BY DEF Sn!Installing, Sn!NoInstall
  <2>2. QED
    BY <1>1, <2>1 DEF Sn!Installing
<1>5. InstallOK'
  BY <1>1, <1>2, <1>4 DEF SnInv, InstallOK
<1>6. Sn!CutIsInSnapshot'
  <2>1. ASSUME sn_start_idx[Follower] - 1 = installing.snapshot, Sn!Installing,
               ~Sn!Installing'
        PROVE  sn_start_idx[Follower] - 1 <= sm_snapshot[Follower]
    <3>1. installing.snapshot = 0
      BY <1>2, <2>1 DEF Sn!Installing, Sn!NoInstall
    <3>2. QED
      BY <2>1, <3>1, SnapshotBounds DEF SnInv, SnTypes
  <2>2. QED
    BY <1>1, <1>2, <2>1 DEF SnInv, Sn!CutIsInSnapshot
<1>7. LeaderSnapshots' /\ Sn!SnapshotIsWhole'
  BY <1>1 DEF SnInv, LeaderSnapshots, Sn!SnapshotIsWhole
<1>8. QED
  BY <1>2, <1>3, <1>5, <1>6, <1>7 DEF SnInv

LEMMA SnapshotsRun == PartsSpec => Sn!Spec
<1>1. PartsInit => Sn!Init
  BY DEF PartsInit
<1>2. [PartsNext]_parts_vars => [Sn!Next]_(Sn!vars)
  BY DEF PartsNext, parts_vars, sn_vars, Sn!vars, Sn!logVars, Sn!commitVars,
         Sn!snapshotVars, Sn!peerVars, Sn!history
<1>3. QED
  BY <1>1, <1>2, PTL DEF PartsSpec, Sn!Spec, parts_vars, sn_vars

LEMMA SnInit == ASSUME Sn!Init PROVE SnInv
<1>1. SnTypes
  <2>1. sync_ctx \in [snapshot : Nat, offset : Sn!Offsets]
    BY OffsetTypes DEF Sn!Init, Sn!NoCtx
  <2>2. /\ sn_start_idx \in [Sn!Server -> Nat] /\ sn_last \in [Sn!Server -> Nat]
        /\ running \in [Sn!Server -> BOOLEAN]
    BY DEF Sn!Init
  <2>3. /\ sn_net = {} /\ saved = {} /\ applied_snapshots = {} /\ errors = 0
        /\ next_log_idx = 1
    BY DEF Sn!Init
  <2>4. /\ sn_sm_commit_index = sn_last /\ sn_quick_commit_idx = sn_last
        /\ tested = sn_last /\ place = [s \in Sn!Server |-> "test"]
        /\ installing = Sn!NoInstall /\ last_snapshot = sn_last /\ sm_snapshot = sn_last
        /\ creating = sn_last
    BY DEF Sn!Init
  <2>5. sn_busy \in BOOLEAN /\ pending_commit \in BOOLEAN
    BY DEF Sn!Init
  <2>6. Sn!NoInstall \in [snapshot : Nat, applied : BOOLEAN, open : BOOLEAN]
    BY DEF Sn!NoInstall
  <2>7. QED
    BY <2>1, <2>2, <2>3, <2>4, <2>5, <2>6 DEF SnTypes
<1>2. CallOK /\ InstallOK
  BY OffsetTypes DEF Sn!Init, CallOK, OneCall, InstallOK, Sn!Installing, Sn!NoInstall,
                     SavedUpTo, Sn!NoCtx
<1>3. Sn!CutIsInSnapshot /\ LeaderSnapshots /\ Sn!SnapshotIsWhole
  BY SnapshotBounds DEF Sn!Init, Sn!CutIsInSnapshot, LeaderSnapshots, Sn!SnapshotIsWhole
<1>4. QED
  BY <1>1, <1>2, <1>3 DEF SnInv

LEMMA SnapshotInvariant == Sn!Spec => []SnInv
<1>1. SnInv /\ [Sn!Next]_(Sn!vars) => SnInv'
  <2> SUFFICES ASSUME SnInv, [Sn!Next]_(Sn!vars) PROVE SnInv'
    OBVIOUS
  <2>1. CASE Sn!Receive
    BY <2>1, SnHandleAppend, SnHandleInstall, SnHandleAppendResp, SnHandleInstallResp
       DEF Sn!Receive
  <2>2. ASSUME NEW s \in Sn!Server, Sn!Committing(s) PROVE SnInv'
    BY <2>2, SnTest, SnIncrement, SnRead, SnApplyEntry DEF Sn!Committing
  <2>3. ASSUME NEW s \in Sn!Server, Sn!Snapshotting(s) PROVE SnInv'
    BY <2>3, SnSnapshotTaken, SnSnapshotFailed, SnCompleted DEF Sn!Snapshotting
  <2>4. CASE Sn!ApplySnapshot \/ Sn!FinishInstall \/ Sn!InstallFails
    BY <2>4, SnApplySnapshot, SnFinishInstall, SnInstallFails
  <2>5. CASE UNCHANGED Sn!vars
    <3> USE <2>5 DEF Sn!vars, Sn!logVars, Sn!commitVars, Sn!snapshotVars, Sn!peerVars,
                     Sn!history
    <3>1. SnTypes' /\ CallOK'
      BY CallKept DEF SnInv, SnTypes
    <3>2. InstallOK' /\ Sn!CutIsInSnapshot' /\ LeaderSnapshots' /\ Sn!SnapshotIsWhole'
      BY SnapshotsKept
    <3>3. QED
      BY <3>1, <3>2 DEF SnInv
  <2>6. QED
    BY <2>1, <2>2, <2>3, <2>4, <2>5, SnClientRequest, SnHbTimeout, SnRpcError DEF Sn!Next
<1>2. QED
  BY <1>1, SnInit, PTL DEF Sn!Spec

\* The messages, offsets and indexes of snapshots stay within their types; above all,
\* next_log_idx_, which is unsigned, is never set back below 1 (handle_append_entries_resp).
THEOREM SnapshotsTyped == PartsSpec => []SnapshotTypeOK
<1>1. SnInv => SnapshotTypeOK
  BY OffsetTypes DEF SnInv, SnTypes, SnapshotTypeOK, Sn!TypeOK
<1>2. QED
  BY <1>1, SnapshotsRun, SnapshotInvariant, PTL

\* However calls are lost, given up or late and snapshots overtake each other, what
\* the follower applies are all blocks of one snapshot (sync_ctx,
\* create_sync_snapshot_req, handle_snapshot_sync_req).
THEOREM AppliedAreWhole == PartsSpec => []SnapshotIsWhole
<1>1. SnInv => SnapshotIsWhole
  BY DEF SnInv, SnapshotIsWhole
<1>2. QED
  BY <1>1, SnapshotsRun, SnapshotInvariant, PTL

\* For every distance, number of reserved entries and size of a snapshot, what has been cut
\* from a log is in a snapshot that the state machine has, or, from compact on until
\* apply_snapshot has returned true and also if it never does, in one all of whose blocks
\* the state machine has saved (on_snapshot_completed, handle_snapshot_sync_req).
THEOREM CutsAreInSnapshots == PartsSpec => []CutIsInSnapshot
<1>1. SnInv => CutIsInSnapshot
  BY DEF SnInv, CutIsInSnapshot
<1>2. QED
  BY <1>1, SnapshotsRun, SnapshotInvariant, PTL
=============================================================================
