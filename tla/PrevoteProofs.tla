---------------------------- MODULE PrevoteProofs ----------------------------
(***************************************************************************)
(* For any number of servers and any logs, however the prevote messages    *)
(* are delayed, reordered or lost: a follower becomes a candidate only     *)
(* with a majority behind it, and none of them waits for nothing.          *)
(***************************************************************************)
EXTENDS MCMembership, FiniteSetTheorems, TLAPS

\* Those that are for the candidacy of s in its term
For(s) == {v \in Voter : v = s \/ <<v, s, term[s]>> \in granted}

PvTypes ==
  /\ term \in [Voter -> Nat]
  /\ role \in [Voter -> {"follower", "candidate", "leader"}]
  /\ round \in [Voter -> [on : BOOLEAN, voters : SUBSET Voter, accepted : Nat]]
  /\ armed \in [Voter -> BOOLEAN]
  /\ pv_net \subseteq [type : {"request"}, src : Voter, dst : Voter, term : Nat]
                 \cup [type : {"response"}, src : Voter, dst : Voter, term : Nat,
                       accepted : BOOLEAN]

\* Nobody asks itself. A server is not asked in a term that the candidate has not reached; one that has
\* accepted would vote for the candidate, or is in an earlier term.
NetOK ==
  \A m \in pv_net :
    /\ m.src # m.dst
    /\ m.type = "request" => m.term <= term[m.src]
    /\ m.type = "response" /\ m.accepted
       => <<m.src, m.dst, m.term>> \in granted \/ m.term < term[m.dst]

\* A round counts only votes of its voters that they have given in its term.
Counted(s) ==
  /\ round[s].accepted <= Cardinality(round[s].voters \cap For(s))
  /\ ~round[s].on => round[s].voters = {}

\* What s waits for from v is on its way, lost, or of another term.
Awaited(s, v) ==
  \/ <<v, s>> \in unheard
  \/ \E m \in pv_net : \/ m.type = "request" /\ m.src = s /\ m.dst = v
                       \/ m.type = "response" /\ m.src = v /\ m.dst = s

\* A round that s has begun is not complete, and waits for all who have not answered.
Waits(s) ==
  s \in round[s].voters =>
    round[s].voters # Voter /\ \A v \in Voter \ round[s].voters : Awaited(s, v)

PvInv ==
  /\ PvTypes /\ NetOK /\ Pv!NeverIdle
  /\ \A s \in Voter : Counted(s) /\ Waits(s)

-----------------------------------------------------------------------------
(* What the actions share *)

LEMMA Voters ==
  /\ IsFiniteSet(Voter) /\ Cardinality(Voter) > 1 /\ MaxTerm \in Nat
  /\ \A S : Pv!Cardinality(S) = Cardinality(S)
<1>1. ASSUME NEW S PROVE Pv!Cardinality(S) = Cardinality(S)
  BY DEF Pv!Cardinality, Cardinality
<1>2. Pv!IsFiniteSet(Voter) = IsFiniteSet(Voter)
  BY DEF Pv!IsFiniteSet, IsFiniteSet
<1>3. QED
  BY <1>1, <1>2, VoterAssumption DEF Pv!PrevoteAssumption

LEMMA SomebodyElse == ASSUME NEW s \in Voter PROVE Voter # {s}
<1>1. Cardinality({s}) = 1
  BY FS_Singleton
<1>2. QED
  BY <1>1, Voters

\* Messages that are lost or handled leave the others as they were.
LEMMA NetShrinks ==
  ASSUME PvTypes, NetOK, pv_net' \subseteq pv_net, granted \subseteq granted',
         term' \in [Voter -> Nat], \A s \in Voter : term[s] <= term'[s]
  PROVE  NetOK'
<1> SUFFICES ASSUME NEW m \in pv_net
             PROVE  /\ m.src # m.dst
                    /\ m.type = "request" => m.term <= term'[m.src]
                    /\ m.type = "response" /\ m.accepted
                       => <<m.src, m.dst, m.term>> \in granted' \/ m.term < term'[m.dst]
  BY DEF NetOK
<1>1. m.src \in Voter /\ m.dst \in Voter /\ m.term \in Nat
  BY DEF PvTypes
<1>2. term[m.src] <= term'[m.src] /\ term[m.dst] <= term'[m.dst]
  BY <1>1
<1>3. /\ term[m.src] \in Nat /\ term'[m.src] \in Nat
      /\ term[m.dst] \in Nat /\ term'[m.dst] \in Nat
  BY <1>1 DEF PvTypes
<1>4. QED
  BY <1>1, <1>2, <1>3 DEF NetOK

\* Votes that have been given stay given in the term.
LEMMA CountKept ==
  ASSUME PvTypes, NEW s \in Voter, Counted(s), granted \subseteq granted',
         round'[s] = round[s], term'[s] = term[s]
  PROVE  Counted(s)'
<1>1. For(s) \subseteq For(s)' /\ For(s)' \subseteq Voter
  BY DEF For
<1> DEFINE A == round[s].voters \cap For(s)
           B == round[s].voters \cap For(s)'
<1>2. IsFiniteSet(B) /\ A \subseteq B
  BY <1>1, Voters, FS_Subset
<1>3. Cardinality(A) <= Cardinality(B) /\ Cardinality(A) \in Nat /\ Cardinality(B) \in Nat
  BY <1>2, FS_Subset, FS_CardinalityType
<1>4. round[s].accepted \in Nat
  BY DEF PvTypes
<1>5. QED
  BY <1>3, <1>4 DEF Counted

\* A round that is off, or has failed, counts nothing and waits for nobody.
LEMMA NoRound ==
  ASSUME NEW s \in Voter, round'[s] = Pv!Off \/ round'[s] = Pv!Empty
  PROVE  Counted(s)' /\ Waits(s)'
<1>1. round'[s].voters = {} /\ round'[s].accepted = 0
  BY DEF Pv!Off, Pv!Empty
<1>2. round'[s].voters \cap For(s)' = {}
  BY <1>1
<1>3. QED
  BY <1>1, <1>2, FS_EmptySet DEF Counted, Waits

\* What is awaited stays so while no message is taken that it may be.
LEMMA StillWaits ==
  ASSUME NEW s \in Voter, Waits(s), round'[s] = round[s],
         \A v \in Voter \ round[s].voters : Awaited(s, v) => Awaited(s, v)'
  PROVE  Waits(s)'
BY DEF Waits

LEMMA StillAwaited ==
  ASSUME pv_net \subseteq pv_net', unheard \subseteq unheard', NEW s, NEW v, Awaited(s, v)
  PROVE  Awaited(s, v)'
BY DEF Awaited

\* Each server that the step leaves where it was
LEMMA OthersKept ==
  ASSUME PvInv, granted \subseteq granted', pv_net \subseteq pv_net',
         NEW s \in Voter, round'[s] = round[s], term'[s] = term[s],
         \A v \in Voter : <<v, s>> \in unheard => <<v, s>> \in unheard'
  PROVE  Counted(s)' /\ Waits(s)'
<1>1. \A v \in Voter : Awaited(s, v) => Awaited(s, v)'
  BY DEF Awaited
<1>2. QED
  BY <1>1, CountKept, StillWaits DEF PvInv

-----------------------------------------------------------------------------
(* The actions of a server *)

LEMMA PvElectionTimeout ==
  ASSUME PvInv, NEW s \in Voter, Pv!ElectionTimeout(s) PROVE PvInv'
<1> USE DEF PvInv
<1>1. granted' = granted
  BY DEF Pv!ElectionTimeout
<1>2. CASE role[s] = "candidate"
  <2>1. Pv!BecomeCandidate(s) /\ UNCHANGED <<pv_net, unheard>>
    BY <1>2 DEF Pv!ElectionTimeout
  <2>2. PvTypes' /\ \A t \in Voter : term[t] <= term'[t]
    BY <2>1 DEF PvTypes, Pv!BecomeCandidate, Pv!Off
  <2>3. NetOK'
    BY <1>1, <2>1, <2>2, NetShrinks DEF PvTypes
  <2>4. ASSUME NEW t \in Voter PROVE Counted(t)' /\ Waits(t)'
    <3>1. CASE t = s
      BY <2>1, <3>1, NoRound DEF Pv!BecomeCandidate, PvTypes
    <3>2. CASE t # s
      BY <1>1, <2>1, <3>2, OthersKept DEF Pv!BecomeCandidate, PvTypes
    <3>3. QED
      BY <3>1, <3>2
  <2>5. Pv!NeverIdle'
    BY <2>1 DEF Pv!NeverIdle, Pv!BecomeCandidate, PvTypes
  <2>6. QED
    BY <2>2, <2>3, <2>4, <2>5
<1>3. CASE role[s] = "follower" /\ round[s].voters # {}
  <2>1. /\ armed' = [armed EXCEPT ![s] = FALSE]
        /\ UNCHANGED <<term, role, round, pv_net, unheard>>
    BY <1>3 DEF Pv!ElectionTimeout
  <2>2. PvTypes' /\ \A t \in Voter : term[t] <= term'[t]
    BY <2>1 DEF PvTypes
  <2>3. NetOK'
    BY <1>1, <2>1 DEF NetOK
  <2>4. ASSUME NEW t \in Voter PROVE Counted(t)' /\ Waits(t)'
    BY <1>1, <2>1, OthersKept
  <2>5. Pv!NeverIdle'
    BY <1>3, <2>1 DEF Pv!NeverIdle, PvTypes
  <2>6. QED
    BY <2>2, <2>3, <2>4, <2>5
<1>4. CASE role[s] = "follower" /\ round[s].voters = {}
  <2> DEFINE begun == [on |-> TRUE, voters |-> {s}, accepted |-> round[s].accepted + 1]
  <2>1. /\ armed' = [armed EXCEPT ![s] = FALSE] /\ UNCHANGED <<term, role>>
        /\ round' = [round EXCEPT ![s] = begun]
        /\ pv_net' = pv_net \cup
             {[type |-> "request", src |-> s, dst |-> v, term |-> term[s]] : v \in Voter \ {s}}
        /\ unheard' = {u \in unheard : u[2] # s}
    BY <1>4 DEF Pv!ElectionTimeout
  <2>2. PvTypes'
    BY <2>1 DEF PvTypes
  <2>3. NetOK'
    <3> SUFFICES ASSUME NEW m \in pv_net'
                 PROVE  /\ m.src # m.dst
                        /\ m.type = "request" => m.term <= term[m.src]
                        /\ m.type = "response" /\ m.accepted
                           => <<m.src, m.dst, m.term>> \in granted \/ m.term < term[m.dst]
      BY <1>1, <2>1 DEF NetOK
    <3>1. CASE m \in pv_net
      BY <3>1 DEF NetOK
    <3>2. CASE m \notin pv_net
      <4>1. m.type = "request" /\ m.src = s /\ m.dst # s /\ m.term = term[s]
        BY <2>1, <3>2
      <4>2. QED
        BY <4>1 DEF PvTypes
    <3>3. QED
      BY <3>1, <3>2
  <2>4. ASSUME NEW t \in Voter PROVE Counted(t)' /\ Waits(t)'
    <3>1. CASE t = s
      <4>1. round'[s] = begun
        BY <2>1 DEF PvTypes
      <4>2. round[s].accepted = 0
        <5>1. round[s].voters \cap For(s) = {}
          BY <1>4
        <5>2. QED
          BY <5>1, FS_EmptySet DEF Counted, PvTypes
      <4>3. {s} \cap For(s)' = {s}
        BY DEF For
      <4>4. Counted(s)'
        BY <4>1, <4>2, <4>3, FS_Singleton DEF Counted
      <4>5. ASSUME NEW v \in Voter \ {s} PROVE Awaited(s, v)'
        <5>1. [type |-> "request", src |-> s, dst |-> v, term |-> term[s]] \in pv_net'
          BY <2>1
        <5>2. QED
          BY <5>1 DEF Awaited
      <4>6. Waits(s)'
        BY <4>1, <4>5, SomebodyElse DEF Waits
      <4>7. QED
        BY <3>1, <4>4, <4>6
    <3>2. CASE t # s
      <4>1. \A v \in Voter : <<v, t>> \in unheard => <<v, t>> \in unheard'
        BY <2>1, <3>2
      <4>2. QED
        BY <1>1, <2>1, <3>2, <4>1, OthersKept DEF PvTypes
    <3>3. QED
      BY <3>1, <3>2
  <2>5. Pv!NeverIdle'
    BY <2>1 DEF Pv!NeverIdle, PvTypes
  <2>6. QED
    BY <2>2, <2>3, <2>4, <2>5
<1>5. QED
  BY <1>2, <1>3, <1>4 DEF Pv!ElectionTimeout

LEMMA PvUpdateTerm == ASSUME PvInv, NEW s \in Voter, Pv!UpdateTerm(s) PROVE PvInv'
<1> USE DEF PvInv
<1>1. UNCHANGED <<pv_net, granted, unheard>> /\ Pv!BecomeFollower(s)
  BY DEF Pv!UpdateTerm
<1>2. PICK c \in Voter : term[c] > term[s] /\ term' = [term EXCEPT ![s] = term[c]]
  BY DEF Pv!UpdateTerm
<1>3. PvTypes' /\ \A t \in Voter : term[t] <= term'[t]
  BY <1>1, <1>2 DEF PvTypes, Pv!BecomeFollower, Pv!Off
<1>4. NetOK'
  BY <1>1, <1>3, NetShrinks DEF PvTypes
<1>5. ASSUME NEW t \in Voter PROVE Counted(t)' /\ Waits(t)'
  <2>1. CASE t = s
    BY <1>1, <2>1, NoRound DEF Pv!BecomeFollower, PvTypes
  <2>2. CASE t # s
    BY <1>1, <1>2, <2>2, OthersKept DEF Pv!BecomeFollower, PvTypes
  <2>3. QED
    BY <2>1, <2>2
<1>6. Pv!NeverIdle'
  BY <1>1 DEF Pv!NeverIdle, Pv!BecomeFollower, PvTypes
<1>7. QED
  BY <1>3, <1>4, <1>5, <1>6

LEMMA PvBecomeLeader == ASSUME PvInv, NEW s \in Voter, Pv!BecomeLeader(s) PROVE PvInv'
<1> USE DEF PvInv
<1>1. /\ UNCHANGED <<term, round, pv_net, granted, unheard>>
      /\ role' = [role EXCEPT ![s] = "leader"] /\ armed' = [armed EXCEPT ![s] = FALSE]
  BY DEF Pv!BecomeLeader
<1>2. PvTypes' /\ Pv!NeverIdle'
  BY <1>1 DEF PvTypes, Pv!NeverIdle
<1>3. NetOK'
  BY <1>1 DEF NetOK
<1>4. ASSUME NEW t \in Voter PROVE Counted(t)' /\ Waits(t)'
  BY <1>1, OthersKept
<1>5. QED
  BY <1>2, <1>3, <1>4

LEMMA PvHearFromLeader == ASSUME PvInv, NEW s \in Voter, Pv!HearFromLeader(s) PROVE PvInv'
<1> USE DEF PvInv
<1>1. UNCHANGED <<term, pv_net, granted, unheard>>
  BY DEF Pv!HearFromLeader
<1>2. \/ Pv!BecomeFollower(s)
      \/ armed' = [armed EXCEPT ![s] = TRUE] /\ UNCHANGED <<role, round>>
  BY DEF Pv!HearFromLeader
<1>3. PvTypes'
  <2>1. CASE Pv!BecomeFollower(s)
    BY <1>1, <2>1 DEF PvTypes, Pv!BecomeFollower, Pv!Off
  <2>2. CASE armed' = [armed EXCEPT ![s] = TRUE] /\ UNCHANGED <<role, round>>
    BY <1>1, <2>2 DEF PvTypes
  <2>3. QED
    BY <1>2, <2>1, <2>2
<1>4. Pv!NeverIdle'
  BY <1>1, <1>2 DEF PvTypes, Pv!NeverIdle, Pv!BecomeFollower
<1>5. NetOK'
  BY <1>1 DEF NetOK
<1>6. ASSUME NEW t \in Voter PROVE Counted(t)' /\ Waits(t)'
  <2>1. round'[t] = round[t] \/ round'[t] = Pv!Off
    BY <1>2 DEF Pv!BecomeFollower, PvTypes
  <2>2. QED
    BY <1>1, <2>1, NoRound, OthersKept
<1>7. QED
  BY <1>3, <1>4, <1>5, <1>6

-----------------------------------------------------------------------------
(* The messages *)

LEMMA PvHandleReq ==
  ASSUME PvInv, NEW m \in pv_net, Pv!HandlePrevoteReq(m) PROVE PvInv'
<1> USE DEF PvInv
<1> DEFINE v == m.dst
           grant == /\ m.term >= term[v] /\ Rank[m.src] >= Rank[v]
                    /\ defensive => round[v].on
           r == [type |-> "response", src |-> v, dst |-> m.src, term |-> term[v],
                 accepted |-> grant]
<1>1. /\ m.type = "request" /\ UNCHANGED <<term, role, round, armed, unheard>>
      /\ pv_net' = (pv_net \ {m}) \cup {r}
      /\ granted' = IF grant /\ m.term = term[v]
                    THEN granted \cup {<<v, m.src, m.term>>} ELSE granted
  BY DEF Pv!HandlePrevoteReq, Pv!serverVars
<1>2. v \in Voter /\ m.src \in Voter /\ m.term \in Nat /\ grant \in BOOLEAN
  BY DEF PvTypes
<1>3. term[v] \in Nat /\ term[m.src] \in Nat /\ m.term <= term[m.src] /\ v # m.src
  BY <1>1, <1>2 DEF PvTypes, NetOK
<1>4. /\ r.type = "response" /\ r.src = v /\ r.dst = m.src /\ r.term = term[v]
      /\ r.accepted = grant
  OBVIOUS
<1>5. r \in [type : {"response"}, src : Voter, dst : Voter, term : Nat, accepted : BOOLEAN]
  BY <1>2, <1>3
<1>6. r.accepted => <<r.src, r.dst, r.term>> \in granted' \/ r.term < term[r.dst]
  <2>1. CASE grant /\ m.term = term[v]
    BY <1>1, <1>4, <2>1
  <2>2. CASE grant /\ m.term # term[v]
    BY <1>2, <1>3, <1>4, <2>2
  <2>3. QED
    BY <1>4, <2>1, <2>2
<1> HIDE DEF v, grant, r
<1>7. granted \subseteq granted'
  BY <1>1
<1>8. PvTypes'
  BY <1>1, <1>5 DEF PvTypes
<1>9. NetOK'
  <2> SUFFICES ASSUME NEW n \in pv_net'
               PROVE  /\ n.src # n.dst
                      /\ n.type = "request" => n.term <= term[n.src]
                      /\ n.type = "response" /\ n.accepted
                         => <<n.src, n.dst, n.term>> \in granted' \/ n.term < term[n.dst]
    BY <1>1 DEF NetOK
  <2>1. CASE n \in pv_net
    BY <1>7, <2>1 DEF NetOK
  <2>2. CASE n = r
    BY <1>3, <1>4, <1>6, <2>2
  <2>3. QED
    BY <1>1, <2>1, <2>2
<1>10. ASSUME NEW s \in Voter, NEW w \in Voter, Awaited(s, w) PROVE Awaited(s, w)'
  BY <1>1, <1>4, <1>10 DEF Awaited, v
<1>11. ASSUME NEW s \in Voter PROVE Counted(s)' /\ Waits(s)'
  BY <1>1, <1>7, <1>10, CountKept, StillWaits
<1>12. Pv!NeverIdle'
  BY <1>1 DEF Pv!NeverIdle
<1>13. QED
  BY <1>8, <1>9, <1>11, <1>12

LEMMA PvLose == ASSUME PvInv, NEW m \in pv_net, Pv!Lose(m) PROVE PvInv'
<1> USE DEF PvInv
<1>1. /\ UNCHANGED <<term, role, round, armed, granted>> /\ pv_net' = pv_net \ {m}
      /\ unheard' = unheard \cup {IF m.type = "request" THEN <<m.dst, m.src>>
                                  ELSE <<m.src, m.dst>>}
  BY DEF Pv!Lose, Pv!serverVars
<1>2. PvTypes' /\ Pv!NeverIdle'
  BY <1>1 DEF PvTypes, Pv!NeverIdle
<1>3. NetOK'
  BY <1>1 DEF NetOK
<1>4. ASSUME NEW s \in Voter, NEW v \in Voter, Awaited(s, v) PROVE Awaited(s, v)'
  BY <1>1, <1>4 DEF Awaited
<1>5. ASSUME NEW s \in Voter PROVE Counted(s)' /\ Waits(s)'
  BY <1>1, <1>4, CountKept, StillWaits
<1>6. QED
  BY <1>2, <1>3, <1>5

\* An answer that counts is of the server's term, so its vote is among the granted.
LEMMA PvAnswerCounts ==
  ASSUME PvInv, NEW m \in pv_net, m.type = "response", NEW s \in Voter, m.dst = s,
         ~Pv!Ignored(m), NEW a, a = round[s].accepted + (IF m.accepted THEN 1 ELSE 0)
  PROVE  /\ a \in Nat /\ m.src \in Voter
         /\ a <= Cardinality((round[s].voters \cup {m.src}) \cap For(s))
<1> USE DEF PvInv
<1> DEFINE A == round[s].voters \cap For(s)
           B == (round[s].voters \cup {m.src}) \cap For(s)
<1>1. m.src \in Voter /\ m.term = term[s] /\ m.src \notin round[s].voters
  BY DEF PvTypes, Pv!Ignored
<1>2. round[s].accepted \in Nat /\ m.accepted \in BOOLEAN /\ term[s] \in Nat
  BY DEF PvTypes
<1>3. IsFiniteSet(B) /\ A \subseteq B /\ IsFiniteSet(A)
  BY Voters, FS_Subset DEF For
<1>4. Cardinality(A) <= Cardinality(B) /\ Cardinality(A) \in Nat /\ Cardinality(B) \in Nat
  BY <1>3, FS_Subset, FS_CardinalityType
<1>5. round[s].accepted <= Cardinality(A)
  BY DEF Counted
<1>6. CASE ~m.accepted
  BY <1>1, <1>2, <1>4, <1>5, <1>6
<1>7. CASE m.accepted
  <2>1. <<m.src, s, term[s]>> \in granted
    BY <1>1, <1>2, <1>7 DEF NetOK
  <2>2. B = A \cup {m.src} /\ m.src \notin A
    BY <1>1, <2>1 DEF For
  <2>3. Cardinality(B) = Cardinality(A) + 1
    BY <1>3, <2>2, FS_AddElement
  <2>4. QED
    BY <1>1, <1>2, <1>4, <1>5, <1>7, <2>3
<1>8. QED
  BY <1>2, <1>6, <1>7

LEMMA PvHandleResp ==
  ASSUME PvInv, NEW m \in pv_net, Pv!HandlePrevoteResp(m) PROVE PvInv'
<1> USE DEF PvInv
<1> DEFINE s == m.dst
           a == round[s].accepted + (IF m.accepted THEN 1 ELSE 0)
           r == [on |-> TRUE, voters |-> round[s].voters \cup {m.src}, accepted |-> a]
<1>1. /\ m.type = "response" /\ pv_net' = pv_net \ {m} /\ granted' = granted
      /\ unheard' = IF m.term # term[s] THEN unheard \cup {<<m.src, s>>} ELSE unheard
  BY DEF Pv!HandlePrevoteResp
<1>2. s \in Voter /\ m.src \in Voter
  BY DEF PvTypes
<1>3. \/ Pv!Ignored(m) /\ UNCHANGED <<term, role, round, armed>>
      \/ ~Pv!Ignored(m) /\ Pv!BecomeCandidate(s)
      \/ /\ ~Pv!Ignored(m) /\ UNCHANGED <<term, role>>
         /\ \/ Pv!GiveUp(s)
            \/ ~Pv!Failed(r) /\ round' = [round EXCEPT ![s] = r] /\ UNCHANGED armed
  BY DEF Pv!HandlePrevoteResp, Pv!serverVars
<1>4. ~Pv!Ignored(m) =>
        /\ a \in Nat
        /\ a <= Cardinality((round[s].voters \cup {m.src}) \cap For(s))
  BY <1>1, <1>2, PvAnswerCounts
<1>5. r.on = TRUE /\ r.voters = round[s].voters \cup {m.src} /\ r.accepted = a
  OBVIOUS
<1>6. ~Pv!Ignored(m) => r \in [on : BOOLEAN, voters : SUBSET Voter, accepted : Nat]
  BY <1>2, <1>4 DEF PvTypes
<1> HIDE DEF a, r
<1>7. PvTypes'
  <2>1. CASE Pv!Ignored(m) /\ UNCHANGED <<term, role, round, armed>>
    BY <1>1, <2>1 DEF PvTypes
  <2>2. CASE Pv!BecomeCandidate(s)
    BY <1>1, <1>2, <2>2 DEF PvTypes, Pv!BecomeCandidate, Pv!Off
  <2>3. CASE Pv!GiveUp(s) /\ UNCHANGED <<term, role>>
    BY <1>1, <1>2, <2>3 DEF PvTypes, Pv!GiveUp, Pv!Off, Pv!Empty
  <2>4. CASE ~Pv!Ignored(m) /\ round' = [round EXCEPT ![s] = r]
             /\ UNCHANGED <<term, role, armed>>
    BY <1>1, <1>2, <1>6, <2>4 DEF PvTypes
  <2>5. QED
    BY <1>3, <2>1, <2>2, <2>3, <2>4
<1>8. NetOK'
  <2>1. \A t \in Voter : term[t] <= term'[t]
    BY <1>2, <1>3 DEF PvTypes, Pv!BecomeCandidate
  <2>2. term' \in [Voter -> Nat] /\ PvTypes /\ NetOK
    BY <1>7 DEF PvTypes
  <2>3. pv_net' \subseteq pv_net /\ granted \subseteq granted'
    BY <1>1
  <2>4. QED
    BY <2>1, <2>2, <2>3, NetShrinks
<1>9. Pv!NeverIdle'
  <2>1. CASE UNCHANGED <<role, round, armed>>
    BY <2>1 DEF Pv!NeverIdle
  <2>2. CASE Pv!BecomeCandidate(s)
    BY <1>2, <2>2 DEF Pv!NeverIdle, PvTypes, Pv!BecomeCandidate
  <2>3. CASE Pv!GiveUp(s) /\ UNCHANGED role
    BY <1>2, <2>3 DEF Pv!NeverIdle, PvTypes, Pv!GiveUp
  <2>4. CASE round' = [round EXCEPT ![s] = r] /\ UNCHANGED <<role, armed>>
    BY <1>2, <1>5, <2>4 DEF Pv!NeverIdle, PvTypes
  <2>5. QED
    BY <1>3, <2>1, <2>2, <2>3, <2>4
\* The answer that is taken was awaited by s, from its sender, and by no other.
<1>10. ASSUME NEW t \in Voter, NEW v \in Voter, Awaited(t, v), t # s \/ v # m.src
       PROVE  Awaited(t, v)'
  BY <1>1, <1>10 DEF Awaited
<1>11. ASSUME NEW t \in Voter, t # s PROVE Counted(t)' /\ Waits(t)'
  <2>1. round'[t] = round[t] /\ term'[t] = term[t]
    BY <1>2, <1>3, <1>11 DEF Pv!BecomeCandidate, Pv!GiveUp, PvTypes
  <2>2. QED
    BY <1>1, <1>10, <1>11, <2>1, CountKept, StillWaits
<1>12. CASE Pv!Ignored(m) /\ UNCHANGED <<term, role, round, armed>>
  <2>1. Counted(s)'
    BY <1>1, <1>2, <1>12, CountKept
  <2>2. ASSUME s \in round[s].voters, NEW v \in Voter \ round[s].voters, Awaited(s, v)
        PROVE  Awaited(s, v)'
    <3>1. CASE v # m.src
      BY <1>2, <1>10, <2>2, <3>1
    <3>2. CASE v = m.src
      <4>1. round[s].on
        BY <1>2, <2>2 DEF Counted
      <4>2. m.term # term[s]
        BY <1>12, <2>2, <3>2, <4>1 DEF Pv!Ignored
      <4>3. QED
        BY <1>1, <3>2, <4>2 DEF Awaited
    <3>3. QED
      BY <3>1, <3>2
  <2>3. Waits(s)'
    BY <1>2, <1>12, <2>2 DEF Waits
  <2>4. QED
    BY <1>7, <1>8, <1>9, <1>11, <2>1, <2>3
<1>13. CASE Pv!BecomeCandidate(s) \/ Pv!GiveUp(s)
  <2>1. round'[s] = Pv!Off \/ round'[s] = Pv!Empty
    BY <1>2, <1>13 DEF Pv!BecomeCandidate, Pv!GiveUp, PvTypes
  <2>2. QED
    BY <1>2, <1>7, <1>8, <1>9, <1>11, <2>1, NoRound
<1>14. CASE /\ ~Pv!Ignored(m) /\ UNCHANGED term
            /\ ~Pv!Failed(r) /\ round' = [round EXCEPT ![s] = r]
  <2>1. round'[s] = r
    BY <1>2, <1>14 DEF PvTypes
  <2>2. Counted(s)'
    <3>1. For(s)' = For(s)
      BY <1>1, <1>14 DEF For
    <3>2. QED
      BY <1>4, <1>5, <1>14, <2>1, <3>1 DEF Counted
  <2>3. Waits(s)'
    <3> SUFFICES ASSUME s \in r.voters
                 PROVE  r.voters # Voter /\ \A v \in Voter \ r.voters : Awaited(s, v)'
      BY <2>1 DEF Waits
    <3>1. r.voters # Voter
      BY <1>14 DEF Pv!Failed
    <3>2. ASSUME NEW v \in Voter \ r.voters PROVE Awaited(s, v)'
      <4>1. v \in Voter \ round[s].voters /\ v # m.src
        BY <1>5
      <4>2. CASE s \in round[s].voters
        BY <1>2, <1>10, <4>1, <4>2 DEF Waits
      <4>3. s # m.src
        BY DEF NetOK
      <4>4. QED
        BY <1>5, <4>2, <4>3
    <3>3. QED
      BY <3>1, <3>2
  <2>4. QED
    BY <1>7, <1>8, <1>9, <1>11, <2>2, <2>3
<1>15. QED
  BY <1>3, <1>12, <1>13, <1>14

-----------------------------------------------------------------------------
(* The theorems *)

LEMMA PvInit == ASSUME Pv!Init PROVE PvInv
<1> USE DEF Pv!Init
<1>1. PvTypes
  BY DEF PvTypes, Pv!Off
<1>2. \A s \in Voter : round[s].voters = {} /\ round[s].accepted = 0
  BY DEF Pv!Off
<1>3. \A s \in Voter : round[s].voters \cap For(s) = {}
  BY <1>2
<1>4. \A s \in Voter : Counted(s) /\ Waits(s)
  BY <1>2, <1>3, FS_EmptySet DEF Counted, Waits
<1>5. NetOK /\ Pv!NeverIdle
  BY DEF NetOK, Pv!NeverIdle
<1>6. QED
  BY <1>1, <1>4, <1>5 DEF PvInv

LEMMA PvStep == ASSUME PvInv, Pv!Next PROVE PvInv'
<1>1. ASSUME NEW m \in pv_net,
             Pv!HandlePrevoteReq(m) \/ Pv!HandlePrevoteResp(m) \/ Pv!Lose(m)
      PROVE  PvInv'
  BY <1>1, PvHandleReq, PvHandleResp, PvLose
<1>2. ASSUME NEW s \in Voter,
             \/ Pv!ElectionTimeout(s) \/ Pv!UpdateTerm(s) \/ Pv!BecomeLeader(s)
             \/ Pv!HearFromLeader(s)
      PROVE  PvInv'
  BY <1>2, PvElectionTimeout, PvUpdateTerm, PvBecomeLeader, PvHearFromLeader
<1>3. QED
  BY <1>1, <1>2 DEF Pv!Next

LEMMA PvInvariance == EitherSpec => [](part = "prevote" => PvInv)
<1>1. EitherInit => PvInv
  BY PvInit DEF EitherInit
<1>2. PvInv /\ [EitherNext]_<<part, vars, pv_vars>> => PvInv'
  <2> SUFFICES ASSUME PvInv, [EitherNext]_<<part, vars, pv_vars>> PROVE PvInv'
    OBVIOUS
  <2>1. CASE Pv!Next
    BY <2>1, PvStep
  <2>2. CASE UNCHANGED pv_vars
    <3>1. UNCHANGED <<term, role, round, armed, pv_net, granted, unheard>>
      BY <2>2 DEF pv_vars
    <3>2. PvTypes' /\ NetOK' /\ Pv!NeverIdle'
      BY <3>1 DEF PvInv, PvTypes, NetOK, Pv!NeverIdle
    <3>3. ASSUME NEW s \in Voter PROVE Counted(s)' /\ Waits(s)'
      BY <3>1, OthersKept
    <3>4. QED
      BY <3>2, <3>3 DEF PvInv
  <2>3. QED
    BY <2>1, <2>2 DEF EitherNext
<1>3. QED
  BY <1>1, <1>2, PTL DEF EitherSpec

\* A server that does not lead has its election timer running or a round of prevote
\* that has not ended (handle_election_timeout, handle_prevote_resp).
THEOREM TimerOrRound == EitherSpec => []NeverIdle
<1>1. (part = "prevote" => PvInv) => NeverIdle
  BY DEF PvInv, NeverIdle
<1>2. QED
  BY <1>1, PvInvariance, PTL

\* A round that a server has begun waits for an answer that is on its way, lost or
\* of another term, never for nothing (handle_prevote_resp).
THEOREM RoundsWait == EitherSpec => []RoundGoesOn
<1>1. (part = "prevote" => PvInv) => RoundGoesOn
  <2> SUFFICES ASSUME PvInv, NEW s \in Voter, s \in round[s].voters
               PROVE  \E v \in Voter \ round[s].voters : Awaited(s, v)
    BY DEF RoundGoesOn, Pv!RoundGoesOn, Awaited
  <2>1. round[s].voters \subseteq Voter
    BY DEF PvInv, PvTypes
  <2>2. QED
    BY <2>1 DEF PvInv, Waits
<1>2. QED
  BY <1>1, PvInvariance, PTL

\* For any number of servers, a follower becomes a candidate only when more than half
\* of them, in its term, would vote for it, whatever answers of earlier terms are
\* still on their way (handle_prevote_resp).
THEOREM CandidatesHadMajority == EitherSpec => CandidateHadMajority
<1> DEFINE Had(s) == role[s] = "follower" /\ role'[s] = "candidate"
                     => Pv!Cardinality(For(s)) >= Pv!Majority
<1>1. PvInv /\ Pv!Next => \A s \in Voter : Had(s)
  <2> SUFFICES ASSUME PvInv, Pv!Next, NEW s \in Voter,
                      role[s] = "follower", role'[s] = "candidate"
               PROVE  Pv!Cardinality(For(s)) >= Pv!Majority
    OBVIOUS
  <2> USE DEF PvInv, PvTypes
  <2>1. ASSUME NEW t \in Voter,
               \/ Pv!ElectionTimeout(t) \/ Pv!UpdateTerm(t) \/ Pv!BecomeLeader(t)
               \/ Pv!HearFromLeader(t)
        PROVE  role'[s] # "candidate"
    BY <2>1 DEF Pv!ElectionTimeout, Pv!BecomeCandidate, Pv!UpdateTerm, Pv!BecomeFollower,
                Pv!BecomeLeader, Pv!HearFromLeader
  <2>2. PICK m \in pv_net : Pv!HandlePrevoteResp(m)
    BY <2>1 DEF Pv!Next, Pv!HandlePrevoteReq, Pv!Lose, Pv!serverVars
  <2> DEFINE a == round[s].accepted + (IF m.accepted THEN 1 ELSE 0)
             voted == round[s].voters \cup {m.src}
  <2>3. m.type = "response" /\ m.dst = s /\ ~Pv!Ignored(m) /\ a >= Pv!Majority
    BY <2>2 DEF Pv!HandlePrevoteResp, Pv!BecomeCandidate, Pv!serverVars
  <2>4. a \in Nat /\ a <= Cardinality(voted \cap For(s))
    BY <2>3, PvAnswerCounts
  <2>5. Cardinality(voted \cap For(s)) <= Cardinality(For(s))
    <3>1. IsFiniteSet(For(s)) /\ voted \cap For(s) \subseteq For(s)
      BY Voters, FS_Subset DEF For
    <3>2. QED
      BY <3>1, FS_Subset
  <2>6. /\ Cardinality(voted \cap For(s)) \in Nat /\ Cardinality(For(s)) \in Nat
        /\ Cardinality(Voter) \in Nat
    <3>1. IsFiniteSet(For(s)) /\ IsFiniteSet(voted \cap For(s))
      BY Voters, FS_Subset DEF For
    <3>2. QED
      BY <3>1, Voters, FS_CardinalityType
  <2>7. Pv!Majority \in Nat
    BY <2>6, Voters DEF Pv!Majority
  <2> HIDE DEF a, voted
  <2>8. QED
    BY <2>3, <2>4, <2>5, <2>6, <2>7, Voters
<1>2. (part = "prevote" => PvInv) /\ [EitherNext]_<<part, vars, pv_vars>>
        => [\A s \in Voter : Had(s)]_(Pv!vars)
  <2> SUFFICES ASSUME part = "prevote" => PvInv, EitherNext, ~(UNCHANGED Pv!vars)
               PROVE  \A s \in Voter : Had(s)
    BY DEF pv_vars, Pv!vars, Pv!serverVars
  <2>1. part = "prevote" /\ Pv!Next
    BY DEF EitherNext, pv_vars, Pv!vars, Pv!serverVars
  <2>2. QED
    BY <1>1, <2>1
<1>3. [\A s \in Voter : Had(s)]_(Pv!vars)
        => [\A s \in Voter : role[s] = "follower" /\ role'[s] = "candidate"
             => Pv!Cardinality({v \in Voter : v = s \/ <<v, s, term[s]>> \in granted})
                  >= Pv!Majority]_(Pv!vars)
  BY DEF For
<1>4. QED
  BY <1>2, <1>3, PvInvariance, PTL DEF EitherSpec, CandidateHadMajority, Pv!CandidateHadMajority
=============================================================================
