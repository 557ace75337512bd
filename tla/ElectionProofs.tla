--------------------------- MODULE ElectionProofs ---------------------------
(***************************************************************************)
(* One vote per server and term, and a majority behind every election,     *)
(* leave room for one leader per term.                                     *)
(***************************************************************************)
EXTENDS Election, FiniteSetTheorems, TLAPS

\* More voters never unmake a majority.
LEMMA MajorityMonotone ==
  ASSUME ElectionAssumption,
         NEW A, NEW B \in SUBSET Server, A \subseteq B, Majority(A)
  PROVE  Majority(B)
<1>1. IsFiniteSet(B) /\ IsFiniteSet(Server)
  BY FS_Subset DEF ElectionAssumption
<1>2. A \in SUBSET B
  OBVIOUS
<1>3. Cardinality(A) <= Cardinality(B)
  BY <1>1, <1>2, FS_Subset
<1>4. /\ Cardinality(A) \in Nat /\ Cardinality(B) \in Nat
      /\ Cardinality(Server) \in Nat
  BY <1>1, <1>2, FS_Subset, FS_CardinalityType
<1>5. QED
  BY <1>3, <1>4 DEF Majority

\* Any two majorities of the servers have a member in common.
LEMMA MajoritiesMeet ==
  ASSUME ElectionAssumption, NEW A \in SUBSET Server, NEW B \in SUBSET Server,
         Majority(A), Majority(B)
  PROVE  A \cap B # {}
<1>1. /\ IsFiniteSet(Server) /\ IsFiniteSet(A) /\ IsFiniteSet(B)
  BY FS_Subset DEF ElectionAssumption
<1>2. /\ Cardinality(A) \in Nat /\ Cardinality(B) \in Nat
      /\ Cardinality(Server) \in Nat
  BY <1>1, FS_CardinalityType
<1>3. Cardinality(A) + Cardinality(B) > Cardinality(Server)
  BY <1>2 DEF Majority
<1>4. QED
  BY <1>1, <1>3, FS_MajoritiesIntersect

\* The inductive invariant: what has been cast and what was won on it.
Inv == TypeOK /\ VoteOnce /\ ElectedByMajority

LEMMA InitInv == Init => Inv
BY DEF Init, Inv, TypeOK, VoteOnce, ElectedByMajority

\* Votes are only ever added, so elections already won stay backed.
LEMMA StillElected ==
  ASSUME ElectionAssumption, TypeOK, TypeOK', ElectedByMajority, votes \subseteq votes',
         NEW e \in elections
  PROVE  Majority(Voters(votes', e[1], e[2]))
<1>1. Majority(Voters(votes, e[1], e[2]))
  BY DEF ElectedByMajority
<1>2. Voters(votes, e[1], e[2]) \subseteq Voters(votes', e[1], e[2])
  BY DEF Voters
<1>3. Voters(votes', e[1], e[2]) \in SUBSET Server
  BY DEF Voters
<1>4. QED
  BY <1>1, <1>2, <1>3, MajorityMonotone

LEMMA NextInv ==
  ASSUME ElectionAssumption, Inv, [Next]_<<votes, elections>> PROVE Inv'
<1> USE DEF Inv
<1>1. CASE UNCHANGED <<votes, elections>>
  BY <1>1 DEF TypeOK, VoteOnce, ElectedByMajority, Voters
<1>2. CASE Next
  <2>1. PICK t \in Term, c \in Server :
          \/ UNCHANGED votes /\ Elect(t, c)
          \/ \E v \in Server :
               Cast(v, t, c) /\ (UNCHANGED elections \/ Elect(t, c))
    BY <1>2 DEF Next
  <2>2. TypeOK'
    BY <2>1 DEF TypeOK, Cast, Elect
  <2>3. VoteOnce'
    <3>1. CASE UNCHANGED votes
      BY <3>1 DEF VoteOnce
    <3>2. ASSUME NEW v \in Server, Cast(v, t, c)
          PROVE  VoteOnce'
      <4> SUFFICES ASSUME NEW x \in votes', NEW y \in votes',
                          x[1] = y[1], x[2] = y[2]
                   PROVE  x = y
        BY DEF VoteOnce
      <4>1. \A z \in votes : z = <<z[1], z[2], z[3]>> /\ z[3] \in Server
        BY DEF TypeOK
      <4>2. \A z \in votes' : z \in votes \/ z = <<v, t, c>>
        BY <3>2 DEF Cast
      <4>3. \A z \in votes : z[1] = v /\ z[2] = t => z = <<v, t, c>>
        BY <3>2, <4>1 DEF Cast
      <4>4. QED
        BY <4>1, <4>2, <4>3 DEF VoteOnce
    <3>3. QED
      BY <2>1, <3>1, <3>2
  <2>4. ElectedByMajority'
    <3>1. votes \subseteq votes'
      BY <2>1 DEF Cast
    <3>2. \A e \in elections : Majority(Voters(votes', e[1], e[2]))
      BY <2>2, <3>1, StillElected
    <3>3. CASE UNCHANGED elections
      BY <3>2, <3>3 DEF ElectedByMajority
    <3>4. CASE Elect(t, c)
      BY <3>2, <3>4 DEF ElectedByMajority, Elect
    <3>5. QED
      BY <2>1, <3>3, <3>4
  <2>5. QED
    BY <2>2, <2>3, <2>4
<1>3. QED
  BY <1>1, <1>2

\* Two winners of a term have a voter in common, who voted once.
LEMMA InvOneLeader ==
  ASSUME ElectionAssumption, Inv PROVE OneLeaderPerTerm
<1> SUFFICES ASSUME NEW e \in elections, NEW f \in elections, e[1] = f[1]
             PROVE  e = f
  BY DEF OneLeaderPerTerm
<1>1. /\ Majority(Voters(votes, e[1], e[2]))
      /\ Majority(Voters(votes, f[1], f[2]))
  BY DEF Inv, ElectedByMajority
<1>2. Voters(votes, e[1], e[2]) \cap Voters(votes, f[1], f[2]) # {}
  BY <1>1, MajoritiesMeet DEF Voters
<1>3. PICK v \in Server : <<v, e[1], e[2]>> \in votes /\ <<v, f[1], f[2]>> \in votes
  BY <1>2 DEF Voters
<1>4. <<v, e[1], e[2]>> = <<v, f[1], f[2]>>
  BY <1>3 DEF Inv, VoteOnce
<1>5. e = <<e[1], e[2]>> /\ f = <<f[1], f[2]>>
  BY DEF Inv, TypeOK
<1>6. QED
  BY <1>4, <1>5

\* The voting discipline of handle_vote_req and the count of handle_voting_resp,
\* taken by themselves, elect at most one leader per term.
THEOREM OneLeader == ElectionAssumption => (Spec => []OneLeaderPerTerm)
<1> SUFFICES ASSUME ElectionAssumption PROVE Spec => []OneLeaderPerTerm
  OBVIOUS
<1>1. Inv /\ [Next]_<<votes, elections>> => Inv'
  BY NextInv
<1>2. Inv => OneLeaderPerTerm
  BY InvOneLeader
<1>3. QED
  BY <1>1, <1>2, InitInv, PTL DEF Spec
=============================================================================
