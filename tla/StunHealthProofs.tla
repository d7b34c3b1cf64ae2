--------------------------- MODULE StunHealthProofs ---------------------------
(***************************************************************************)
(* The vote of one slot, for any number of servers, dead, lying or listed  *)
(* twice, any re-keyings and any answers lost, late or copied.             *)
(***************************************************************************)
EXTENDS StunHealth, FiniteSetTheorems, TLAPS

(* An answer in the receive loop's hand is an answer. *)
InHand == rx.at # "listen" => rx.tuple \in Reports

(* Every vote is the word of a server heard since the confirmed tuple was. *)
VotesHeard ==
  \A k \in 1 .. VoteSlots :
    pend[k] # None => \E r \in heard : r.tuple = pend[k] /\ IndexOf(r.addr) = k

VoteInv == TypeOK /\ InHand /\ VotesHeard

-----------------------------------------------------------------------------
LEMMA Rotation ==
  /\ NServers \in Nat /\ NServers > 0
  /\ Servers[1] \in Addrs
  /\ \A c \in 1 .. NServers : Servers[c] \in Addrs /\ (c % NServers) + 1 \in 1 .. NServers
BY ServerAssumption DEF NServers, Addrs

LEMMA NobodyVoted == NoVotes \in [1 .. VoteSlots -> Reports \cup {None}]
BY DEF NoVotes

(* A tuple with two votes has one that is not the server's own. *)
LEMMA SecondVote ==
  ASSUME TypeOK, NEW a, NEW t, Agreed(a, t)
  PROVE  \E k \in 1 .. VoteSlots : k # IndexOf(a) /\ pend[k] = t
<1> DEFINE S == {k \in 1 .. VoteSlots : Voted(a, t)[k] = t}
           i == IndexOf(a)
<1>1. Cardinality(S) >= 2
  BY DEF Agreed
<1>2. ~(S \subseteq {i})
  <2> SUFFICES ASSUME S \subseteq {i} PROVE FALSE
    OBVIOUS
  <2>1. IsFiniteSet({i}) /\ Cardinality({i}) = 1
    BY FS_Singleton
  <2>2. Cardinality(S) \in Nat /\ Cardinality(S) <= 1
    BY <2>1, FS_Subset, FS_CardinalityType
  <2> QED BY <1>1, <2>2
<1>3. PICK k \in S : k # i
  BY <1>2
<1> QED BY <1>3 DEF Voted

-----------------------------------------------------------------------------
LEMMA InitVote == Init => VoteInv
<1> SUFFICES ASSUME Init PROVE VoteInv
  OBVIOUS
<1>1. TypeOK
  BY Rotation, NobodyVoted, BoundAssumption, ServerAssumption DEF Init, TypeOK, Listening
<1>2. InHand /\ VotesHeard
  BY DEF Init, InHand, VotesHeard, Listening, NoVotes
<1> QED BY <1>1, <1>2 DEF VoteInv

(* The carrier, the network and the keepalive loop leave the vote alone.   *)
LEMMA OthersKeepVote ==
  ASSUME VoteInv, Rekey \/ Ask \/ NoteSilence \/ Lose \/ Delay
  PROVE  VoteInv'
<1> USE Rotation, BoundAssumption, ServerAssumption, LiarAssumption
<1>1. UNCHANGED <<rx, vote>>
  BY DEF Rekey, Ask, NoteSilence, Lose, Delay, network
<1>2. InHand' /\ VotesHeard'
  BY <1>1 DEF VoteInv, InHand, VotesHeard, vote
<1>3. TypeOK'
  <2>1. CASE Rekey
    BY <2>1 DEF VoteInv, TypeOK, Rekey, vote
  <2>2. CASE Ask
    BY <2>2 DEF VoteInv, TypeOK, Ask, vote, Answer, Report, Reports, Addrs
  <2>3. CASE NoteSilence
    <3>1. cur' \in 1 .. NServers
      BY <2>3 DEF VoteInv, TypeOK, NoteSilence, NextServer
    <3>2. silent' \in 0 .. RotateAfter
      BY <2>3 DEF VoteInv, TypeOK, NoteSilence
    <3> QED BY <2>3, <3>1, <3>2 DEF VoteInv, TypeOK, NoteSilence, network, vote
  <2>4. CASE Lose
    BY <2>4 DEF VoteInv, TypeOK, Lose, vote
  <2>5. CASE Delay
    BY <2>5 DEF VoteInv, TypeOK, Delay, vote
  <2> QED BY <2>1, <2>2, <2>3, <2>4, <2>5
<1> QED BY <1>2, <1>3 DEF VoteInv

LEMMA ReceiveKeepsVote ==
  ASSUME VoteInv, NEW r \in wire \cup late, Receive(r)
  PROVE  VoteInv'
<1>1. r \in Answer
  BY DEF VoteInv, TypeOK
<1>2. TypeOK'
  BY <1>1, BoundAssumption DEF VoteInv, TypeOK, Receive, NoteResponse, Answer, vote
<1>3. InHand' /\ VotesHeard'
  BY <1>1 DEF VoteInv, InHand, VotesHeard, Receive, Answer, vote
<1> QED BY <1>2, <1>3 DEF VoteInv

LEMMA DecisionKeepsVote ==
  ASSUME VoteInv, Heal \/ Churn \/ Disagree \/ MarkSuspect
  PROVE  VoteInv'
<1> USE Rotation, NobodyVoted, BoundAssumption
<1>1. CASE Heal
  <2>1. TypeOK' /\ InHand'
    BY <1>1 DEF VoteInv, TypeOK, InHand, Heal, Listening, network
  <2>2. VotesHeard'
    BY <1>1 DEF Heal, VotesHeard, NoVotes
  <2> QED BY <2>1, <2>2 DEF VoteInv
<1>2. CASE Churn
  <2>1. TypeOK' /\ InHand'
    BY <1>2 DEF VoteInv, TypeOK, InHand, Churn, Listening, network
  <2>2. VotesHeard'
    BY <1>2 DEF Churn, VotesHeard, NoVotes
  <2> QED BY <2>1, <2>2 DEF VoteInv
<1>3. CASE Disagree
  <2>1. rx.tuple \in Reports /\ rx.addr \in Addrs
    BY <1>3 DEF VoteInv, TypeOK, InHand, Disagree
  <2>2. pend' \in [1 .. VoteSlots -> Reports \cup {None}]
    BY <1>3, <2>1 DEF VoteInv, TypeOK, Disagree, Voted
  <2>3. [addr |-> rx.addr, tuple |-> rx.tuple] \in Answer
    BY <2>1 DEF Answer
  <2>4. TypeOK' /\ InHand'
    BY <1>3, <2>1, <2>2, <2>3 DEF VoteInv, TypeOK, InHand, Disagree, network
  <2>5. VotesHeard'
    <3> SUFFICES ASSUME NEW k \in 1 .. VoteSlots, pend'[k] # None
                 PROVE  \E r \in heard' : r.tuple = pend'[k] /\ IndexOf(r.addr) = k
      BY DEF VotesHeard
    <3> DEFINE mine == [addr |-> rx.addr, tuple |-> rx.tuple]
    <3>1. mine \in heard' /\ heard \subseteq heard'
      BY <1>3 DEF Disagree
    <3>2. CASE k = IndexOf(rx.addr)
      <4>1. pend'[k] = rx.tuple
        BY <1>3, <3>2 DEF Disagree, Voted
      <4> QED BY <3>1, <3>2, <4>1
    <3>3. CASE k # IndexOf(rx.addr)
      <4>1. pend'[k] = pend[k]
        BY <1>3, <3>3 DEF Disagree, Voted
      <4> QED BY <3>1, <4>1 DEF VoteInv, VotesHeard
    <3> QED BY <3>2, <3>3
  <2> QED BY <2>4, <2>5 DEF VoteInv
<1>4. CASE MarkSuspect
  <2>1. TypeOK' /\ InHand'
    BY <1>4 DEF VoteInv, TypeOK, InHand, MarkSuspect, NextServer, Listening, network, vote
  <2>2. VotesHeard'
    BY <1>4 DEF VoteInv, MarkSuspect, VotesHeard, vote
  <2> QED BY <2>1, <2>2 DEF VoteInv
<1> QED BY <1>1, <1>2, <1>3, <1>4

LEMMA VoteKept == VoteInv /\ [Next]_vars => VoteInv'
<1> SUFFICES ASSUME VoteInv, [Next]_vars PROVE VoteInv'
  OBVIOUS
<1>1. CASE UNCHANGED vars
  BY <1>1 DEF vars, VoteInv, TypeOK, InHand, VotesHeard
<1> QED BY <1>1, OthersKeepVote, ReceiveKeepsVote, DecisionKeepsVote DEF Next

LEMMA VoteHolds == Spec => []VoteInv
BY InitVote, VoteKept, PTL DEF Spec

(* Types, through any rotation and any history of votes. *)
THEOREM VoteTypes == Spec => []TypeOK
<1>1. VoteInv => TypeOK
  BY DEF VoteInv
<1> QED BY VoteHolds, <1>1, PTL

(* VoteState::observe (vote.rs) moves a confirmed tuple on the word of two *)
(* servers at different addresses, both heard since it was last confirmed, *)
(* however many servers there are and whatever the network does.           *)
THEOREM TwoMoveTheTuple == Spec => MovesOnTwo
<1> DEFINE Moved == confirmed # None /\ confirmed' # confirmed =>
                      \E r \in heard : r.tuple = confirmed' /\ r.addr # rx.addr
<1>1. ASSUME VoteInv, [Next]_vars PROVE [Moved]_vars
  <2>1. CASE Churn
    <3> SUFFICES ASSUME confirmed # None
                 PROVE  \E r \in heard : r.tuple = confirmed' /\ r.addr # rx.addr
      OBVIOUS
    <3>1. confirmed' = rx.tuple /\ Agreed(rx.addr, rx.tuple) /\ rx.tuple \in Reports
      BY <1>1, <2>1 DEF Churn, VoteInv, InHand
    <3>2. PICK k \in 1 .. VoteSlots : k # IndexOf(rx.addr) /\ pend[k] = rx.tuple
      BY <1>1, <3>1, SecondVote DEF VoteInv
    <3>3. PICK r \in heard : r.tuple = pend[k] /\ IndexOf(r.addr) = k
      BY <1>1, <3>1, <3>2, NoneAssumption DEF VoteInv, VotesHeard
    <3> QED BY <3>1, <3>2, <3>3
  <2>2. CASE UNCHANGED confirmed
    BY <2>2
  <2>3. ~Churn => UNCHANGED confirmed
    BY <1>1 DEF Next, vars, vote, Rekey, Ask, NoteSilence, Lose, Delay, Receive, Heal, Disagree,
                MarkSuspect
  <2> QED BY <2>1, <2>2, <2>3
<1> QED BY VoteHolds, <1>1, PTL DEF Spec, MovesOnTwo
=============================================================================
