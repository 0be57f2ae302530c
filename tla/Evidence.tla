------------------------------ MODULE Evidence ------------------------------
(* What the signatures under a point prove to the whole network:
   consensus/src/models/peer_count.rs, models/point/data.rs, dag/{producer,verifier}.rs,
   engine/round_task.rs.

   A point @ r is proven by the next point of its author, that carries signatures of
   2F others.  Every peer keeps what Promise says about the location of the point,
   but the faulty ones, that sign and refer as they like: F peers at most, a peer
   that restarts in these rounds among them.  A point @ r+3 includes the points
   @ r+2 of 2F+1 peers, and through them sees versions of the point.

   The peers of all four rounds are the same.                                   *)
EXTENDS Naturals, FiniteSets

CONSTANTS Peers,      \* scheduled for the rounds r to r+3
          Author,     \* of the point
          Versions    \* of the point, that the author may make

\* PeerCount::try_from: F, as if the number of peers were 3F+1.
OneF == (Cardinality(Peers) + 1) \div 3

ASSUME PeersAssumption ==
  IsFiniteSet(Peers) /\ Cardinality(Peers) >= 3 /\ Author \in Peers

VARIABLES faulty,     \* peers that do not follow the protocol
          versions,   \* that the author made
          loc,        \* the location of the point at each peer
          certified,  \* versions with a proof
          missed      \* versions that some point @ r+3 does not see

evidenceVars == <<faulty, versions, loc, certified, missed>>

\* Its operators say what a peer does with its location.
P == INSTANCE Promise

Honest == Peers \ faulty

Majority         == 2 * OneF + 1     \* PeerCount::majority
MajorityOfOthers == 2 * OneF         \* PeerCount::majority_of_others

EvidenceInit == /\ faulty \in {S \in SUBSET Peers : Cardinality(S) <= OneF}
        /\ versions = {} /\ certified = {} /\ missed = {}
        /\ loc = [q \in Peers |-> P!Untouched]

\* The location of peer q becomes s.
Becomes(q, s) == loc' = [loc EXCEPT ![q] = s]
-----------------------------------------------------------------------------
(* The author makes a version of its point.  A node that follows the protocol makes
   one point in a round, and adds it to its own DAG as a signed one.           *)
MakePoint(v) ==
  /\ \/ Author \in faulty /\ loc' = loc
     \/ /\ Author \in Honest /\ versions = {} /\ loc[Author].made = {}
        /\ Becomes(Author, P!Signed(loc[Author], v))
  /\ versions' = versions \cup {v}
  /\ UNCHANGED <<faulty, certified, missed>>

(* Signer of another peer.                                                     *)
Sign(q, v) ==
  /\ q \in Honest \ {Author} /\ v \in versions
  /\ P!MaySign(loc[q], v) /\ Becomes(q, P!Signed(loc[q], v))
  /\ UNCHANGED <<faulty, versions, certified, missed>>

(* Producer::includes of another peer @ r+1.                                   *)
Include(q, S) ==
  /\ q \in Honest \ {Author} /\ S \subseteq versions
  /\ P!MayInclude(loc[q]) /\ Becomes(q, P!Included(loc[q], S))
  /\ UNCHANGED <<faulty, versions, certified, missed>>

(* Producer::witness of a peer @ r+2.  The author refers to its own point through a
   proof only: "exclude own point from failed round".                          *)
Witness(q, W) ==
  /\ q \in Honest /\ W \subseteq versions
  /\ IF q = Author THEN W = {} /\ 2 \notin loc[q].made ELSE P!MayWitness(loc[q], W)
  /\ Becomes(q, P!Witnessed(loc[q], W))
  /\ UNCHANGED <<faulty, versions, certified, missed>>

\* "evidence must contain only signatures of others"
SignersOf(v) == {q \in Peers \ {Author} : q \in faulty \/ v \in loc[q].handed}

(* Producer::new_point of the author @ r+1, and Verifier::verify_impl of the others:
   the evidence takes 2F signatures.                                           *)
Prove(v) ==
  /\ v \in versions /\ Cardinality(SignersOf(v)) >= MajorityOfOthers
  /\ \/ Author \in faulty /\ loc' = loc
     \/ /\ Author \in Honest /\ P!MayInclude(loc[Author])
        /\ Becomes(Author, P!Included(loc[Author], {v}))
  /\ certified' = certified \cup {v}
  /\ UNCHANGED <<faulty, versions, missed>>

\* What the points @ r+2 of some peers refer to, whatever the faulty ones conceal.
Seen(Q) == UNION {P!Referenced(loc[q]) : q \in Q \ faulty}

(* A point @ r+3 that Verifier::verify_impl accepts.                           *)
MakeLater(Q) ==
  /\ Cardinality(Q) >= Majority
  /\ \A q \in Q \ faulty : 2 \in loc[q].made
  /\ missed' = missed \cup (Versions \ Seen(Q))
  /\ UNCHANGED <<faulty, versions, loc, certified>>

EvidenceNext == \/ \E v \in Versions : MakePoint(v) \/ Prove(v) \/ \E q \in Peers : Sign(q, v)
        \/ \E q \in Peers, S \in SUBSET Versions : Include(q, S) \/ Witness(q, S)
        \/ \E Q \in SUBSET Peers : MakeLater(Q)

EvidenceSpec == EvidenceInit /\ [][EvidenceNext]_evidenceVars
-----------------------------------------------------------------------------
(* The values the network ranges over.                                         *)
EvidenceTypeOK == /\ faulty \subseteq Peers /\ versions \subseteq Versions
          /\ certified \subseteq Versions /\ missed \subseteq Versions
          /\ loc \in [Peers -> P!Locations]

(* Two points of one author in one round never both get evidence: so all the proofs of
   a wave prove the same anchor candidate.                                     *)
OneCertified == \A v, w \in certified : v = w

(* Every point @ r+3 sees the proven version, also if the proof comes to light after
   that point was made.  The anchor of a wave @ r+3 cannot miss an anchor proof @ r
   that has a trigger @ r+1, which is what AnchorCommit takes for granted.     *)
CertifiedIsSeen == certified \cap missed = {}
=============================================================================
