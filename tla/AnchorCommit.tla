---------------------------- MODULE AnchorCommit ----------------------------
(* How a node turns its DAG into the sequence of anchors and their histories:
   consensus/src/dag/commit/{mod,back,anchor_chain}.rs and dag/anchor_stage.rs.

   Every fourth round begins a wave.  Its leader makes an anchor candidate, a proof
   that references it and a trigger that references the proof.  A point links to the
   freshest proof among its dependencies.  A trigger holds the signatures of a quorum
   for the proof, so no later anchor can miss that proof.  A node sees the points
   when its validation tasks resolve them, in any order, and commits what it can;
   still all nodes have to commit the same anchors with the same points.

   The DAG is fixed by Init: `link` and `trigger` tell the leaders' points, and in
   every round there is one more point, that is included in the next round or is
   a witness one round later.                                                  *)
EXTENDS Integers, FiniteSets, Sequences, SequencesExt

CONSTANTS Waves,       \* bound: waves after genesis
          History,     \* commit_history_rounds
          MaxOdd,      \* bound: points that are not resolved at once, or a witness only
          MaxBad       \* bound: certified points that this node finds invalid

ASSUME BoundsAssumption ==
  Waves \in Nat /\ History \in Nat \ {0} /\ MaxOdd \in Nat /\ MaxBad \in Nat

VARIABLES link,      \* wave -> wave of the proof its anchor links to
          trigger,   \* waves with a trigger
          skipped,   \* rounds of the points that are a witness only
          late,      \* points not resolved yet
          bad,       \* points resolved as not valid but certified
          top, bottom, full_history_bottom,     \* rounds of DagBack; Committer
          used_proof, used_trigger,             \* waves, AnchorStage::is_used
          committed, \* points, ValidPoint::is_committed
          queue,     \* AnchorChain
          stage,     \* of the running Committer::commit
          todo,      \* its triggers not processed yet
          out,       \* its result so far
          start,     \* first anchor to execute, as the adapter knows it
          executed,  \* what was committed since, with the points
          panicked   \* an assertion failed

graph == <<link, trigger, skipped>>
flags == <<used_proof, used_trigger, committed>>
vars  == <<graph, late, bad, top, bottom, full_history_bottom, flags, queue, stage, todo, out,
           start, executed, panicked>>

Genesis == 2                      \* align_genesis
NoProof == -1

AnchorRound(w)  == 4 * w + 1      \* AnchorStage::role
ProofRound(w)   == 4 * w + 2
TriggerRound(w) == 4 * w + 3
LastRound       == 4 * Waves + 4

Larger(a, b)  == IF a > b THEN a ELSE b
Smaller(a, b) == IF a < b THEN a ELSE b

Leader(r) == <<"leader", r>>
Other(r)  == <<"other", r>>
RoundOf(p) == p[2]
Points == {Leader(r) : r \in Genesis..LastRound} \cup {Other(r) : r \in Genesis + 1..LastRound}

Includes(p) == LET r == RoundOf(p) - 1
               IN  ({Leader(r)} \cup IF p[1] = "leader" /\ r \notin skipped THEN {Other(r)} ELSE {})
                     \cap Points
Witness(p)  == LET r == RoundOf(p) - 2
               IN  IF p[1] = "leader" /\ r \in skipped THEN {Other(r)} ELSE {}

Result(p) == IF p \in late THEN "later" ELSE IF p \in bad THEN "conflict" ELSE "valid"

(* A proof with a trigger is seen by every later anchor: its signers include it, and
   each point has a quorum of includes.                                        *)
Linked(l, t) ==
  \A w \in 1..Waves : l[w] # NoProof =>
    /\ l[w] < w /\ (l[w] > 0 => l[l[w]] # NoProof)
    /\ \A v \in t : v < w => l[w] >= v

\* Subsets of at most n elements, without enumerating the others.
UpTo(n, S) ==
  LET Sub[k \in 0..n] == IF k = 0 THEN {{}} ELSE {x \cup {p} : x \in Sub[k - 1], p \in S} \cup {{}}
  IN  Sub[n]

Init == /\ link \in [1..Waves -> {NoProof} \cup 0..Waves]
        /\ trigger \in SUBSET {w \in 1..Waves : link[w] # NoProof}
        /\ Linked(link, trigger)
        /\ skipped \in UpTo(MaxOdd, Genesis + 1..LastRound - 2)
        /\ late \in UpTo(MaxOdd - Cardinality(skipped), {p \in Points : RoundOf(p) > Genesis})
        /\ bad = {}
        /\ top = Genesis + 1 /\ bottom = Genesis /\ full_history_bottom = Genesis + History
        /\ used_proof = {0} /\ used_trigger = {} /\ committed = {}
        /\ queue = <<>> /\ stage = "idle" /\ todo = <<>> /\ out = <<>>
        /\ start = 0 /\ executed = <<>> /\ panicked = FALSE
-----------------------------------------------------------------------------
(* DagBack::extend_from_front with the next round.                             *)
ExtendFromFront ==
  /\ stage = "idle" /\ top < LastRound /\ top' = top + 1
  /\ UNCHANGED <<graph, late, bad, bottom, full_history_bottom, flags, queue, stage, todo, out,
                 start, executed, panicked>>

(* A validation task resolves a point of the DAG.                              *)
Resolve(p, valid) ==
  /\ p \in late /\ RoundOf(p) <= top /\ late' = late \ {p}
  /\ IF valid THEN bad' = bad ELSE Cardinality(bad) < MaxBad /\ bad' = bad \cup {p}
  /\ UNCHANGED <<graph, top, bottom, full_history_bottom, flags, queue, stage, todo, out,
                 start, executed, panicked>>

\* Committer::drop_upto cannot leave the DAG empty.
NewBottom(round) == Smaller(round + 1, top)

(* Inner::dropping and Committer::drop_upto: the commit fails, what it dequeued is
   lost, and the window is dropped up to the conflict.                         *)
HistoryConflict(round) ==
  LET new_bottom == NewBottom(round)
  IN  /\ bottom' = Larger(bottom, new_bottom)
      /\ queue' = SelectSeq(queue, LAMBDA next : AnchorRound(next.wave) >= new_bottom)
      /\ full_history_bottom' = new_bottom + History
      /\ start' = full_history_bottom' /\ executed' = <<>>
      /\ stage' = "idle" /\ todo' = <<>> /\ out' = <<>>
      /\ UNCHANGED <<graph, late, bad, top, flags, panicked>>

\* Mutant: the round of the anchor is taken for that of its proof.
TopAnchorRound == AnchorRound(Last(queue).wave)

\* AnchorChain::top_proof_round
TopProofRound == ProofRound(Last(queue).wave)

\* Mutant: the current round is excluded.
TriggerWavesShort ==
  LET lowest == IF queue = <<>> THEN bottom ELSE TopProofRound
  IN  {w \in 1..Waves : /\ TriggerRound(w) >= lowest /\ TriggerRound(w) < top - 1
                        /\ \A u \in used_trigger : u < w}

\* DagBack::triggers: waves whose trigger stage is visited.
TriggerWaves ==
  LET lowest == IF queue = <<>> THEN bottom ELSE TopProofRound
  IN  {w \in 1..Waves : /\ TriggerRound(w) >= lowest /\ TriggerRound(w) < top
                        /\ \A u \in used_trigger : u < w}

(* Committer::commit begins with the triggers that are ready.                  *)
StartCommit ==
  /\ stage = "idle"
  /\ LET conflicts == {w \in TriggerWaves : Result(Leader(TriggerRound(w))) = "conflict"}
         ready     == {w \in TriggerWaves \cap trigger : Result(Leader(TriggerRound(w))) = "valid"}
     IN  \/ \E w \in conflicts : HistoryConflict(TriggerRound(w))
         \/ /\ conflicts = {} /\ todo' = SetToSortSeq(ready, <) /\ stage' = "enqueue"
            /\ UNCHANGED <<graph, late, bad, top, bottom, full_history_bottom, flags, queue, out,
                           start, executed, panicked>>
-----------------------------------------------------------------------------
(* DagBack::last_unusable_proof_round, from the proof of wave w.               *)
LastUnusableFrom[w \in 0..Waves] ==
  IF ProofRound(w) <= bottom THEN [result |-> "valid", round |-> ProofRound(w)]
  ELSE IF w = 0 THEN [result |-> "panic", round |-> Genesis]
  ELSE IF Result(Leader(ProofRound(w))) # "valid"
    THEN [result |-> Result(Leader(ProofRound(w))), round |-> ProofRound(w)]
  ELSE IF Result(Leader(AnchorRound(w))) # "valid"
    THEN [result |-> Result(Leader(AnchorRound(w))), round |-> AnchorRound(w)]
  ELSE LastUnusableFrom[link[w]]

\* Mutant: the proof before the first one is taken for unusable.
LastUnusableDirect(t) == [result |-> "valid", round |-> ProofRound(link[t])]

LastUnusable(t) == LastUnusableFrom[t]

(* DagBack::anchor_chain, from the proof of wave w down to last_proof_round.    *)
ChainFrom(last_proof_round, t) ==
  LET lowest == Larger(last_proof_round + 1, bottom)
      Chain[w \in 0..Waves] ==
        IF ProofRound(w) < lowest
          THEN [result |-> "end", round |-> ProofRound(w), part |-> <<>>]
        ELSE IF w \in used_proof
          THEN [result |-> IF last_proof_round <= bottom THEN "valid" ELSE "panic",
                round |-> ProofRound(w), part |-> <<>>]
        ELSE IF Result(Leader(ProofRound(w))) # "valid"
          THEN [result |-> Result(Leader(ProofRound(w))), round |-> ProofRound(w), part |-> <<>>]
        ELSE IF AnchorRound(w) < lowest
          THEN [result |-> IF AnchorRound(w) <= bottom THEN "end" ELSE "panic",
                round |-> ProofRound(w), part |-> <<>>]
        ELSE IF Result(Leader(AnchorRound(w))) # "valid"
          THEN [result |-> Result(Leader(AnchorRound(w))), round |-> AnchorRound(w), part |-> <<>>]
        ELSE LET before == Chain[link[w]]
             IN  [before EXCEPT !.part = Append(@, [wave |-> w, direct |-> w = t])]
  IN  Chain[t]

\* The result of anchor_chain: a part is taken only if it continues the chain.
AnchorChain(last_proof_round, t) ==
  LET c == ChainFrom(last_proof_round, t)
  IN  IF last_proof_round >= ProofRound(t) THEN [result |-> "valid", round |-> 0, part |-> <<>>]
      ELSE IF c.result # "end" THEN c
      ELSE IF c.part # <<>> /\ ProofRound(link[Head(c.part).wave]) <= last_proof_round
        THEN [c EXCEPT !.result = "valid"]
        ELSE [c EXCEPT !.result = "later"]

\* The assertion of enqueue_new_anchors: a part is contiguous, and continues the queue.
Contiguous(q, part) ==
  LET all == q \o part
  IN  \A i \in Len(q) + 1..Len(all) : i > 1 => link[all[i].wave] = all[i - 1].wave

(* Committer::enqueue_new_anchors, one iteration.                              *)
Enqueue ==
  /\ stage = "enqueue"
  /\ IF todo = <<>>
       THEN /\ stage' = "dequeue"
            /\ UNCHANGED <<graph, late, bad, top, bottom, full_history_bottom, flags, queue, todo, out,
                           start, executed, panicked>>
       ELSE LET t    == Head(todo)
                last == IF queue = <<>> THEN LastUnusable(t)
                                        ELSE [result |-> "valid", round |-> TopProofRound]
                c    == IF last.result = "valid" THEN AnchorChain(last.round, t) ELSE last
            IN  \/ /\ c.result = "conflict" /\ HistoryConflict(c.round)
                \/ /\ c.result # "conflict"
                   /\ panicked' = (\/ c.result = "panic"
                                   \/ c.result = "valid" /\ ~Contiguous(queue, c.part))
                   /\ IF c.result = "valid"
                        THEN queue' = queue \o c.part /\ todo' = Tail(todo) /\ stage' = stage
                        ELSE queue' = queue /\ todo' = <<>> /\ stage' = "dequeue"
                   /\ UNCHANGED <<graph, late, bad, top, bottom, full_history_bottom, flags, out,
                                  start, executed>>
-----------------------------------------------------------------------------
\* Points a gather visits in a round, and what they reference below it.
RECURSIVE Gather(_, _, _, _, _)
Gather(round, limit, r0, r1, got) ==
  IF round < limit THEN [failed |-> {}, points |-> got]
  ELSE LET failed == {p \in r0 : Result(p) # "valid"}
           new    == {p \in r0 : p \notin committed}
       IN  IF failed # {} THEN [failed |-> failed, points |-> got]
           ELSE Gather(round - 1, limit, r1 \cup UNION {Includes(p) : p \in new},
                       UNION {Witness(p) : p \in new}, got \cup new)

HistoryLimit(a) == Larger(Genesis + 1, a - History)

\* Mutant: the witness of the anchor is forgotten.
GatherIncluded(a, lowest) ==
  Gather(a - 1, Larger(HistoryLimit(a), lowest), Includes(Leader(a)), {}, {})

\* DagBack::gather_uncommitted over the rounds at or above `lowest`.
GatherUncommitted(a, lowest) ==
  Gather(a - 1, Larger(HistoryLimit(a), lowest), Includes(Leader(a)), Witness(Leader(a)), {})

(* Committer::commit_up_to: dequeue_anchor, or the end of the commit.          *)
Dequeue ==
  /\ stage = "dequeue"
  /\ IF queue = <<>>
       THEN /\ executed' = executed \o SelectSeq(out, LAMBDA x : AnchorRound(x.wave) >= start)
            /\ stage' = "idle" /\ out' = <<>>
            /\ UNCHANGED <<graph, late, bad, top, bottom, full_history_bottom, flags, queue, todo,
                           start, panicked>>
       ELSE LET next == Head(queue)
                a    == AnchorRound(next.wave)
                low  == Larger(bottom, a - History)
                g    == GatherUncommitted(a, low)
            IN  \/ /\ g.failed = {}
                   /\ bottom' = low /\ queue' = Tail(queue)
                   /\ used_proof' = used_proof \cup {next.wave}
                   /\ used_trigger' = used_trigger \cup IF next.direct THEN {next.wave} ELSE {}
                   /\ committed' = committed \cup g.points
                   /\ out' = Append(out, [wave |-> next.wave, points |-> g.points])
                   /\ panicked' = (HistoryLimit(a) >= full_history_bottom /\ low > HistoryLimit(a))
                   /\ UNCHANGED <<graph, late, bad, top, full_history_bottom, stage, todo,
                                  start, executed>>
                \/ /\ \E p \in g.failed : Result(p) = "later"
                   /\ bottom' = low
                   /\ executed' = executed \o SelectSeq(out, LAMBDA x : AnchorRound(x.wave) >= start)
                   /\ stage' = "idle" /\ out' = <<>>
                   /\ UNCHANGED <<graph, late, bad, top, full_history_bottom, flags, queue, todo,
                                  start, panicked>>
                \/ \E p \in g.failed : Result(p) = "conflict" /\ HistoryConflict(RoundOf(p))

Next == \/ ExtendFromFront
        \/ \E p \in Points, valid \in BOOLEAN : Resolve(p, valid)
        \/ StartCommit \/ Enqueue \/ Dequeue

Spec == Init /\ [][Next]_vars

(* The engine goes on, every task resolves and the committer is run again and again. *)
FairSpec == Spec /\ SF_vars(ExtendFromFront) /\ WF_vars(\E p \in Points, v \in BOOLEAN : Resolve(p, v))
                 /\ WF_vars(StartCommit) /\ WF_vars(Enqueue) /\ WF_vars(Dequeue)
-----------------------------------------------------------------------------
(* What all nodes have to agree on, defined by the DAG alone.                  *)
CanonFrom[w \in 0..Waves] == IF w = 0 THEN <<>> ELSE Append(CanonFrom[link[w]], w)

\* The anchors before the last trigger.
Canon == IF trigger = {} THEN <<>> ELSE CanonFrom[CHOOSE t \in trigger : \A v \in trigger : v <= t]

\* The anchors to execute from a round on.
CanonSince(round) == SelectSeq(Canon, LAMBDA w : AnchorRound(w) >= round)

\* All points below p, down to a round.
RECURSIVE Below(_, _)
Below(ps, limit) ==
  LET deps == {q \in UNION {Includes(p) \cup Witness(p) : p \in ps} : RoundOf(q) >= limit}
  IN  IF deps = {} THEN {} ELSE deps \cup Below(deps, limit)

\* The points of an anchor: its history without those of the anchors before it.
CanonPoints[i \in 1..Len(Canon)] ==
  LET a == AnchorRound(Canon[i])
  IN  Below({Leader(a)}, HistoryLimit(a)) \ UNION {CanonPoints[j] : j \in 1..i - 1}

TypeOK ==
  /\ late \subseteq Points /\ bad \subseteq Points /\ committed \subseteq Points
  /\ bottom \in Genesis..top /\ top <= LastRound /\ full_history_bottom \in Nat /\ start \in Nat
  /\ queue \in Seq([wave : 1..Waves, direct : BOOLEAN]) /\ todo \in Seq(trigger)
  /\ stage \in {"idle", "enqueue", "dequeue"} /\ panicked \in BOOLEAN
  /\ used_proof \subseteq 0..Waves /\ used_trigger \subseteq 1..Waves

(* No assertion of the anchor chain or of a gather fails and the window never runs
   empty, however late the points are resolved.                                *)
NoPanic == TypeOK /\ ~panicked

(* "some first ones after a gap have incomplete history": from the announced start
   on, and from genesis if there was no gap, a node executes exactly the anchors all
   other nodes do, without a hole and in their order.                          *)
SameAnchors ==
  LET expected == CanonSince(start)
  IN  /\ Len(executed) <= Len(expected)
      /\ \A i \in DOMAIN executed : executed[i].wave = expected[i]

(* ... and with exactly the same points, each one only once.                   *)
SamePoints ==
  \A x \in Range(executed) : \E i \in DOMAIN Canon : Canon[i] = x.wave /\ CanonPoints[i] = x.points

(* A node whose tasks all resolve executes every anchor up to the last trigger. *)
AllExecuted == <>[](Len(executed) = Len(CanonSince(start)))
=============================================================================
