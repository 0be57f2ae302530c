------------------------------- MODULE Intake -------------------------------
(***************************************************************************)
(* How broadcasts and signature requests of peers meet the engine that     *)
(* changes its round: BroadcastFilter, Responder and Signer.               *)
(*                                                                         *)
(* A handler of a query loads the published DagHead once and may use it    *)
(* long after the engine published newer ones.  Broadcasts above the head  *)
(* wait in the filter, F+1 of one round move the consensus round; the      *)
(* engine moves them to the DAG and then publishes its head.  A peer that  *)
(* is told NoPoint repeats its broadcast.                                  *)
(*                                                                         *)
(* A head is named by its next round; its current and previous rounds are  *)
(* one and two below.  A point has one version: the filter ignores others. *)
(***************************************************************************)
EXTENDS Integers, FiniteSets

CONSTANTS
    Points,       \* [author, round]: the points that peers broadcast, which verify
    F,
    Ill,          \* those of them that are ill-formed
    Alive,        \* those whose authors go on to ask for signatures
    Handlers,     \* queries served at a time
    FirstTop,     \* next round of the head that is published first
    MaxRound,     \* bound: last round of the engine
    CacheRounds,  \* cache_future_broadcasts_rounds
    Depth         \* rounds from the bottom of the DAG to its top

ASSUME IntakeAssumption ==
    /\ F \in Nat /\ FirstTop \in Nat /\ MaxRound \in Nat
    /\ CacheRounds \in Nat /\ Depth \in Nat /\ Depth >= 2
    /\ \A p \in Points : p.round \in FirstTop..MaxRound
    /\ Ill \subseteq Points /\ Alive \subseteq Points

VARIABLES
    peer,        \* per point: what its author does with it
    handler,     \* queries being served
    filter,      \* BroadcastFilter: points by round and author
    pruned,      \* those of them kept as digests
    late,        \* history: those inserted when the engine was at their round
    dag,         \* points with a version in the DAG
    consensus,   \* RoundWatch<Consensus>
    top,         \* next round of the engine's newest head
    published,   \* next round of the head of the Responder
    update,      \* step of Responder::update
    taken        \* points on the way from the filter to the DAG

bf == <<filter, pruned, late>>
engine == <<top, published, update, taken>>
intakeVars == <<peer, handler, bf, dag, consensus, engine>>

Idle == [step |-> "idle"]
Larger(a, b) == IF a > b THEN a ELSE b

IntakeInit ==
    /\ peer = [p \in Points |-> "new"]
    /\ handler = [h \in Handlers |-> Idle]
    /\ filter = {} /\ pruned = {} /\ late = {} /\ dag = {}
    /\ consensus = FirstTop
    /\ top = FirstTop /\ published = FirstTop
    /\ update = "done" /\ taken = {}

last_back_bottom(head) == head - Depth
Of(r, points) == {p \in points : p.round = r}
Finish(h) == handler' = [handler EXCEPT ![h] = Idle]
GoTo(h, step) == handler' = [handler EXCEPT ![h].step = step]

-----------------------------------------------------------------------------
(* Peers: a point is broadcast, asked a signature for, and broadcast again. *)

Load(h, p, step) ==
    /\ handler[h] = Idle
    /\ handler' = [handler EXCEPT ![h] =
         [step |-> step, point |-> p, head |-> published]]
    /\ UNCHANGED <<bf, dag, consensus, engine>>

ReceiveBroadcast(h, p) ==
    /\ peer[p] \in {"new", "repeat"}
    /\ peer' = [peer EXCEPT ![p] = "sent"]
    /\ Load(h, p, "add")

\* A lost broadcast is noticed only if its author goes on
LoseBroadcast(p) ==
    /\ p \in Alive
    /\ peer[p] \in {"new", "repeat"}
    /\ peer' = [peer EXCEPT ![p] = "sent"]
    /\ UNCHANGED <<handler, bf, dag, consensus, engine>>

\* With the newest head and the point in the DAG the answer changes nothing
ReceiveSignatureRequest(h, p) ==
    /\ p \in Alive
    /\ peer[p] = "sent"
    /\ p \notin dag \/ published /= top
    /\ Load(h, p, "has_point")
    /\ UNCHANGED peer

-----------------------------------------------------------------------------
(* BroadcastFilter::add *)

AddToDag(h) ==
    LET p == handler[h].point IN
    /\ handler[h].step = "add"
    /\ p.round <= handler[h].head
    /\ dag' = IF last_back_bottom(handler[h].head) <= p.round THEN dag \cup {p} ELSE dag
    /\ Finish(h)
    /\ UNCHANGED <<peer, bf, consensus, engine>>

\* Mutant: one more than the reliable minority
MoreThanMinority(points) == Cardinality(points) = F + 2

\* Exactly the reliable minority, once the point is in
ThresholdReached(points) == Cardinality(points) = F + 1

\* Under the lock of the round's entry.  Others than Points change nothing: those that
\* fail verification, are not sent by their author, or have no validator set
AddToFilter(h) ==
    LET p == handler[h].point IN
    /\ handler[h].step = "add"
    /\ p.round > handler[h].head
    /\ filter' = filter \cup {p}
    /\ pruned' = IF p \notin filter /\ p.round > handler[h].head + CacheRounds
                 THEN pruned \cup {p} ELSE pruned
    /\ late' = IF p \notin filter /\ p.round <= top THEN late \cup {p} ELSE late
    /\ IF ThresholdReached(Of(p.round, filter')) THEN GoTo(h, "set_max") ELSE Finish(h)
    /\ UNCHANGED <<peer, dag, consensus, engine>>

set_max(h) ==
    /\ handler[h].step = "set_max"
    /\ consensus' = Larger(consensus, handler[h].point.round)
    /\ GoTo(h, "clean")
    /\ UNCHANGED <<peer, bf, dag, engine>>

CheckConsensus(h) ==
    /\ handler[h].step = "clean"
    /\ IF consensus = handler[h].point.round THEN GoTo(h, "retain") ELSE Finish(h)
    /\ UNCHANGED <<peer, bf, dag, consensus, engine>>

KeepOnly(points) ==
    /\ filter' = filter \cap points
    /\ pruned' = pruned \cap points
    /\ late' = late \cap points

clean(h) ==
    LET round == handler[h].point.round IN
    /\ handler[h].step = "retain"
    /\ KeepOnly({p \in Points :
         /\ p.round >= Larger(last_back_bottom(handler[h].head), round - Depth)
         /\ p.round <= round + CacheRounds})
    /\ Finish(h)
    /\ UNCHANGED <<peer, dag, consensus, engine>>

-----------------------------------------------------------------------------
(* Signer::make_signature_response *)

\* TryLater, a signature or a rejection: the broadcast is not repeated
OtherResponse(h) == Finish(h) /\ UNCHANGED peer

NoPoint(h) ==
    /\ peer' = [peer EXCEPT ![handler[h].point] = IF @ = "sent" THEN "repeat" ELSE @]
    /\ Finish(h)

\* First the filter, then the DAG for the top round exactly
SearchFilter(h) ==
    LET p == handler[h].point
        head == handler[h].head IN
    /\ handler[h].step = "has_point"
    /\ \/ /\ p.round >= head /\ p \in filter       \* TryLater
          /\ OtherResponse(h)
       \/ /\ p.round > head /\ p \notin filter
          /\ NoPoint(h)
       \/ /\ p.round < head - 2                    \* TooOldRound
          /\ OtherResponse(h)
       \/ /\ \/ p.round = head /\ p \notin filter
             \/ p.round \in head - 2..head - 1
          /\ GoTo(h, "view") /\ UNCHANGED peer
    /\ UNCHANGED <<bf, dag, consensus, engine>>

SearchDag(h) ==
    /\ handler[h].step = "view"
    /\ IF handler[h].point \in dag THEN OtherResponse(h) ELSE NoPoint(h)
    /\ UNCHANGED <<bf, dag, consensus, engine>>

HandlerSteps(h) ==
    \/ AddToDag(h) \/ AddToFilter(h) \/ set_max(h) \/ CheckConsensus(h) \/ clean(h)
    \/ SearchFilter(h) \/ SearchDag(h)

-----------------------------------------------------------------------------
(* The engine *)

\* The collector ends the round
EndRound ==
    /\ update = "done"
    /\ consensus < top
    /\ consensus' = top
    /\ UNCHANGED <<peer, handler, bf, dag, engine>>

\* Up to the consensus round, or less if the collator is behind
StartRound(round) ==
    /\ update = "done"
    /\ consensus >= top
    /\ round \in top + 1..Larger(consensus, top + 1)
    /\ round <= MaxRound
    /\ top' = round
    /\ update' = "retain"
    /\ UNCHANGED <<peer, handler, bf, dag, consensus, published, taken>>

\* Digests of ill-formed points are of no use to the DAG
ToDag(points) == points \ (pruned \cap Ill)

\* flush_to_dag: rounds below the head leave the filter ...
TakeOutdated ==
    /\ update = "retain"
    /\ taken' = ToDag({p \in filter : p.round \in last_back_bottom(top)..top - 3})
    /\ KeepOnly({p \in Points : p.round >= top - 2})
    /\ update' = "outdated"
    /\ UNCHANGED <<peer, handler, dag, consensus, top, published>>

\* ... are added to the DAG ...
FlushOutdated ==
    /\ update = "outdated"
    /\ dag' = dag \cup taken
    /\ taken' = {}
    /\ update' = "prev"
    /\ UNCHANGED <<peer, handler, bf, consensus, top, published>>

\* ... and so are the rounds of the head, each under the lock of its entry
FlushRound(step, round, next) ==
    /\ update = step
    /\ dag' = dag \cup ToDag(Of(round, filter))
    /\ KeepOnly({p \in Points : p.round /= round})
    /\ update' = next
    /\ UNCHANGED <<peer, handler, consensus, top, published, taken>>

Publish ==
    /\ update = "publish"
    /\ published' = top
    /\ update' = "done"
    /\ UNCHANGED <<peer, handler, bf, dag, consensus, top, taken>>

\* Mutant: the new head is published first and the filter flushed after it
PublishFirst ==
    \/ /\ update = "retain" /\ published /= top
       /\ published' = top
       /\ UNCHANGED <<peer, handler, bf, dag, consensus, top, update, taken>>
    \/ published = top /\ TakeOutdated
    \/ FlushOutdated
    \/ FlushRound("prev", top - 2, "current")
    \/ FlushRound("current", top - 1, "next")
    \/ FlushRound("next", top, "publish")
    \/ Publish

\* Responder::update
Update ==
    \/ TakeOutdated
    \/ FlushOutdated
    \/ FlushRound("prev", top - 2, "current")
    \/ FlushRound("current", top - 1, "next")
    \/ FlushRound("next", top, "publish")
    \/ Publish

IntakeNext ==
    \/ \E p \in Points : \/ LoseBroadcast(p)
                         \/ \E h \in Handlers : \/ ReceiveBroadcast(h, p)
                                                \/ ReceiveSignatureRequest(h, p)
    \/ \E h \in Handlers : HandlerSteps(h)
    \/ EndRound \/ Update
    \/ \E r \in FirstTop..MaxRound : StartRound(r)

IntakeSpec == IntakeInit /\ [][IntakeNext]_intakeVars

\* Queries are served and the engine finishes what it began; of repeated
\* broadcasts and requests of a peer some arrive
Fairness ==
    /\ \A h \in Handlers : WF_intakeVars(HandlerSteps(h))
    /\ WF_intakeVars(Update)
    /\ \A p \in Alive :
         /\ SF_intakeVars(peer[p] = "repeat" /\ \E h \in Handlers : ReceiveBroadcast(h, p))
         /\ SF_intakeVars(\E h \in Handlers : ReceiveSignatureRequest(h, p))

IntakeFairSpec == IntakeSpec /\ Fairness

-----------------------------------------------------------------------------
\* A reliable minority in the filter has moved the consensus round, or the one
\* handler that completed it is about to: the test for equality in add() is not
\* passed by, whatever is inserted, cleaned and flushed at the same time
MinorityIsFollowed ==
    \A r \in FirstTop..MaxRound : Cardinality(Of(r, filter)) > F =>
        \/ consensus >= r
        \/ \E h \in Handlers : handler[h].step = "set_max" /\ handler[h].point.round = r

\* The Signer does not ask to repeat a broadcast that the filter or the DAG has,
\* if it uses the newest head (the comment in Responder::update), unless the
\* point came into the filter under an older head than the engine had by then
AskedAgainOnlyIfAbsent ==
    [][\A h \in Handlers :
         LET q == handler[h] IN
         /\ q.step \in {"has_point", "view"}
         /\ peer[q.point] = "sent" /\ peer'[q.point] = "repeat"
         /\ handler'[h] = Idle
         /\ q.head = top
         => q.point \notin dag \cup (filter \ late)]_intakeVars

\* The point is in the DAG or too old, if it was broadcast and its round has come
Settled(p) ==
    (peer[p] /= "new" /\ p.round < published) => (p \in dag \/ p.round < published - 2)

\* A point that was broadcast once by a peer that goes on reaches the DAG when its
\* round is the current one of the engine, or becomes too old to be signed: it is neither stuck in
\* the filter nor forgotten, with outdated heads in use and broadcasts lost
ReachesDag == []<>(\A p \in Alive : Settled(p))
=============================================================================
