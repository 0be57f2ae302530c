------------------------------ MODULE RoundTask ------------------------------
(***************************************************************************)
(* The two tasks of one consensus round on a node (engine/round_task.rs):  *)
(* the broadcaster, which waits for the own point, sends it to the peers   *)
(* and gathers their signatures (broadcast/broadcaster.rs), and the        *)
(* collector, which waits for the includes of the next point and decides   *)
(* when the round ends (broadcast/collector.rs).  The round ends when both *)
(* are done.  The broadcaster then repeats the point for one more round;   *)
(* nothing on this node reads its results any more, and it is left out.    *)
(*                                                                         *)
(* The network may lose, delay or refuse every query.  A query in flight   *)
(* is counted by its kind and its peer.  Peers that are not signers only   *)
(* receive the point and are left out.  So is the node itself: it is a     *)
(* signer, but a query to it always fails and is of no consequence.        *)
(***************************************************************************)
EXTENDS Integers, FiniteSets

CONSTANTS
    Signers,      \* the validators of the next round, this node among them
    Me,           \* this node
    Flaky,        \* peers that may be lost and resolved during the round
    AttemptWrap,  \* attempts of the broadcaster wrap here: 2^8 in the code
    MaxUpdates    \* bound on peer updates received, for TLC

ASSUME SignersAssumption ==
    IsFiniteSet(Signers) /\ Me \in Signers /\ Flaky \subseteq Signers \ {Me}
ASSUME BoundsAssumption == AttemptWrap \in Nat \ {0} /\ MaxUpdates \in Nat

VARIABLES
    own,           \* phase of the task that makes and sends the own point
    signal,        \* content of the channel from broadcaster to collector
    \* Broadcaster
    removed, rejections, signatures, attempt, sigPeers,
    queries,       \* queries in flight: bcast_futures and sig_futures
    connected,     \* signers the peer schedule has reported as resolved
    evidence,      \* LastOwnPoint.evidence
    updates,       \* number of peer updates received
    \* CollectorTask
    includesReady, bcasterOk,
    ended,         \* how the collector has ended, or "no"
    \* the channel from collector to broadcaster and to the own point task
    retryReady, unseenByBcaster, unseenByOwn,
    \* environment
    prevReached, curReached,  \* thresholds of the previous and this round
    overtaken      \* an unread consensus round is greater than the next one

bcaster == <<removed, rejections, signatures, attempt, sigPeers, queries,
             connected, evidence, updates>>
collector == <<includesReady, bcasterOk, ended>>
retry == <<retryReady, unseenByBcaster, unseenByOwn>>
env == <<prevReached, curReached, overtaken>>
vars == <<own, signal, bcaster, collector, retry, env>>

Others == Signers \ {Me}
Kinds == {"bcast", "sigAfterBcast", "sigRetry"}
Queries == Kinds \X Others

F == (Cardinality(Signers) + 1) \div 3
majority_of_others == 2 * F
reliable_minority == F + 1

-----------------------------------------------------------------------------
\* Queries q after one more of kind k to each of the peers, unless removed
Send(q, k, peers) ==
    [x \in Queries |->
        IF x[1] = k /\ x[2] \in peers \ removed THEN q[x] + 1 ELSE q[x]]

NoQueries == [x \in Queries |-> 0]

Init ==
    /\ own \in {"produce", "notAllowed", "replay"}
    /\ signal = "unsent"
    /\ removed = {} /\ rejections = {} /\ signatures = {}
    /\ attempt = 0 /\ sigPeers = {} /\ queries = NoQueries
    /\ connected = {} /\ evidence = {} /\ updates = 0
    /\ includesReady = FALSE /\ bcasterOk = FALSE /\ ended = "no"
    /\ retryReady = FALSE /\ unseenByBcaster = FALSE /\ unseenByOwn = FALSE
    /\ prevReached = FALSE /\ curReached = FALSE /\ overtaken = FALSE

-----------------------------------------------------------------------------
(* The own point.                                                          *)

\* The broadcaster starts with the peers that are resolved at that moment
StartBroadcast ==
    /\ own' = "broadcasting"
    /\ \E lost \in SUBSET Flaky :
        /\ connected' = Others \ lost
        /\ queries' = Send(queries, "bcast", Others \ lost)
    /\ UNCHANGED <<signal, removed, rejections, signatures, attempt, sigPeers,
                   evidence, updates>>

\* Without an own point the broadcaster's part of the round is Ok at once
NoOwnPoint ==
    /\ own' = "failed"
    /\ signal' = "ok"
    /\ UNCHANGED bcaster

\* After a restart the point found in the store is broadcast again
ReplayPoint ==
    /\ own = "replay"
    /\ StartBroadcast
    /\ UNCHANGED <<collector, retry, env>>

\* The previous point lacks evidence
NotAllowed ==
    /\ own = "notAllowed"
    /\ NoOwnPoint
    /\ UNCHANGED <<collector, retry, env>>

\* The threshold of the previous round is reached; the producer may refuse
ProducePoint ==
    /\ own = "produce"
    /\ prevReached
    /\ StartBroadcast \/ NoOwnPoint
    /\ unseenByOwn' = FALSE
    /\ UNCHANGED <<collector, retryReady, unseenByBcaster, env>>

\* Mutant: a closed channel is not taken for an answer
SeeRetryOnly ==
    /\ own = "produce"
    /\ unseenByOwn
    /\ unseenByOwn' = FALSE
    /\ IF retryReady THEN NoOwnPoint ELSE UNCHANGED <<own, signal, bcaster>>
    /\ UNCHANGED <<collector, retryReady, unseenByBcaster, env>>

\* The collector has the next includes already, or has ended; a pending
\* change is seen before the closed channel
SeeRetryOrClosed ==
    /\ own = "produce"
    /\ unseenByOwn \/ ended /= "no"
    /\ unseenByOwn' = FALSE
    /\ IF unseenByOwn /\ ~retryReady
       THEN UNCHANGED <<own, signal, bcaster>>
       ELSE NoOwnPoint
    /\ UNCHANGED <<collector, retryReady, unseenByBcaster, env>>

-----------------------------------------------------------------------------
(* Broadcaster.  The select is biased: nothing else is handled while a     *)
(* signal of the collector is pending.                                     *)

Finish ==
    /\ own' = "finished"
    /\ evidence' = signatures
    /\ UNCHANGED <<removed, rejections, signatures, sigPeers, queries, connected,
                   updates>>

SendSignal(s) == signal' = IF signal = "unsent" THEN s ELSE signal

\* The network is stuck: forget rejections and push the point to all signers
Resend ==
    /\ sigPeers' = {}
    /\ rejections' = {}
    /\ queries' = Send(NoQueries, "bcast", Others)

Retry ==
    /\ sigPeers' = {}
    /\ queries' = Send(queries, "sigRetry", sigPeers)
    /\ UNCHANGED rejections

\* Mutant: the artificial delay alone
EnoughAttempts == attempt' > 2

EnoughSignatures ==
    /\ attempt' > 2
    /\ Cardinality(signatures) >= majority_of_others

NextAttempt == (attempt + 1) % AttemptWrap

OnRetry ==
    IF Cardinality(rejections) >= reliable_minority
    THEN SendSignal("err") /\ Finish
    ELSE /\ IF EnoughSignatures THEN SendSignal("ok") ELSE UNCHANGED signal
         /\ IF attempt' = 0 THEN Resend ELSE Retry
         /\ UNCHANGED <<own, removed, signatures, connected, evidence, updates>>

should_finish ==
    /\ own = "broadcasting"
    /\ unseenByBcaster \/ ended /= "no"
    /\ attempt' = NextAttempt
    /\ unseenByBcaster' = FALSE
    /\ IF unseenByBcaster THEN OnRetry ELSE Finish /\ UNCHANGED signal
    /\ UNCHANGED <<collector, retryReady, unseenByOwn, env>>

Polling == own = "broadcasting" /\ ~unseenByBcaster /\ ended = "no"

Answered(kind, p) == [queries EXCEPT ![<<kind, p>>] = @ - 1]

\* Mutant: a failed broadcast is not queued for a retry
FailedBroadcastDropped(p, ok) ==
    /\ Polling
    /\ queries[<<"bcast", p>>] > 0
    /\ queries' = IF ok THEN Send(Answered("bcast", p), "sigAfterBcast", {p})
                  ELSE Answered("bcast", p)
    /\ UNCHANGED <<own, signal, removed, rejections, signatures, attempt,
                   sigPeers, connected, evidence, updates, collector, retry, env>>

match_broadcast_result(p, ok) ==
    /\ Polling
    /\ queries[<<"bcast", p>>] > 0
    /\ LET rest == Answered("bcast", p)
       IN  IF ok
           THEN /\ queries' = Send(rest, "sigAfterBcast", {p})
                /\ UNCHANGED sigPeers
           ELSE /\ queries' = rest
                /\ sigPeers' = sigPeers \cup {p}
    /\ UNCHANGED <<own, signal, removed, rejections, signatures, attempt,
                   connected, evidence, updates, collector, retry, env>>

\* Answers: "later" is an error or TryLater, "rejected" is a rejection or a
\* signature that does not verify
match_signature_result(p, kind, answer) ==
    /\ Polling
    /\ queries[<<kind, p>>] > 0
    /\ LET rest == Answered(kind, p)
           push == answer = "noPoint" /\ kind = "sigRetry"
       IN  queries' = IF push THEN Send(rest, "bcast", {p}) ELSE rest
    /\ sigPeers' = IF \/ answer = "later"
                      \/ answer = "noPoint" /\ kind = "sigAfterBcast"
                   THEN sigPeers \cup {p} ELSE sigPeers
    /\ signatures' = IF answer = "signature"
                     THEN signatures \cup {p} ELSE signatures
    /\ rejections' = IF answer = "rejected"
                     THEN rejections \cup {p} ELSE rejections
    /\ UNCHANGED <<own, signal, removed, attempt, connected, evidence, updates,
                   collector, retry, env>>

\* An update that a lagging receiver misses is one that does not come; the channel
\* is closed only with the engine
match_peer_updates(p, resolved) ==
    /\ Polling
    /\ updates < MaxUpdates
    /\ updates' = updates + 1
    /\ IF resolved
       THEN /\ removed' = removed \ {p}
            /\ rejections' = rejections \ {p}
            /\ queries' = [queries EXCEPT ![<<"bcast", p>>] = @ + 1]
            /\ connected' = connected \cup {p}
       ELSE /\ removed' = removed \cup {p}
            /\ connected' = connected \ {p}
            /\ UNCHANGED <<rejections, queries>>
    /\ UNCHANGED <<own, signal, signatures, attempt, sigPeers, evidence,
                   collector, retry, env>>

-----------------------------------------------------------------------------
(* Collector.  The select is biased: threshold, signal, then the timer and *)
(* the consensus round.                                                    *)

is_ready == includesReady' /\ bcasterOk'

EndIfReady == ended' = IF is_ready THEN "ready" ELSE ended

ThresholdArm == curReached /\ ~includesReady
SignalArm == signal \in {"ok", "err"} /\ ~bcasterOk

ReachedThreshold ==
    /\ ended = "no"
    /\ ThresholdArm
    /\ includesReady' = TRUE
    /\ UNCHANGED bcasterOk
    /\ EndIfReady
    /\ UNCHANGED <<own, signal, bcaster, retry, env>>

ReceiveSignal ==
    /\ ended = "no"
    /\ SignalArm /\ ~ThresholdArm
    /\ signal' = "received"
    /\ bcasterOk' = (signal = "ok")
    /\ UNCHANGED includesReady
    /\ IF signal = "err" THEN ended' = "failed" ELSE EndIfReady
    /\ UNCHANGED <<own, bcaster, retry, env>>

Tick ==
    /\ ended = "no"
    /\ ~ThresholdArm /\ ~SignalArm
    /\ UNCHANGED <<includesReady, bcasterOk>>
    /\ EndIfReady
    /\ IF is_ready
       THEN UNCHANGED retry
       ELSE /\ retryReady' = (includesReady /\ own = "produce")
            /\ unseenByBcaster' = (own \notin {"failed", "finished"})
            /\ unseenByOwn' = (own = "produce")
    /\ UNCHANGED <<own, signal, bcaster, env>>

match_consensus ==
    /\ ended = "no"
    /\ ~ThresholdArm /\ ~SignalArm
    /\ overtaken /\ overtaken' = FALSE
    /\ ended' = "overtaken"
    /\ UNCHANGED <<own, signal, bcaster, includesReady, bcasterOk, retry,
                   prevReached, curReached>>

-----------------------------------------------------------------------------
(* Environment: points of the two rounds, broadcasts of later rounds, as   *)
(* long as a task of the round waits for them.                             *)

PointsArrive ==
    /\ \/ /\ own = "produce" /\ ~prevReached
          /\ prevReached' = TRUE /\ UNCHANGED curReached
       \/ /\ ended = "no" /\ ~curReached
          /\ curReached' = TRUE /\ UNCHANGED prevReached
    /\ UNCHANGED <<own, signal, bcaster, collector, retry, overtaken>>

ConsensusMoves ==
    /\ ended = "no" /\ ~overtaken
    /\ overtaken' = TRUE
    /\ UNCHANGED <<own, signal, bcaster, collector, retry, prevReached, curReached>>

Answers(p) ==
    \/ \E ok \in BOOLEAN : match_broadcast_result(p, ok)
    \/ \E kind \in {"sigAfterBcast", "sigRetry"} :
       \E answer \in {"later", "noPoint", "signature", "rejected"} :
           match_signature_result(p, kind, answer)

OwnSteps == ReplayPoint \/ NotAllowed \/ ProducePoint \/ SeeRetryOrClosed
CollectorSteps == ReachedThreshold \/ ReceiveSignal \/ Tick \/ match_consensus

Next ==
    \/ OwnSteps
    \/ should_finish
    \/ \E p \in Others : Answers(p)
    \/ \E p \in Flaky, resolved \in BOOLEAN : match_peer_updates(p, resolved)
    \/ CollectorSteps
    \/ PointsArrive
    \/ ConsensusMoves

Spec == Init /\ [][Next]_vars

\* The runtime polls the tasks and fires the timer; a peer that is asked again
\* and again signs in the end
Fairness ==
    /\ WF_vars(OwnSteps) /\ WF_vars(should_finish)
    /\ WF_vars(ReachedThreshold) /\ WF_vars(ReceiveSignal)
    /\ WF_vars(Tick) /\ SF_vars(match_consensus)
    /\ \A p \in Others :
        /\ SF_vars(match_broadcast_result(p, TRUE))
        /\ SF_vars(\E kind \in Kinds \ {"bcast"} :
                       match_signature_result(p, kind, "signature"))

FairSpec == Spec /\ Fairness

-----------------------------------------------------------------------------
\* Each variable holds values of its Rust type
TypeOK ==
    /\ own \in {"produce", "notAllowed", "replay", "failed", "broadcasting",
                "finished"}
    /\ signal \in {"unsent", "ok", "err", "received"}
    /\ removed \subseteq Others
    /\ rejections \subseteq Others /\ signatures \subseteq Others
    /\ attempt \in 0..(AttemptWrap - 1)
    /\ sigPeers \subseteq Others
    /\ queries \in [Queries -> Nat]
    /\ connected \subseteq Others /\ evidence \subseteq Others
    /\ updates \in Nat
    /\ includesReady \in BOOLEAN /\ bcasterOk \in BOOLEAN
    /\ ended \in {"no", "ready", "failed", "overtaken"}
    /\ retryReady \in BOOLEAN
    /\ unseenByBcaster \in BOOLEAN /\ unseenByOwn \in BOOLEAN
    /\ prevReached \in BOOLEAN /\ curReached \in BOOLEAN
    /\ overtaken \in BOOLEAN

\* Broadcaster: a connected signer always has a query in flight, waits for
\* the next retry, has rejected or has signed; no order of failures, resends
\* and peer updates drops it out of the loop between the two kinds of task
NobodyForgotten ==
    \A p \in connected :
        \/ \E kind \in Kinds : queries[<<kind, p>>] > 0
        \/ p \in sigPeers \cup rejections \cup signatures

\* A round that the collector ended as ready, and that had an own point, left
\* the evidence that own_point_task of the next round asks for: only a round
\* that failed or was overtaken costs the node a point
ReadyRoundHasEvidence ==
    ended = "ready" /\ own = "finished" =>
        Cardinality(evidence) >= majority_of_others

\* Both tasks of the round are done (until_ready)
RoundEnded == ended /= "no" /\ own \in {"failed", "finished"}

\* The round ends: the collector and the broadcaster never wait for each
\* other forever, provided that the points of the round arrive and 2F peers
\* stay connected, or that the consensus moves on
RoundEnds ==
    \/ <>overtaken
    \/ <>curReached /\ <>[](Cardinality(Others \ removed) >= majority_of_others)
    => <>RoundEnded
=============================================================================
