----------------------------- MODULE Round_proof -----------------------------
(***************************************************************************)
(* For any set of signers, any wrap of the attempt counter and any number  *)
(* of peer updates: no connected signer is forgotten by the broadcaster,   *)
(* and a round that ends as ready leaves enough evidence (RoundTask).  For *)
(* any number of peers: what that evidence proves to all the others, as    *)
(* two quorums have an honest peer in common (Evidence).                   *)
(***************************************************************************)
EXTENDS RoundTask, Evidence, FiniteSetTheorems, TLAPS

Waiting == {"produce", "notAllowed", "replay"}

\* The promise behind an Ok, sent or received, at each phase of the own point
Backed ==
    /\ own \in Waiting => removed = {} /\ signal = "unsent" /\ ~bcasterOk
    /\ own = "broadcasting" /\ (signal = "ok" \/ bcasterOk) =>
        Cardinality(signatures) >= majority_of_others
    /\ own = "finished" /\ (signal = "ok" \/ bcasterOk) =>
        Cardinality(evidence) >= majority_of_others
    /\ ended = "ready" => bcasterOk

Disjoint == connected \cap removed = {}

IInv == TypeOK /\ NobodyForgotten /\ Disjoint /\ Backed

\* A query in flight in q is in flight after more are sent, and a peer that
\* is not removed gets the one sent to it (Broadcaster::broadcast)
LEMMA SendAdds ==
    ASSUME NEW q \in [Queries -> Nat], NEW k \in Kinds, NEW peers
    PROVE  /\ Send(q, k, peers) \in [Queries -> Nat]
           /\ \A x \in Queries : Send(q, k, peers)[x] >= q[x]
           /\ \A p \in Others : p \in peers \ removed =>
                Send(q, k, peers)[<<k, p>>] > 0
BY DEF Send, Queries

\* The attempt counter stays within its width (wrapping_add)
LEMMA Wraps == ASSUME NEW a \in Nat PROVE (a + 1) % AttemptWrap \in 0..(AttemptWrap - 1)
BY BoundsAssumption

\* An answer takes one query away and leaves the others (FuturesUnordered)
LEMMA AnsweredRest ==
    ASSUME queries \in [Queries -> Nat], NEW kind \in Kinds, NEW p \in Others,
           queries[<<kind, p>>] > 0
    PROVE  /\ Answered(kind, p) \in [Queries -> Nat]
           /\ \A x \in Queries : x /= <<kind, p>> => Answered(kind, p)[x] = queries[x]
BY DEF Answered, Queries

\* A set of signatures that grows keeps its majority
LEMMA MoreSignatures ==
    ASSUME signatures \subseteq Others, NEW p \in Others
    PROVE  Cardinality(signatures \cup {p}) >= Cardinality(signatures)
<1>1. IsFiniteSet(Others) BY SignersAssumption, FS_Subset DEF Others
<1>2. IsFiniteSet(signatures \cup {p}) BY <1>1, FS_Subset
<1>3. QED BY <1>2, FS_Subset

\* Cardinalities and F are numbers
LEMMA Numbers ==
    /\ majority_of_others \in Nat
    /\ \A S \in SUBSET Others : Cardinality(S) \in Nat
<1>1. Cardinality(Signers) \in Nat BY SignersAssumption, FS_CardinalityType
<1>2. majority_of_others \in Nat BY <1>1 DEF majority_of_others, F
<1>3. \A S \in SUBSET Others : Cardinality(S) \in Nat
    BY SignersAssumption, FS_Subset, FS_CardinalityType DEF Others
<1>4. QED BY <1>2, <1>3

LEMMA InitInv == Init => IInv
<1>1. SUFFICES ASSUME Init PROVE IInv OBVIOUS
<1>2. TypeOK
  <2>1. NoQueries \in [Queries -> Nat] BY DEF NoQueries
  <2>2. 0 \in 0..(AttemptWrap - 1) BY BoundsAssumption
  <2>3. QED BY <1>1, <2>1, <2>2, Zenon DEF Init, TypeOK
<1>3. NobodyForgotten /\ Disjoint BY <1>1 DEF Init, NobodyForgotten, Disjoint
<1>4. Backed BY <1>1 DEF Init, Backed, Waiting
<1>5. QED BY <1>2, <1>3, <1>4 DEF IInv

LEMMA StepInv == IInv /\ [Next]_vars => IInv'
<1>1. SUFFICES ASSUME IInv, [Next]_vars PROVE IInv' OBVIOUS
<1>2. TypeOK /\ NobodyForgotten /\ Disjoint /\ Backed BY <1>1 DEF IInv
<1>3. ASSUME StartBroadcast, own \in Waiting,
             UNCHANGED <<collector, retryReady, unseenByBcaster, env>>,
             unseenByOwn' \in BOOLEAN
      PROVE  IInv'
  <2>1. PICK lost \in SUBSET Flaky :
            /\ connected' = Others \ lost
            /\ queries' = Send(queries, "bcast", Others \ lost)
      BY <1>3, Zenon DEF StartBroadcast
  <2>2. queries' \in [Queries -> Nat]
      BY <2>1, <1>2, SendAdds DEF TypeOK, Kinds
  <2>3. TypeOK'
      BY <1>2, <1>3, <2>1, <2>2, SMTT(20) DEF TypeOK, StartBroadcast, collector, env
  <2>4. removed = {} /\ removed' = {}
      BY <1>2, <1>3 DEF Backed, StartBroadcast
  <2>5. ASSUME NEW p \in connected' PROVE queries'[<<"bcast", p>>] > 0
      BY <2>1, <2>4, <2>5, <1>2, SendAdds DEF TypeOK, Kinds, Others
  <2>6. NobodyForgotten' BY <2>5, Zenon DEF NobodyForgotten, Kinds
  <2>7. Disjoint' BY <2>4 DEF Disjoint
  <2>8. Backed'
      BY <1>2, <1>3 DEF Backed, StartBroadcast, Waiting, collector
  <2>9. QED BY <2>3, <2>6, <2>7, <2>8 DEF IInv
<1>4. ASSUME NoOwnPoint, own \in Waiting,
             UNCHANGED <<collector, retryReady, unseenByBcaster, env>>,
             unseenByOwn' \in BOOLEAN
      PROVE  IInv'
  <2>1. TypeOK' BY <1>2, <1>4 DEF TypeOK, NoOwnPoint, bcaster, collector, env
  <2>2. NobodyForgotten' /\ Disjoint'
      BY <1>2, <1>4 DEF NobodyForgotten, Disjoint, NoOwnPoint, bcaster
  <2>3. Backed' BY <1>2, <1>4 DEF Backed, NoOwnPoint, Waiting, bcaster, collector
  <2>4. QED BY <2>1, <2>2, <2>3 DEF IInv
<1>5. CASE ReplayPoint
    BY <1>3, <1>5, <1>2 DEF ReplayPoint, Waiting, retry, TypeOK
<1>6. CASE NotAllowed
    BY <1>4, <1>6, <1>2 DEF NotAllowed, Waiting, retry, TypeOK
<1>7. CASE ProducePoint
    BY <1>3, <1>4, <1>7, Zenon DEF ProducePoint, Waiting
<1>8. CASE SeeRetryOrClosed
  <2>1. CASE unseenByOwn /\ ~retryReady
    <3>1. TypeOK'
      <4>1. /\ UNCHANGED <<own, signal, bcaster, collector, retryReady,
                           unseenByBcaster, env>>
            /\ unseenByOwn' \in BOOLEAN
          BY <1>8, <2>1, Zenon DEF SeeRetryOrClosed
      <4>2. QED BY <1>2, <4>1 DEF TypeOK, bcaster, collector, env
    <3>2. NobodyForgotten' /\ Disjoint' /\ Backed'
        BY <1>2, <1>8, <2>1
        DEF NobodyForgotten, Disjoint, Backed, SeeRetryOrClosed, bcaster, collector
    <3>3. QED BY <3>1, <3>2 DEF IInv
  <2>2. CASE ~(unseenByOwn /\ ~retryReady)
      BY <1>4, <1>8, <2>2, Zenon DEF SeeRetryOrClosed, Waiting
  <2>3. QED BY <2>1, <2>2
<1>9. CASE should_finish
  <2>1. attempt' \in 0..(AttemptWrap - 1)
      BY <1>2, <1>9, Wraps DEF should_finish, NextAttempt, TypeOK
  <2>2. ASSUME Finish, SendSignal("err") \/ UNCHANGED signal PROVE IInv'
    <3>1. TypeOK'
      <4>1. signal' \in {"unsent", "ok", "err", "received"}
          BY <1>2, <2>2 DEF TypeOK, SendSignal
      <4>2. UNCHANGED <<removed, rejections, signatures, sigPeers, queries,
                        connected, updates, collector, retryReady, unseenByOwn, env>>
          BY <1>9, <2>2 DEF should_finish, Finish
      <4>3. own' = "finished" /\ evidence' = signatures /\ unseenByBcaster' = FALSE
          BY <1>9, <2>2 DEF should_finish, Finish
      <4>4. QED BY <1>2, <2>1, <4>1, <4>2, <4>3, Zenon DEF TypeOK, collector, env
    <3>2. NobodyForgotten' /\ Disjoint'
        BY <1>2, <2>2 DEF NobodyForgotten, Disjoint, Finish
    <3>3. Backed'
      <4>1. own = "broadcasting" /\ own' = "finished" /\ evidence' = signatures
          BY <1>9, <2>2 DEF should_finish, Finish
      <4>2. bcasterOk' = bcasterOk /\ ended' = ended
          BY <1>9 DEF should_finish, collector
      <4>3. signal' = "ok" => signal = "ok" BY <2>2 DEF SendSignal
      <4>4. QED BY <1>2, <4>1, <4>2, <4>3 DEF Backed, Waiting
    <3>4. QED BY <3>1, <3>2, <3>3 DEF IInv
  <2>3. ASSUME IF EnoughSignatures THEN SendSignal("ok") ELSE UNCHANGED signal,
               Resend \/ Retry,
               UNCHANGED <<own, removed, signatures, connected, evidence, updates>>
        PROVE  IInv'
    <3>1. queries' \in [Queries -> Nat] /\ rejections' \subseteq Others
      <4>1. NoQueries \in [Queries -> Nat] BY DEF NoQueries
      <4>2. QED BY <4>1, <1>2, <2>3, SendAdds DEF TypeOK, Resend, Retry, Kinds
    <3>2. sigPeers' = {} BY <2>3 DEF Resend, Retry
    <3>3. signal' \in {"unsent", "ok", "err", "received"}
        BY <1>2, <2>3 DEF TypeOK, SendSignal
    <3>4. TypeOK'
        BY <1>2, <1>9, <2>1, <2>3, <3>1, <3>2, <3>3, Zenon
        DEF TypeOK, should_finish, collector, env
    <3>5. ASSUME NEW p \in connected'
          PROVE  \/ \E kind \in Kinds : queries'[<<kind, p>>] > 0
                 \/ p \in rejections' \cup signatures'
      <4>1. p \in Others /\ p \in connected /\ p \notin removed
          BY <1>2, <2>3, <3>5 DEF TypeOK, Others, Disjoint
      <4>2. CASE Resend
        <5>1. NoQueries \in [Queries -> Nat] BY DEF NoQueries
        <5>2. queries'[<<"bcast", p>>] > 0
            BY <4>1, <4>2, <5>1, SendAdds DEF Resend, Kinds
        <5>3. QED BY <5>2 DEF Kinds
      <4>3. CASE Retry
        <5>1. \A x \in Queries : queries'[x] >= queries[x]
            BY <1>2, <4>3, SendAdds DEF TypeOK, Retry, Kinds
        <5>2. CASE p \in sigPeers
          <6>1. queries'[<<"sigRetry", p>>] > 0
              BY <1>2, <4>1, <4>3, <5>2, SendAdds DEF TypeOK, Retry, Kinds
          <6>2. QED BY <6>1 DEF Kinds
        <5>3. CASE p \in rejections \cup signatures
            BY <2>3, <4>3, <5>3 DEF Retry
        <5>4. ASSUME NEW kind \in Kinds, queries[<<kind, p>>] > 0
              PROVE  queries'[<<kind, p>>] > 0
          <6>1. <<kind, p>> \in Queries BY <4>1 DEF Queries
          <6>2. queries[<<kind, p>>] \in Nat /\ queries'[<<kind, p>>] \in Nat
              BY <1>2, <3>1, <6>1 DEF TypeOK
          <6>3. QED BY <5>1, <5>4, <6>1, <6>2
        <5>5. QED BY <1>2, <4>1, <5>2, <5>3, <5>4 DEF NobodyForgotten
      <4>4. QED BY <2>3, <4>2, <4>3
    <3>6. NobodyForgotten' BY <3>5 DEF NobodyForgotten
    <3>7. Disjoint' BY <1>2, <2>3 DEF Disjoint
    <3>8. Backed'
        BY <1>2, <1>9, <2>3
        DEF Backed, should_finish, EnoughSignatures, SendSignal, Waiting, collector
    <3>9. QED BY <3>4, <3>6, <3>7, <3>8 DEF IInv
  <2>4. QED BY <1>9, <2>2, <2>3 DEF should_finish, OnRetry
<1>10. ASSUME NEW p \in Others, Answers(p) PROVE IInv'
  <2>1. signatures' \subseteq Others /\ rejections' \subseteq Others
      BY <1>2, <1>10
      DEF Answers, match_broadcast_result, match_signature_result, TypeOK, Others
  <2>2. sigPeers' \subseteq Others
      BY <1>2, <1>10
      DEF Answers, match_broadcast_result, match_signature_result, TypeOK
  <2>3. queries' \in [Queries -> Nat]
    <3>1. ASSUME NEW ok \in BOOLEAN, match_broadcast_result(p, ok)
          PROVE  queries' \in [Queries -> Nat]
        BY <1>2, <3>1, AnsweredRest, SendAdds
        DEF match_broadcast_result, TypeOK, Kinds
    <3>2. ASSUME NEW kind \in {"sigAfterBcast", "sigRetry"}, NEW answer,
                 match_signature_result(p, kind, answer)
          PROVE  queries' \in [Queries -> Nat]
        BY <1>2, <3>2, AnsweredRest, SendAdds
        DEF match_signature_result, TypeOK, Kinds
    <3>3. QED BY <1>10, <3>1, <3>2 DEF Answers
  <2>4. UNCHANGED <<own, signal, removed, attempt, connected, evidence, updates,
                    collector, retry, env>>
      BY <1>10 DEF Answers, match_broadcast_result, match_signature_result
  <2>5. TypeOK'
      BY <1>2, <2>1, <2>2, <2>3, <2>4 DEF TypeOK, collector, retry, env
  <2>6. Backed'
    <3>1. Cardinality(signatures') >= Cardinality(signatures)
      <4>1. \/ signatures' = signatures
            \/ p \in Others /\ signatures' = signatures \cup {p}
        <5>1. (\E ok \in BOOLEAN : match_broadcast_result(p, ok)) =>
                signatures' = signatures
            BY DEF match_broadcast_result
        <5>2. ASSUME NEW k \in {"sigAfterBcast", "sigRetry"}, NEW answer,
                     match_signature_result(p, k, answer)
              PROVE  \/ signatures' = signatures
                     \/ p \in Others /\ signatures' = signatures \cup {p}
          <6>1. CASE answer = "signature"
              BY <5>2, <6>1 DEF match_signature_result, Others
          <6>2. CASE answer /= "signature"
              BY <5>2, <6>2 DEF match_signature_result
          <6>3. QED BY <6>1, <6>2
        <5>3. QED BY <1>10, <5>1, <5>2 DEF Answers
      <4>2. Cardinality(signatures) \in Nat BY <1>2, Numbers DEF TypeOK
      <4>3. QED BY <1>2, <4>1, <4>2, MoreSignatures DEF TypeOK
    <3>2. /\ Cardinality(signatures) \in Nat /\ Cardinality(signatures') \in Nat
          /\ majority_of_others \in Nat
        BY <1>2, <2>1, Numbers DEF TypeOK
    <3>3. UNCHANGED <<own, signal, removed, evidence, bcasterOk, ended>>
        BY <2>4 DEF collector
    <3>4. own = "broadcasting" /\ (signal = "ok" \/ bcasterOk) =>
            Cardinality(signatures') >= majority_of_others
        BY <1>2, <3>1, <3>2 DEF Backed
    <3>5. QED BY <1>2, <3>3, <3>4 DEF Backed
  <2>7. Disjoint' BY <1>2, <2>4 DEF Disjoint
  <2>8. NobodyForgotten'
    <3>1. SUFFICES ASSUME NEW r \in connected
                   PROVE  \/ \E kind \in Kinds : queries'[<<kind, r>>] > 0
                          \/ r \in sigPeers' \cup rejections' \cup signatures'
        BY <2>4, SMTT(20) DEF NobodyForgotten
    <3>2. r \in Others /\ r \notin removed
        BY <1>2 DEF TypeOK, Others, Disjoint
    <3>3. /\ sigPeers \subseteq sigPeers' /\ rejections \subseteq rejections'
          /\ signatures \subseteq signatures'
        BY <1>10 DEF Answers, match_broadcast_result, match_signature_result
    <3>4. ASSUME NEW kind \in Kinds, r /= p
          PROVE  queries'[<<kind, r>>] >= queries[<<kind, r>>]
      <4>1. <<kind, r>> \in Queries /\ queries[<<kind, r>>] \in Nat
          BY <1>2, <3>2 DEF Queries, TypeOK
      <4>2. ASSUME NEW ok \in BOOLEAN, match_broadcast_result(p, ok)
            PROVE  queries'[<<kind, r>>] >= queries[<<kind, r>>]
          BY <1>2, <3>4, <4>1, <4>2, AnsweredRest, SendAdds, SMTT(30)
          DEF match_broadcast_result, TypeOK, Kinds
      <4>3. ASSUME NEW k \in {"sigAfterBcast", "sigRetry"}, NEW answer,
                   match_signature_result(p, k, answer)
            PROVE  queries'[<<kind, r>>] >= queries[<<kind, r>>]
          BY <1>2, <3>4, <4>1, <4>3, AnsweredRest, SendAdds
          DEF match_signature_result, TypeOK, Kinds
      <4>4. QED BY <1>10, <4>2, <4>3 DEF Answers
    <3>5. CASE r /= p
      <4>1. ASSUME NEW kind \in Kinds, queries[<<kind, r>>] > 0
            PROVE  queries'[<<kind, r>>] > 0
        <5>1. <<kind, r>> \in Queries BY <3>2 DEF Queries
        <5>2. queries[<<kind, r>>] \in Nat /\ queries'[<<kind, r>>] \in Nat
            BY <1>2, <2>3, <5>1 DEF TypeOK
        <5>3. QED BY <3>4, <3>5, <4>1, <5>2
      <4>2. QED BY <1>2, <3>3, <4>1 DEF NobodyForgotten
    <3>6. CASE r = p
      <4>1. ASSUME NEW ok \in BOOLEAN, match_broadcast_result(p, ok)
            PROVE  queries'[<<"sigAfterBcast", p>>] > 0 \/ p \in sigPeers'
          BY <1>2, <3>2, <3>6, <4>1, AnsweredRest, SendAdds
          DEF match_broadcast_result, TypeOK, Kinds
      <4>2. ASSUME NEW k \in {"sigAfterBcast", "sigRetry"},
                   NEW answer \in {"later", "noPoint", "signature", "rejected"},
                   match_signature_result(p, k, answer)
            PROVE  \/ queries'[<<"bcast", p>>] > 0
                   \/ p \in sigPeers' \cup rejections' \cup signatures'
        <5>1. CASE answer = "noPoint" /\ k = "sigRetry"
            BY <1>2, <3>2, <3>6, <4>2, <5>1, AnsweredRest, SendAdds, SMTT(20)
            DEF match_signature_result, TypeOK, Kinds
        <5>2. CASE ~(answer = "noPoint" /\ k = "sigRetry")
            BY <4>2, <5>2 DEF match_signature_result
        <5>3. QED BY <5>1, <5>2
      <4>3. QED BY <1>10, <3>6, <4>1, <4>2 DEF Answers, Kinds
    <3>7. QED BY <3>5, <3>6
  <2>9. QED BY <2>5, <2>6, <2>7, <2>8 DEF IInv
<1>11. ASSUME NEW p \in Flaky, NEW resolved \in BOOLEAN,
              match_peer_updates(p, resolved)
       PROVE  IInv'
  <2>1. p \in Others BY SignersAssumption DEF Others
  <2>2. queries' \in [Queries -> Nat] /\ \A x \in Queries : queries'[x] >= queries[x]
      BY <1>2, <1>11, <2>1 DEF match_peer_updates, TypeOK, Queries, Kinds
  <2>3. resolved => queries'[<<"bcast", p>>] > 0
      BY <1>2, <1>11, <2>1 DEF match_peer_updates, TypeOK, Queries, Kinds
  <2>4. UNCHANGED <<own, signal, signatures, attempt, sigPeers, evidence,
                    collector, retry, env>>
      BY <1>11 DEF match_peer_updates
  <2>5. /\ removed' \subseteq Others /\ rejections' \subseteq Others
        /\ connected' \subseteq Others /\ updates' \in Nat
      BY <1>2, <1>11, <2>1 DEF match_peer_updates, TypeOK
  <2>6. TypeOK'
      BY <1>2, <2>2, <2>4, <2>5 DEF TypeOK, collector, retry, env
  <2>7. Disjoint' BY <1>2, <1>11 DEF Disjoint, match_peer_updates
  <2>8. Backed'
    <3>1. own = "broadcasting" BY <1>11 DEF match_peer_updates, Polling
    <3>2. QED BY <1>2, <2>4, <3>1 DEF Backed, Waiting, collector
  <2>9. NobodyForgotten'
    <3>1. SUFFICES ASSUME NEW r \in connected'
                   PROVE  \/ \E kind \in Kinds : queries'[<<kind, r>>] > 0
                          \/ r \in sigPeers' \cup rejections' \cup signatures'
        BY DEF NobodyForgotten
    <3>2. CASE resolved /\ r = p BY <2>3, <3>2 DEF Kinds
    <3>3. CASE ~(resolved /\ r = p)
      <4>1. r \in connected /\ r \in Others
          BY <1>2, <1>11, <2>5, <3>1, <3>3 DEF match_peer_updates, Others
      <4>2. r \in rejections => r \in rejections'
          BY <1>11, <3>3 DEF match_peer_updates
      <4>3. ASSUME NEW kind \in Kinds, queries[<<kind, r>>] > 0
            PROVE  queries'[<<kind, r>>] > 0
        <5>1. <<kind, r>> \in Queries BY <4>1 DEF Queries
        <5>2. queries[<<kind, r>>] \in Nat /\ queries'[<<kind, r>>] \in Nat
            BY <1>2, <2>2, <5>1 DEF TypeOK
        <5>3. QED BY <2>2, <4>3, <5>1, <5>2
      <4>4. QED BY <1>2, <2>4, <4>1, <4>2, <4>3 DEF NobodyForgotten
    <3>4. QED BY <3>2, <3>3
  <2>10. QED BY <2>6, <2>7, <2>8, <2>9 DEF IInv
<1>12. CASE CollectorSteps
  <2>1. UNCHANGED <<own, bcaster, prevReached, curReached>>
      BY <1>12
      DEF CollectorSteps, ReachedThreshold, ReceiveSignal, Tick, match_consensus, env
  <2>2. NobodyForgotten' /\ Disjoint'
      BY <1>2, <2>1 DEF NobodyForgotten, Disjoint, bcaster
  <2>3. CASE ReachedThreshold
    <3>1. /\ includesReady' = TRUE /\ bcasterOk' = bcasterOk
          /\ ended' \in {"ready", ended} /\ (ended' = "ready" => bcasterOk)
          /\ UNCHANGED <<signal, retry, overtaken>>
        BY <1>2, <2>3
        DEF ReachedThreshold, EndIfReady, is_ready, Backed, env
    <3>2. TypeOK' BY <1>2, <2>1, <3>1 DEF TypeOK, bcaster, retry
    <3>3. Backed' BY <1>2, <2>1, <3>1 DEF Backed, bcaster
    <3>4. QED BY <2>2, <3>2, <3>3 DEF IInv
  <2>4. CASE ReceiveSignal
    <3>1. /\ signal' = "received" /\ bcasterOk' = (signal = "ok") /\ signal /= "unsent"
          /\ ended' \in {"ready", "failed", ended}
          /\ UNCHANGED <<includesReady, retry, overtaken>>
        BY <2>4 DEF ReceiveSignal, SignalArm, EndIfReady, env
    <3>2. ended' = "ready" => bcasterOk'
        BY <1>2, <2>4 DEF ReceiveSignal, SignalArm, EndIfReady, is_ready
    <3>3. TypeOK' BY <1>2, <2>1, <3>1 DEF TypeOK, bcaster, retry
    <3>4. Backed' BY <1>2, <2>1, <3>1, <3>2, Zenon DEF Backed, bcaster
    <3>5. QED BY <2>2, <3>3, <3>4 DEF IInv
  <2>5. CASE Tick
    <3>1. /\ includesReady' = includesReady /\ bcasterOk' = bcasterOk
          /\ ended' \in {"ready", ended} /\ (ended' = "ready" => bcasterOk)
          /\ UNCHANGED <<signal, overtaken>>
        BY <1>2, <2>5 DEF Tick, EndIfReady, is_ready, Backed, env
    <3>2. /\ retryReady' \in BOOLEAN /\ unseenByBcaster' \in BOOLEAN
          /\ unseenByOwn' \in BOOLEAN
      <4>1. CASE is_ready BY <1>2, <2>5, <4>1 DEF Tick, retry, TypeOK
      <4>2. CASE ~is_ready BY <1>2, <2>5, <4>2 DEF Tick, TypeOK
      <4>3. QED BY <4>1, <4>2
    <3>3. TypeOK' BY <1>2, <2>1, <3>1, <3>2 DEF TypeOK, bcaster
    <3>4. Backed' BY <1>2, <2>1, <3>1 DEF Backed, bcaster
    <3>5. QED BY <2>2, <3>3, <3>4 DEF IInv
  <2>6. CASE match_consensus
    <3>1. /\ ended' = "overtaken" /\ overtaken' = FALSE
          /\ UNCHANGED <<signal, includesReady, bcasterOk, retry>>
        BY <2>6 DEF match_consensus
    <3>2. overtaken' \in BOOLEAN /\ ended' \in {"no", "ready", "failed", "overtaken"}
        BY <3>1, Zenon
    <3>3. TypeOK' BY <1>2, <2>1, <3>1, <3>2 DEF TypeOK, bcaster, retry
    <3>4. Backed' BY <1>2, <2>1, <3>1 DEF Backed, bcaster
    <3>5. QED BY <2>2, <3>3, <3>4 DEF IInv
  <2>7. QED BY <1>12, <2>3, <2>4, <2>5, <2>6 DEF CollectorSteps
<1>13. CASE PointsArrive \/ ConsensusMoves
  <2>1. UNCHANGED <<own, signal, bcaster, collector, retry>>
      BY <1>13 DEF PointsArrive, ConsensusMoves
  <2>2. NobodyForgotten' /\ Disjoint' /\ Backed'
      BY <1>2, <2>1 DEF NobodyForgotten, Disjoint, Backed, bcaster, collector
  <2>3. prevReached' \in BOOLEAN /\ curReached' \in BOOLEAN /\ overtaken' \in BOOLEAN
      BY <1>2, <1>13, Zenon DEF PointsArrive, ConsensusMoves, TypeOK
  <2>4. TypeOK' BY <1>2, <2>1, <2>3 DEF TypeOK, bcaster, collector, retry
  <2>5. QED BY <2>2, <2>4 DEF IInv
<1>14. CASE UNCHANGED vars
  <2>1. TypeOK'
      BY <1>2, <1>14 DEF TypeOK, vars, bcaster, collector, retry, env
  <2>2. NobodyForgotten' /\ Disjoint'
      BY <1>2, <1>14 DEF NobodyForgotten, Disjoint, vars, bcaster
  <2>3. Backed' BY <1>2, <1>14 DEF Backed, vars, bcaster, collector
  <2>4. QED BY <2>1, <2>2, <2>3 DEF IInv
<1>15. QED
    BY <1>1, <1>5, <1>6, <1>7, <1>8, <1>9, <1>10, <1>11, <1>12, <1>13, <1>14
    DEF Next, OwnSteps

\* Every variable keeps its type (the model of the two tasks)
THEOREM TypeCorrect == Spec => []TypeOK
<1>1. IInv => TypeOK BY DEF IInv
<1>2. QED BY InitInv, StepInv, <1>1, PTL DEF Spec

\* No connected signer drops out of the retry loop of the broadcaster,
\* whatever the network does (Broadcaster::run and its handlers)
THEOREM NobodyIsForgotten == Spec => []NobodyForgotten
<1>1. IInv => NobodyForgotten BY DEF IInv
<1>2. QED BY InitInv, StepInv, <1>1, PTL DEF Spec

\* When the collector ends the round as ready, the evidence of the own point
\* is what own_point_task of the next round requires
THEOREM ReadyRoundIsBacked == Spec => []ReadyRoundHasEvidence
<1>1. IInv => ReadyRoundHasEvidence BY DEF IInv, Backed, ReadyRoundHasEvidence
<1>2. QED BY InitInv, StepInv, <1>1, PTL DEF Spec

-----------------------------------------------------------------------------
HonestOthers == Honest \ {Author}

\* A peer signs one version, and accounts for it once its point @ r+2 is made.
Kept == \A q \in HonestOthers :
          /\ \A v, w \in loc[q].handed : v = w
          /\ 2 \in loc[q].made => loc[q].handed \subseteq P!Referenced(loc[q])

\* An author that follows the protocol proves one version.
AuthorKept == Author \in Honest =>
                /\ loc[Author].made = {} => certified = {}
                /\ \A v \in certified : loc[Author].included = {v}

Signatures(v, E) == /\ Cardinality(E) >= MajorityOfOthers
                    /\ \A q \in E \ faulty : v \in loc[q].handed

\* A proven version has its signatures.
Proven == \A v \in certified : \E E \in SUBSET (Peers \ {Author}) : Signatures(v, E)

Blind(v, Q) == /\ Cardinality(Q) >= Majority
               /\ \A q \in Q \ faulty : 2 \in loc[q].made /\ v \notin P!Referenced(loc[q])

\* A version is missed by a quorum.
Missing == \A v \in missed : \E Q \in SUBSET Peers : Blind(v, Q)

EvidenceInv == EvidenceTypeOK /\ Cardinality(faulty) <= OneF /\ Kept /\ AuthorKept /\ Proven /\ Missing

(* PeerCount: F is an integer, and there are 3F+1 peers at most.               *)
LEMMA PeerCounts == OneF \in Nat /\ Cardinality(Peers) \in Nat /\ Cardinality(Peers) <= 3 * OneF + 1
<1>1. Cardinality(Peers) \in Nat /\ Cardinality(Peers) >= 3
  BY PeersAssumption, FS_CardinalityType
<1> QED BY <1>1, SMT DEF OneF

(* Two majorities share a peer that is not faulty.                             *)
LEMMA MajoritiesMeet ==
  ASSUME NEW A \in SUBSET Peers, NEW B \in SUBSET Peers, NEW U \in SUBSET Peers,
         Cardinality(A) >= Majority, Cardinality(B) >= Majority, Cardinality(U) <= OneF
  PROVE  \E q \in A \cap B : q \notin U
<1>1. IsFiniteSet(A) /\ IsFiniteSet(B) /\ IsFiniteSet(U) /\ IsFiniteSet(A \cap B)
  BY PeersAssumption, FS_Subset
<1>2. /\ Cardinality(A) \in Nat /\ Cardinality(B) \in Nat /\ Cardinality(U) \in Nat
      /\ Cardinality(A \cap B) \in Nat /\ Cardinality(A \cup B) \in Nat
  BY <1>1, FS_CardinalityType, FS_Union
<1>3. Cardinality(A \cup B) = Cardinality(A) + Cardinality(B) - Cardinality(A \cap B)
  BY <1>1, FS_Union
<1>4. Cardinality(A \cup B) <= Cardinality(Peers)
  BY PeersAssumption, FS_Subset
<1>5. Cardinality(A \cap B) > Cardinality(U)
  BY <1>2, <1>3, <1>4, PeerCounts, SMT DEF Majority
<1>6. ~(A \cap B \subseteq U)
  <2>1. A \cap B \subseteq U => Cardinality(A \cap B) <= Cardinality(U)
    BY <1>1, FS_Subset
  <2> QED BY <2>1, <1>2, <1>5, SMT
<1> QED BY <1>6

(* The signatures of 2F others and the author itself are a majority.            *)
LEMMA WithAuthor ==
  ASSUME NEW E \in SUBSET (Peers \ {Author}), Cardinality(E) >= MajorityOfOthers
  PROVE  E \cup {Author} \in SUBSET Peers /\ Cardinality(E \cup {Author}) >= Majority
<1>1. IsFiniteSet(E)
  BY PeersAssumption, FS_Subset
<1>2. Cardinality(E) \in Nat /\ Cardinality(E \cup {Author}) = Cardinality(E) + 1
  BY <1>1, FS_CardinalityType, FS_AddElement, Zenon
<1> QED BY <1>2, PeerCounts, PeersAssumption, SMT DEF Majority, MajorityOfOthers

-----------------------------------------------------------------------------
\* What a step does to the location of peer q: nothing is taken back, and what the
\* points refer to is final once the point @ r+2 is made.
Forward(q) == /\ loc[q].handed \subseteq loc[q]'.handed
              /\ 2 \in loc[q].made => /\ 2 \in loc[q]'.made
                                      /\ P!Referenced(loc[q]') = P!Referenced(loc[q])

(* Signatures stay, and a quorum that missed a version goes on to miss it.      *)
LEMMA Persistence ==
  ASSUME EvidenceTypeOK, faulty' = faulty, \A q \in Peers : Forward(q)
  PROVE  /\ \A v \in Versions, E \in SUBSET (Peers \ {Author}) : Signatures(v, E) => Signatures(v, E)'
         /\ \A v \in Versions, Q \in SUBSET Peers : Blind(v, Q) => Blind(v, Q)'
  BY DEF Forward, Signatures, Blind, MajorityOfOthers, Majority, OneF

(* The facts of a step at peer q alone.                                         *)
LEMMA OneLocation ==
  ASSUME EvidenceTypeOK, NEW q \in Peers, NEW s \in P!Locations, Becomes(q, s)
  PROVE  /\ loc' \in [Peers -> P!Locations] /\ loc'[q] = s
         /\ \A p \in Peers \ {q} : loc'[p] = loc[p]
  BY DEF EvidenceTypeOK, Becomes

(* The operators of Promise, field by field.                                    *)
LEMMA SignedFields ==
  ASSUME NEW s \in P!Locations, NEW v \in Versions
  PROVE  /\ P!Signed(s, v) \in P!Locations
         /\ P!Signed(s, v).handed = s.handed \cup {v} /\ P!Signed(s, v).made = s.made
         /\ P!Signed(s, v).included = s.included /\ P!Signed(s, v).witnessed = s.witnessed
  BY DEF P!Locations, P!Signed

LEMMA PointFields ==
  ASSUME NEW s \in P!Locations, NEW S \in SUBSET Versions
  PROVE  /\ P!Included(s, S) \in P!Locations /\ P!Witnessed(s, S) \in P!Locations
         /\ P!Included(s, S).handed = s.handed /\ P!Included(s, S).made = s.made \cup {1}
         /\ P!Included(s, S).included = S /\ P!Included(s, S).witnessed = s.witnessed
         /\ P!Witnessed(s, S).handed = s.handed /\ P!Witnessed(s, S).made = s.made \cup {2}
         /\ P!Witnessed(s, S).included = s.included /\ P!Witnessed(s, S).witnessed = S
  BY SMTT(20) DEF P!Locations, P!Included, P!Witnessed

LEMMA Initially == EvidenceInit => EvidenceInv
<1> SUFFICES ASSUME EvidenceInit PROVE EvidenceInv OBVIOUS
<1>1. P!Untouched \in P!Locations
  BY DEF P!Untouched, P!Locations
<1>2. EvidenceTypeOK /\ Cardinality(faulty) <= OneF
  BY <1>1 DEF EvidenceInit, EvidenceTypeOK
<1>3. Kept
  BY DEF EvidenceInit, Kept, HonestOthers, Honest, P!Untouched
<1> QED BY <1>2, <1>3, Zenon DEF EvidenceInv, EvidenceInit, AuthorKept, Proven, Missing

\* What is left to show of a step, once it is known to go forward.
Local == EvidenceTypeOK' /\ Kept' /\ AuthorKept' /\ \A q \in Peers : Forward(q)

(* A step that proves and misses nothing new keeps the invariant.              *)
LEMMA LocalStep ==
  ASSUME EvidenceInv, Local, UNCHANGED <<faulty, certified, missed>>
  PROVE  EvidenceInv'
<1> USE DEF EvidenceInv, Local
<1>1. Proven'
  BY Persistence DEF Proven, EvidenceTypeOK
<1>2. Missing'
  BY Persistence DEF Missing, EvidenceTypeOK
<1>3. (Cardinality(faulty) <= OneF)'
  BY DEF OneF
<1> QED BY <1>1, <1>2, <1>3

LEMMA MakePointStep == ASSUME EvidenceInv, NEW v \in Versions, MakePoint(v) PROVE EvidenceInv'
<1> USE DEF EvidenceInv
<1>1. CASE loc' = loc
  BY <1>1, LocalStep, Zenon DEF MakePoint, Local, EvidenceTypeOK, Kept, AuthorKept, HonestOthers, Honest, Forward
<1>2. CASE /\ Author \in Honest /\ loc[Author].made = {}
           /\ Becomes(Author, P!Signed(loc[Author], v))
  <2>1. loc[Author] \in P!Locations /\ Author \in Peers
    BY PeersAssumption DEF EvidenceTypeOK
  <2>2. P!Signed(loc[Author], v) \in P!Locations
    BY <2>1, SignedFields
  <2>3. /\ loc' \in [Peers -> P!Locations] /\ loc'[Author] = P!Signed(loc[Author], v)
        /\ \A p \in Peers \ {Author} : loc'[p] = loc[p]
    BY <1>2, <2>1, <2>2, OneLocation, SMTT(30)
  <2>4. /\ loc'[Author].handed = loc[Author].handed \cup {v} /\ loc'[Author].made = {}
        /\ loc'[Author].included = loc[Author].included
    BY <1>2, <2>1, <2>3, SignedFields, SMTT(20)
  <2>5. \A q \in Peers : Forward(q)
    BY <1>2, <2>3, <2>4, SMTT(20) DEF Forward
  <2>6. EvidenceTypeOK' /\ Kept' /\ AuthorKept'
    <3>1. UNCHANGED <<faulty, certified, missed>> /\ versions' = versions \cup {v} BY DEF MakePoint
    <3>2. EvidenceTypeOK' BY <3>1, <2>3 DEF EvidenceTypeOK
    <3>3. Kept' BY <3>1, <2>3 DEF Kept, HonestOthers, Honest
    <3>4. AuthorKept' BY <3>1, <2>3, <2>4, <1>2, Zenon DEF AuthorKept, Honest, EvidenceTypeOK
    <3> QED BY <3>2, <3>3, <3>4
  <2> QED BY <2>5, <2>6, LocalStep, Zenon DEF MakePoint, Local
<1> QED BY <1>1, <1>2 DEF MakePoint

LEMMA SignStep == ASSUME EvidenceInv, NEW q \in Peers, NEW v \in Versions, Sign(q, v) PROVE EvidenceInv'
<1> USE DEF EvidenceInv
<1>1. loc[q] \in P!Locations /\ q \in HonestOthers
  BY DEF EvidenceTypeOK, Sign, HonestOthers
<1>2. P!Signed(loc[q], v) \in P!Locations
  BY <1>1, SignedFields, Zenon
<1>3. /\ loc' \in [Peers -> P!Locations] /\ loc'[q] = P!Signed(loc[q], v)
      /\ \A p \in Peers \ {q} : loc'[p] = loc[p]
  BY <1>2, OneLocation DEF Sign
<1>4. /\ loc'[q].handed = loc[q].handed \cup {v} /\ loc'[q].made = loc[q].made
      /\ P!Referenced(loc'[q]) = P!Referenced(loc[q])
  BY <1>1, <1>3, SignedFields, SMTT(20) DEF P!Referenced
<1>5. loc[q].handed \subseteq {v} /\ (2 \in loc[q].made => v \in P!Referenced(loc[q]))
  BY SMTT(20) DEF Sign, P!MaySign
<1>6. Kept'
  BY <1>1, <1>3, <1>4, <1>5 DEF Kept, HonestOthers, Honest, Sign
<1>7. EvidenceTypeOK' /\ AuthorKept' /\ \A p \in Peers : Forward(p)
  BY <1>1, <1>3, <1>4, PeersAssumption, Zenon DEF Sign, EvidenceTypeOK, AuthorKept, HonestOthers, Honest, Forward
<1> QED BY <1>6, <1>7, LocalStep DEF Sign, Local

LEMMA IncludeStep ==
  ASSUME EvidenceInv, NEW q \in Peers, NEW S \in SUBSET Versions, Include(q, S) PROVE EvidenceInv'
<1> USE DEF EvidenceInv
<1>1. loc[q] \in P!Locations /\ q \in HonestOthers /\ loc[q].made = {}
  BY Zenon DEF EvidenceTypeOK, Include, HonestOthers, P!MayInclude
<1>2. P!Included(loc[q], S) \in P!Locations
  BY <1>1, PointFields
<1>3. /\ loc' \in [Peers -> P!Locations] /\ loc'[q] = P!Included(loc[q], S)
      /\ \A p \in Peers \ {q} : loc'[p] = loc[p]
  BY <1>2, OneLocation DEF Include
<1>4. loc'[q].handed = loc[q].handed /\ loc'[q].made = {1}
  BY <1>1, <1>3, PointFields
<1>5. UNCHANGED <<faulty, versions, certified, missed>>
  BY DEF Include
<1>6. EvidenceTypeOK'
  BY <1>3, <1>5 DEF EvidenceTypeOK
<1>7. Kept'
  BY <1>1, <1>3, <1>4, <1>5, SMTT(20) DEF Kept, HonestOthers, Honest
<1>8. AuthorKept'
  BY <1>1, <1>3, <1>5, PeersAssumption, SMTT(20) DEF AuthorKept, HonestOthers, Honest
<1>9. \A p \in Peers : Forward(p)
  BY <1>1, <1>3, <1>4 DEF Forward
<1> QED BY <1>5, <1>6, <1>7, <1>8, <1>9, LocalStep, SMTT(20) DEF Local

LEMMA WitnessStep ==
  ASSUME EvidenceInv, NEW q \in Peers, NEW W \in SUBSET Versions, Witness(q, W) PROVE EvidenceInv'
<1> USE DEF EvidenceInv
<1>1. loc[q] \in P!Locations /\ 2 \notin loc[q].made
  BY DEF EvidenceTypeOK, Witness, P!MayWitness
<1>2. P!Witnessed(loc[q], W) \in P!Locations
  BY <1>1, PointFields
<1>3. /\ loc' \in [Peers -> P!Locations] /\ loc'[q] = P!Witnessed(loc[q], W)
      /\ \A p \in Peers \ {q} : loc'[p] = loc[p]
  BY <1>2, OneLocation, SMTT(30) DEF Witness
<1>4. /\ loc'[q].handed = loc[q].handed /\ loc'[q].made = loc[q].made \cup {2}
      /\ loc'[q].included = loc[q].included /\ loc'[q].witnessed = W
  BY <1>1, <1>3, PointFields, SMTT(20)
<1>5. q \in HonestOthers => loc[q].handed \subseteq loc[q].included \cup W
  BY Zenon DEF Witness, P!MayWitness, HonestOthers
<1>6. UNCHANGED <<faulty, versions, certified, missed>>
  BY DEF Witness
<1>7. P!Referenced(loc'[q]) = loc[q].included \cup W
  BY <1>4 DEF P!Referenced
<1>8. Kept'
  <2>1. HonestOthers' = HonestOthers
    BY <1>6 DEF HonestOthers, Honest
  <2>2. ASSUME NEW p \in HonestOthers, p # q
        PROVE  loc'[p] = loc[p]
    BY <1>3, <2>2, SMTT(20) DEF HonestOthers, Honest
  <2> QED BY <1>4, <1>5, <1>7, <2>1, <2>2 DEF Kept
<1>9. EvidenceTypeOK'
  BY <1>3, <1>6 DEF EvidenceTypeOK
<1>10. AuthorKept'
  BY <1>1, <1>3, <1>4, <1>6, PeersAssumption, SMTT(20) DEF AuthorKept, Honest
<1>11. \A p \in Peers : Forward(p)
  BY <1>1, <1>3, <1>4 DEF Forward
<1> QED BY <1>6, <1>8, <1>9, <1>10, <1>11, LocalStep DEF Local

LEMMA ProveStep == ASSUME EvidenceInv, NEW v \in Versions, Prove(v) PROVE EvidenceInv'
<1> USE DEF EvidenceInv
<1>1. Local
  <2>1. CASE Author \in faulty /\ loc' = loc
    BY <2>1, Zenon DEF Prove, Local, EvidenceTypeOK, Kept, AuthorKept, HonestOthers, Honest, Forward
  <2>2. CASE /\ Author \in Honest /\ P!MayInclude(loc[Author])
             /\ Becomes(Author, P!Included(loc[Author], {v}))
    <3>1. loc[Author] \in P!Locations /\ Author \in Peers /\ loc[Author].made = {}
      BY <2>2, PeersAssumption DEF EvidenceTypeOK, P!MayInclude
    <3>2. P!Included(loc[Author], {v}) \in P!Locations
      BY <3>1, PointFields
    <3>3. /\ loc' \in [Peers -> P!Locations] /\ loc'[Author] = P!Included(loc[Author], {v})
          /\ \A p \in Peers \ {Author} : loc'[p] = loc[p]
      BY <2>2, <3>1, <3>2, OneLocation, Zenon
    <3>4. /\ loc'[Author].handed = loc[Author].handed /\ loc'[Author].made = {1}
          /\ loc'[Author].included = {v}
      BY <3>1, <3>3, PointFields, SMTT(20)
    <3>5. certified = {}
      BY <2>2, <3>1, Zenon DEF AuthorKept
    <3>6. AuthorKept' /\ EvidenceTypeOK' /\ Kept'
      BY <3>3, <3>4, <3>5, Zenon DEF Prove, AuthorKept, EvidenceTypeOK, Kept, HonestOthers, Honest
    <3>7. \A q \in Peers : Forward(q)
      BY <3>1, <3>3, <3>4, Zenon DEF Forward
    <3> QED BY <3>6, <3>7, SMTT(20) DEF Local
  <2> QED BY <2>1, <2>2 DEF Prove
<1>2. faulty' = faulty /\ missed' = missed /\ certified' = certified \cup {v}
  BY DEF Prove
<1>3. Signatures(v, SignersOf(v))
  BY DEF Prove, Signatures, SignersOf
<1>4. Proven'
  <2>1. SignersOf(v) \in SUBSET (Peers \ {Author})
    BY DEF SignersOf
  <2>2. \A w \in certified' : \E E \in SUBSET (Peers \ {Author}) : Signatures(w, E)
    BY <1>2, <1>3, <2>1 DEF Proven
  <2> QED BY <1>1, <1>2, <2>2, Persistence DEF Local, Proven, EvidenceTypeOK
<1>5. Missing'
  BY <1>1, <1>2, Persistence DEF Local, Missing, EvidenceTypeOK
<1>6. (Cardinality(faulty) <= OneF)'
  BY <1>2 DEF OneF
<1> QED BY <1>1, <1>4, <1>5, <1>6 DEF Local

LEMMA MakeLaterStep == ASSUME EvidenceInv, NEW Q \in SUBSET Peers, MakeLater(Q) PROVE EvidenceInv'
<1> USE DEF EvidenceInv
<1>1. UNCHANGED <<faulty, versions, loc, certified>>
  BY DEF MakeLater
<1>2. \A v \in missed' \ missed : Blind(v, Q)
  BY DEF MakeLater, Blind, Seen
<1>3. \A v \in missed' : \E R \in SUBSET Peers : Blind(v, R)
  BY <1>2 DEF Missing
<1>4. Missing'
  BY <1>1, <1>3 DEF Missing, Blind, Majority, OneF
<1>5. Proven'
  BY <1>1, SMTT(20) DEF Proven, Signatures, MajorityOfOthers, OneF
<1>6. EvidenceTypeOK' /\ (Cardinality(faulty) <= OneF)' /\ Kept' /\ AuthorKept'
  BY <1>1, Zenon DEF MakeLater, EvidenceTypeOK, OneF, Kept, AuthorKept, HonestOthers, Honest
<1> QED BY <1>4, <1>5, <1>6, SMTT(20)

THEOREM Invariance == EvidenceSpec => []EvidenceInv
<1>1. EvidenceInv /\ [EvidenceNext]_evidenceVars => EvidenceInv'
  <2> SUFFICES ASSUME EvidenceInv, [EvidenceNext]_evidenceVars PROVE EvidenceInv' OBVIOUS
  <2>1. CASE EvidenceNext
    BY <2>1, MakePointStep, SignStep, IncludeStep, WitnessStep, ProveStep, MakeLaterStep, SMTT(20) DEF EvidenceNext
  <2>2. CASE UNCHANGED evidenceVars
    <3>1. UNCHANGED <<faulty, versions, loc, certified, missed>> BY <2>2 DEF evidenceVars
    <3>2. Proven' BY <3>1 DEF EvidenceInv, Proven, Signatures, MajorityOfOthers, OneF
    <3>3. Missing' BY <3>1 DEF EvidenceInv, Missing, Blind, Majority, OneF
    <3>4. EvidenceTypeOK' /\ (Cardinality(faulty) <= OneF)' /\ Kept' /\ AuthorKept'
      BY <3>1 DEF EvidenceInv, EvidenceTypeOK, OneF, Kept, AuthorKept, HonestOthers, Honest
    <3> QED BY <3>2, <3>3, <3>4 DEF EvidenceInv
  <2> QED BY <2>1, <2>2
<1> QED BY <1>1, Initially, PTL DEF EvidenceSpec

(* Whatever the number of peers, and whichever F of them are faulty, the author
   included, a second version of a point never gets its 2F signatures.         *)
THEOREM OneIsCertified == EvidenceSpec => []OneCertified
<1>1. EvidenceInv => OneCertified
  <2> SUFFICES ASSUME EvidenceInv, NEW v \in certified, NEW w \in certified PROVE v = w
    BY DEF OneCertified
  <2> USE DEF EvidenceInv
  <2>1. CASE Author \in Honest
    BY <2>1 DEF AuthorKept
  <2>2. CASE Author \in faulty
    <3>1. PICK E \in SUBSET (Peers \ {Author}) : Signatures(v, E)
      BY DEF Proven
    <3>2. PICK D \in SUBSET (Peers \ {Author}) : Signatures(w, D)
      BY DEF Proven
    <3>3. PICK q \in (E \cup {Author}) \cap (D \cup {Author}) : q \notin faulty
      BY <3>1, <3>2, WithAuthor, MajoritiesMeet, Zenon DEF Signatures, EvidenceTypeOK
    <3>4. q \in HonestOthers /\ v \in loc[q].handed /\ w \in loc[q].handed
      BY <2>2, <3>1, <3>2, <3>3 DEF Signatures, HonestOthers, Honest
    <3> QED BY <3>4 DEF Kept
  <2> QED BY <2>1, <2>2, PeersAssumption DEF Honest
<1> QED BY <1>1, Invariance, PTL

(* Every point three rounds later includes a quorum of points, and one of their
   authors both signed the proven version and refers to it.                    *)
THEOREM CertifiedCannotBeMissed == EvidenceSpec => []CertifiedIsSeen
<1>1. EvidenceInv => CertifiedIsSeen
  <2> SUFFICES ASSUME EvidenceInv, NEW v \in certified, v \in missed PROVE FALSE
    BY DEF CertifiedIsSeen
  <2> USE DEF EvidenceInv
  <2>1. PICK E \in SUBSET (Peers \ {Author}) : Signatures(v, E)
    BY DEF Proven
  <2>2. PICK Q \in SUBSET Peers : Blind(v, Q)
    BY DEF Missing
  <2>3. PICK q \in (E \cup {Author}) \cap Q : q \notin faulty
    BY <2>1, <2>2, WithAuthor, MajoritiesMeet, Zenon DEF Signatures, Blind, EvidenceTypeOK
  <2>4. 2 \in loc[q].made /\ v \notin P!Referenced(loc[q])
    BY <2>2, <2>3 DEF Blind
  <2>5. CASE q = Author
    BY <2>3, <2>4, <2>5, PeersAssumption DEF AuthorKept, Honest, P!Referenced
  <2>6. CASE q \in E
    BY <2>1, <2>3, <2>4, <2>6 DEF Signatures, Kept, HonestOthers, Honest
  <2> QED BY <2>3, <2>5, <2>6
<1> QED BY <1>1, Invariance, PTL
=============================================================================
