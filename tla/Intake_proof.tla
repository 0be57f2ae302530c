---------------------------- MODULE Intake_proof ----------------------------
(* For any peers, any handlers and any rounds: a reliable minority of broadcasts is
   followed, []MinorityIsFollowed, and no broadcast is asked for again without need,
   AskedAgainOnlyIfAbsent.                                                      *)
EXTENDS Intake, FiniteSetTheorems, TLAPS

QuerySteps == {"add", "set_max", "clean", "retain", "has_point", "view"}
UpdateSteps == {"retain", "outdated", "prev", "current", "next", "publish", "done"}

\* What the flush has left in the filter by now, of what came there in time.
Lowest == CASE update \in {"outdated", "prev"} -> top - 2
            [] update = "current" -> top - 1
            [] update = "next" -> top
            [] update \in {"publish", "done"} -> top + 1

(* Heads are used late but never early, the DAG has no round above the engine's, and
   the flush gets ahead of the filter before the head is published.             *)
FilterInv ==
  /\ IsFiniteSet(filter) /\ filter \subseteq Points
  /\ consensus \in Nat /\ top \in Nat /\ published \in Nat /\ update \in UpdateSteps
  /\ handler \in [Handlers -> {Idle} \cup [step : QuerySteps, point : Points, head : Nat]]
  /\ \A h \in Handlers : handler[h] # Idle => handler[h].head <= published
  /\ \A h \in Handlers : handler[h].step = "view" => handler[h].point.round <= handler[h].head
  /\ published <= top /\ (published = top => update = "done")
  /\ dag \cup taken \subseteq {p \in Points : p.round <= top}
  /\ update # "retain" => \A p \in filter \ late : p.round >= Lowest
  /\ MinorityIsFollowed

LEMMA PointRounds == \A p \in Points : p.round \in Nat
BY IntakeAssumption

LEMMA FilterInit == IntakeInit => FilterInv
<1> SUFFICES ASSUME IntakeInit PROVE FilterInv OBVIOUS
<1> USE DEF IntakeInit
<1>1. IsFiniteSet(filter) BY FS_EmptySet
<1>2. handler \in [Handlers -> {Idle} \cup [step : QuerySteps, point : Points, head : Nat]]
      /\ \A h \in Handlers : handler[h] = Idle
  OBVIOUS
<1>3. \A h \in Handlers : handler[h].step # "view" BY <1>2 DEF Idle
<1>4. MinorityIsFollowed
  <2> SUFFICES ASSUME NEW r \in FirstTop..MaxRound PROVE ~ (Cardinality(Of(r, filter)) > F)
    BY DEF MinorityIsFollowed
  <2>1. Of(r, filter) = {} BY DEF Of
  <2>2. Cardinality(Of(r, filter)) = 0 BY <2>1, FS_EmptySet
  <2> QED BY <2>2, IntakeAssumption
<1> QED BY <1>1, <1>2, <1>3, <1>4, IntakeAssumption DEF FilterInv, UpdateSteps

(* The filter gets smaller or stays, and a round on its way to set_max gets there. *)
LEMMA Followed ==
  ASSUME FilterInv, filter' \subseteq filter, consensus' \in Nat, consensus' >= consensus,
         \A h \in Handlers : handler[h].step = "set_max" =>
             handler'[h] = handler[h] \/ consensus' >= handler[h].point.round
  PROVE  MinorityIsFollowed'
<1> SUFFICES ASSUME NEW r \in FirstTop..MaxRound, Cardinality(Of(r, filter')) > F, ~ (consensus' >= r)
             PROVE  \E h \in Handlers : handler'[h].step = "set_max" /\ handler'[h].point.round = r
  BY DEF MinorityIsFollowed
<1>1. Of(r, filter') \subseteq Of(r, filter) /\ IsFiniteSet(Of(r, filter))
  BY FS_Subset DEF Of, FilterInv
<1>2. /\ Cardinality(Of(r, filter')) <= Cardinality(Of(r, filter))
      /\ Cardinality(Of(r, filter)) \in Nat /\ Cardinality(Of(r, filter')) \in Nat
  BY <1>1, FS_Subset, FS_CardinalityType
<1>3. Cardinality(Of(r, filter)) > F BY <1>2, IntakeAssumption
<1>4. r \in Int /\ consensus \in Nat BY IntakeAssumption DEF FilterInv
<1>5. ~ (consensus >= r) BY <1>4
<1>6. PICK h \in Handlers : handler[h].step = "set_max" /\ handler[h].point.round = r
  BY <1>3, <1>5 DEF FilterInv, MinorityIsFollowed
<1> QED BY <1>6

\* The query of a handler is changed to `q`; the others go on.
Changed(h, q) == handler'[h] = q /\ \A g \in Handlers \ {h} : handler'[g] = handler[g]

LEMMA Queries ==
  ASSUME FilterInv, NEW h \in Handlers
  PROVE  /\ Finish(h) =>
               /\ Changed(h, Idle)
               /\ handler' \in [Handlers -> {Idle} \cup [step : QuerySteps, point : Points, head : Nat]]
         /\ \A s \in QuerySteps : handler[h] # Idle /\ GoTo(h, s) =>
               /\ Changed(h, [step |-> s, point |-> handler[h].point, head |-> handler[h].head])
               /\ handler' \in [Handlers -> {Idle} \cup [step : QuerySteps, point : Points, head : Nat]]
         /\ handler[h].step \in QuerySteps =>
               handler[h] # Idle /\ handler[h] \in [step : QuerySteps, point : Points, head : Nat]
<1> DEFINE Q == [step : QuerySteps, point : Points, head : Nat]
<1>0. handler \in [Handlers -> {Idle} \cup Q] BY DEF FilterInv
<1>1. ASSUME Finish(h) PROVE Changed(h, Idle) /\ handler' \in [Handlers -> {Idle} \cup Q]
  BY <1>0, <1>1 DEF Finish, Changed
<1>2. ASSUME NEW s \in QuerySteps, handler[h] # Idle, GoTo(h, s)
      PROVE  /\ Changed(h, [step |-> s, point |-> handler[h].point, head |-> handler[h].head])
             /\ handler' \in [Handlers -> {Idle} \cup Q]
  <2>1. handler[h] \in Q BY <1>0, <1>2
  <2>2. handler' = [handler EXCEPT ![h] = [handler[h] EXCEPT !.step = s]] BY <1>2 DEF GoTo
  <2>3. [handler[h] EXCEPT !.step = s] = [step |-> s, point |-> handler[h].point, head |-> handler[h].head]
    BY <2>1
  <2>4. [step |-> s, point |-> handler[h].point, head |-> handler[h].head] \in Q BY <2>1
  <2> HIDE DEF Q
  <2> QED BY <2>2, <2>3, <2>4, <1>0 DEF Changed
<1>3. ASSUME handler[h].step \in QuerySteps PROVE handler[h] # Idle /\ handler[h] \in Q
  <2>1. Idle.step \notin QuerySteps BY DEF Idle, QuerySteps
  <2> QED BY <1>0, <1>3, <2>1
<1> QED BY <1>1, <1>2, <1>3

(* A step of a handler that leaves the filter, the DAG and the engine alone.    *)
LEMMA QueryInv ==
  ASSUME FilterInv, NEW h \in Handlers, NEW q \in {Idle} \cup [step : QuerySteps, point : Points, head : Nat],
         Changed(h, q),
         handler' \in [Handlers -> {Idle} \cup [step : QuerySteps, point : Points, head : Nat]],
         q # Idle => q.head <= published, q.step = "view" => q.point.round <= q.head,
         handler[h].step # "set_max" \/ consensus' >= handler[h].point.round,
         consensus' \in Nat, consensus' >= consensus, UNCHANGED <<filter, pruned, late, engine>>,
         dag' \subseteq {p \in Points : p.round <= top}
  PROVE  FilterInv'
<1>1. UNCHANGED <<filter, late, top, published, update, taken>> BY DEF engine
<1>2. \A g \in Handlers : g # h => handler'[g] = handler[g] BY DEF Changed
<1>3. MinorityIsFollowed' BY <1>1, <1>2, Followed
<1>4. \A g \in Handlers : handler'[g] # Idle => handler'[g].head <= published
  BY <1>2 DEF FilterInv, Changed
<1>5. \A g \in Handlers : handler'[g].step = "view" => handler'[g].point.round <= handler'[g].head
  BY <1>2 DEF FilterInv, Changed
<1>6. Lowest' = Lowest BY <1>1 DEF Lowest
<1> QED BY <1>1, <1>3, <1>4, <1>5, <1>6 DEF FilterInv

LEMMA IdleIs == Idle.step = "idle"
BY DEF Idle

LEMMA LoadInv ==
  ASSUME FilterInv, NEW h \in Handlers, NEW p \in Points, NEW s \in {"add", "has_point"}, Load(h, p, s)
  PROVE  FilterInv'
<1> DEFINE q == [step |-> s, point |-> p, head |-> published]
<1>1. q \in [step : QuerySteps, point : Points, head : Nat] BY DEF FilterInv, QuerySteps
<1>2. handler[h] = Idle /\ handler' = [handler EXCEPT ![h] = q] /\ UNCHANGED <<filter, pruned, late, dag, consensus, engine>>
  BY DEF Load, bf
<1>3. q.head <= published /\ q.step # "view" BY DEF FilterInv
<1> HIDE DEF q
<1>4. Changed(h, q) BY <1>2 DEF FilterInv, Changed
<1>5. handler' \in [Handlers -> {Idle} \cup [step : QuerySteps, point : Points, head : Nat]]
  BY <1>1, <1>2 DEF FilterInv
<1>6. consensus' \in Nat /\ consensus' >= consensus /\ dag' \subseteq {x \in Points : x.round <= top}
  BY <1>2 DEF FilterInv
<1>7. handler[h].step # "set_max" BY <1>2, IdleIs
<1> QED BY <1>1, <1>2, <1>3, <1>4, <1>5, <1>6, <1>7, QueryInv

(* Whatever ends without touching the filter: AddToDag, CheckConsensus, the answers. *)
LEMMA FinishInv ==
  ASSUME FilterInv, NEW h \in Handlers, Finish(h), handler[h].step # "set_max",
         UNCHANGED <<bf, consensus, engine>>, dag' \subseteq {p \in Points : p.round <= top}
  PROVE  FilterInv'
<1>1. consensus' \in Nat /\ consensus' >= consensus BY DEF FilterInv
<1>2. UNCHANGED <<filter, pruned, late, engine>> BY DEF bf
<1>3. Idle.step # "view" BY IdleIs
<1> QED BY <1>1, <1>2, <1>3, Queries, QueryInv

LEMMA GoToInv ==
  ASSUME FilterInv, NEW h \in Handlers, NEW s \in QuerySteps, GoTo(h, s), handler[h].step \in QuerySteps,
         s = "view" => handler[h].point.round <= handler[h].head,
         handler[h].step # "set_max" \/ consensus' >= handler[h].point.round,
         consensus' \in Nat, consensus' >= consensus, UNCHANGED <<bf, dag, engine>>
  PROVE  FilterInv'
<1> DEFINE q == [step |-> s, point |-> handler[h].point, head |-> handler[h].head]
<1>1. handler[h] # Idle /\ handler[h] \in [step : QuerySteps, point : Points, head : Nat] BY Queries
<1>2. q \in [step : QuerySteps, point : Points, head : Nat] BY <1>1
<1>3. q.step = s /\ q.head = handler[h].head /\ q.point = handler[h].point OBVIOUS
<1>4. Changed(h, q) /\ handler' \in [Handlers -> {Idle} \cup [step : QuerySteps, point : Points, head : Nat]]
  BY <1>1, Queries
<1> HIDE DEF q
<1>5. UNCHANGED <<filter, pruned, late, engine>> BY DEF bf
<1>6. q.head <= published BY <1>1, <1>3 DEF FilterInv
<1>7. dag' \subseteq {p \in Points : p.round <= top} BY DEF FilterInv
<1> QED BY <1>2, <1>3, <1>4, <1>5, <1>6, <1>7, QueryInv

LEMMA KeepOnlyFinite ==
  ASSUME FilterInv, NEW S, KeepOnly(S)
  PROVE  /\ IsFiniteSet(filter') /\ filter' \subseteq filter /\ filter' \subseteq Points
         /\ filter' \ late' = (filter \ late) \cap S
<1>1. filter' = filter \cap S /\ late' = late \cap S BY DEF KeepOnly
<1>2. IsFiniteSet(filter') BY <1>1, FS_Subset DEF FilterInv
<1> QED BY <1>1, <1>2 DEF FilterInv

LEMMA CleanInv ==
  ASSUME FilterInv, NEW h \in Handlers, clean(h)
  PROVE  FilterInv'
<1>1. PICK S : KeepOnly(S) BY DEF clean
<1>2. handler[h].step = "retain" /\ Finish(h) /\ UNCHANGED <<dag, consensus, top, published, update, taken>>
  BY DEF clean, engine
<1>3. /\ Changed(h, Idle)
      /\ handler' \in [Handlers -> {Idle} \cup [step : QuerySteps, point : Points, head : Nat]]
  BY <1>2, Queries
<1>4. \A g \in Handlers : g # h => handler'[g] = handler[g] BY <1>3 DEF Changed
<1>5. consensus' \in Nat /\ consensus' >= consensus BY <1>2 DEF FilterInv
<1>6. \A g \in Handlers : handler[g].step = "set_max" => handler'[g] = handler[g] BY <1>2, <1>4
<1>7. MinorityIsFollowed' BY <1>1, <1>5, <1>6, KeepOnlyFinite, Followed
<1>8. \A g \in Handlers : handler'[g] # Idle => handler'[g].head <= published
  BY <1>3, <1>4 DEF FilterInv, Changed
<1>9. \A g \in Handlers : handler'[g].step = "view" => handler'[g].point.round <= handler'[g].head
  BY <1>3, <1>4, IdleIs DEF FilterInv, Changed
<1>10. Lowest' = Lowest BY <1>2 DEF Lowest
<1>11. (update # "retain" => \A p \in filter \ late : p.round >= Lowest)'
  BY <1>1, <1>2, <1>10, KeepOnlyFinite DEF FilterInv
<1>12. IsFiniteSet(filter') /\ filter' \subseteq Points BY <1>1, KeepOnlyFinite
<1> QED BY <1>2, <1>3, <1>7, <1>8, <1>9, <1>11, <1>12 DEF FilterInv

LEMMA OneAtMost ==
  ASSUME NEW S, NEW x, IsFiniteSet(S)
  PROVE  Cardinality(S \cup {x}) <= Cardinality(S) + 1 /\ Cardinality(S \cup {x}) \in Nat
<1>1. Cardinality(S) \in Nat BY FS_CardinalityType
<1>2. Cardinality(S \cup {x}) \in {Cardinality(S), Cardinality(S) + 1} BY FS_AddElement
<1> QED BY <1>1, <1>2

(* The one that completes the minority goes to set_max, as it was one short before. *)
LEMMA AddToFilterInv ==
  ASSUME FilterInv, NEW h \in Handlers, AddToFilter(h)
  PROVE  FilterInv'
<1> DEFINE p == handler[h].point
<1>1. /\ handler[h].step = "add" /\ filter' = filter \cup {p}
      /\ late' = IF p \notin filter /\ p.round <= top THEN late \cup {p} ELSE late
      /\ IF ThresholdReached(Of(p.round, filter')) THEN GoTo(h, "set_max") ELSE Finish(h)
      /\ UNCHANGED <<dag, consensus, top, published, update, taken>>
  BY DEF AddToFilter, engine
<1>2. handler[h] # Idle /\ handler[h] \in [step : QuerySteps, point : Points, head : Nat]
  BY <1>1, Queries, Zenon DEF QuerySteps
<1>3. p \in Points /\ p.round \in Nat /\ handler[h].head <= published BY <1>2, PointRounds DEF FilterInv
<1>4. /\ handler' \in [Handlers -> {Idle} \cup [step : QuerySteps, point : Points, head : Nat]]
      /\ \A g \in Handlers \ {h} : handler'[g] = handler[g]
      /\ handler'[h] # Idle => handler'[h].head = handler[h].head
      /\ handler'[h].step # "view"
      /\ ThresholdReached(Of(p.round, filter')) => handler'[h].step = "set_max" /\ handler'[h].point = p
  <2>1. CASE ThresholdReached(Of(p.round, filter'))
    <3>1. GoTo(h, "set_max") /\ "set_max" \in QuerySteps BY <1>1, <2>1 DEF QuerySteps
    <3>2. /\ Changed(h, [step |-> "set_max", point |-> p, head |-> handler[h].head])
          /\ handler' \in [Handlers -> {Idle} \cup [step : QuerySteps, point : Points, head : Nat]]
      BY <3>1, <1>2, Queries
    <3> QED BY <3>2 DEF Changed
  <2>2. CASE ~ ThresholdReached(Of(p.round, filter'))
    <3>1. Finish(h) BY <1>1, <2>2
    <3>2. /\ Changed(h, Idle)
          /\ handler' \in [Handlers -> {Idle} \cup [step : QuerySteps, point : Points, head : Nat]]
      BY <3>1, Queries
    <3> QED BY <2>2, <3>2, IdleIs DEF Changed
  <2> QED BY <2>1, <2>2
<1> HIDE DEF p
<1>5. IsFiniteSet(filter') /\ filter' \subseteq Points BY <1>1, <1>3, FS_AddElement DEF FilterInv
<1>6. MinorityIsFollowed'
  <2> SUFFICES ASSUME NEW r \in FirstTop..MaxRound, Cardinality(Of(r, filter')) > F, ~ (consensus' >= r)
               PROVE  \E g \in Handlers : handler'[g].step = "set_max" /\ handler'[g].point.round = r
    BY DEF MinorityIsFollowed
  <2>1. IsFiniteSet(Of(r, filter)) /\ Cardinality(Of(r, filter)) \in Nat
    <3>1. Of(r, filter) \subseteq filter BY DEF Of
    <3> QED BY <3>1, FS_Subset, FS_CardinalityType DEF FilterInv
  <2>2. CASE Cardinality(Of(r, filter)) > F
    <3>1. PICK g \in Handlers : handler[g].step = "set_max" /\ handler[g].point.round = r
      BY <2>2, <1>1 DEF FilterInv, MinorityIsFollowed
    <3>2. g # h BY <3>1, <1>1
    <3> QED BY <3>1, <3>2, <1>4
  <2>3. CASE ~ (Cardinality(Of(r, filter)) > F)
    <3>1. Of(r, filter') # Of(r, filter) BY <2>3
    <3>2. r = p.round /\ Of(r, filter') = Of(r, filter) \cup {p} BY <3>1, <1>1 DEF Of
    <3>3. Cardinality(Of(r, filter')) <= Cardinality(Of(r, filter)) + 1 /\ Cardinality(Of(r, filter')) \in Nat
      BY <3>2, <2>1, OneAtMost
    <3>4. Cardinality(Of(r, filter')) = F + 1 BY <2>1, <2>3, <3>3, IntakeAssumption
    <3> QED BY <3>2, <3>4, <1>4 DEF ThresholdReached
  <2> QED BY <2>2, <2>3
<1>7. \A g \in Handlers : handler'[g] # Idle => handler'[g].head <= published
  <2> SUFFICES ASSUME NEW g \in Handlers, handler'[g] # Idle PROVE handler'[g].head <= published OBVIOUS
  <2>1. CASE g = h BY <2>1, <1>3, <1>4
  <2>2. CASE g # h BY <2>2, <1>4 DEF FilterInv
  <2> QED BY <2>1, <2>2
<1>8. \A g \in Handlers : handler'[g].step = "view" => handler'[g].point.round <= handler'[g].head
  BY <1>4 DEF FilterInv
<1>9. (update # "retain" => \A x \in filter \ late : x.round >= Lowest)'
  <2> SUFFICES ASSUME update # "retain", NEW x \in filter' \ late' PROVE x.round >= Lowest
    BY <1>1, Zenon DEF Lowest
  <2>1. CASE x \in filter \ late BY <2>1 DEF FilterInv
  <2>2. CASE x \notin filter \ late
    <3>1. x = p /\ p \notin filter /\ ~ (p.round <= top) BY <2>2, <1>1
    <3>2. p.round >= top + 1 /\ top \in Nat BY <3>1, <1>3 DEF FilterInv
    <3>3. Lowest \in {top - 2, top - 1, top, top + 1} BY DEF Lowest, FilterInv, UpdateSteps
    <3> QED BY <3>1, <3>2, <3>3, <1>3
  <2> QED BY <2>1, <2>2
<1> QED BY <1>1, <1>4, <1>5, <1>6, <1>7, <1>8, <1>9 DEF FilterInv

LEMMA HandlerInv ==
  ASSUME FilterInv, NEW h \in Handlers, HandlerSteps(h)
  PROVE  FilterInv'
<1> DEFINE p == handler[h].point
<1>0. handler[h].step \in QuerySteps => handler[h] # Idle /\ p \in Points /\ p.round \in Nat /\ handler[h].head \in Nat
  BY Queries, PointRounds
<1>1. CASE AddToDag(h)
  <2>1. handler[h].step = "add" /\ p.round <= handler[h].head /\ dag' \subseteq dag \cup {p} /\ Finish(h)
    BY <1>1 DEF AddToDag
  <2>2. handler[h].head <= published /\ p \in Points BY <2>1, <1>0 DEF FilterInv, QuerySteps
  <2>3. p.round <= top BY <2>1, <2>2, <1>0 DEF FilterInv, QuerySteps
  <2>4. dag' \subseteq {x \in Points : x.round <= top} BY <2>1, <2>2, <2>3 DEF FilterInv
  <2> QED BY <2>1, <2>4, <1>1, FinishInv DEF AddToDag
<1>2. CASE AddToFilter(h) BY <1>2, AddToFilterInv
<1>3. CASE set_max(h)
  <2>1. /\ handler[h].step = "set_max" /\ consensus' = Larger(consensus, p.round) /\ GoTo(h, "clean")
        /\ UNCHANGED <<bf, dag, engine>>
    BY <1>3 DEF set_max
  <2>2. consensus \in Nat /\ p.round \in Nat BY <2>1, <1>0 DEF FilterInv, QuerySteps
  <2>3. consensus' \in Nat /\ consensus' >= consensus /\ consensus' >= p.round BY <2>1, <2>2 DEF Larger
  <2>4. "clean" \in QuerySteps /\ handler[h].step \in QuerySteps BY <2>1 DEF QuerySteps
  <2> QED BY <2>1, <2>3, <2>4, GoToInv
<1>4. CASE CheckConsensus(h)
  <2>1. handler[h].step = "clean" /\ UNCHANGED <<bf, dag, consensus, engine>> BY <1>4 DEF CheckConsensus
  <2>2. "retain" \in QuerySteps /\ handler[h].step \in QuerySteps BY <2>1 DEF QuerySteps
  <2>3. consensus' \in Nat /\ consensus' >= consensus /\ dag' \subseteq {x \in Points : x.round <= top}
    BY <2>1 DEF FilterInv
  <2>4. CASE GoTo(h, "retain") BY <2>1, <2>2, <2>3, <2>4, GoToInv
  <2>5. CASE Finish(h) BY <2>1, <2>3, <2>5, FinishInv
  <2> QED BY <2>4, <2>5, <1>4 DEF CheckConsensus
<1>5. CASE clean(h) BY <1>5, CleanInv
<1>6. CASE SearchFilter(h) \/ SearchDag(h)
  <2>1. handler[h].step \in {"has_point", "view"} /\ UNCHANGED <<bf, dag, consensus, engine>>
    BY <1>6 DEF SearchFilter, SearchDag
  <2>2. handler[h].step \in QuerySteps /\ "view" \in QuerySteps BY <2>1 DEF QuerySteps
  <2>3. consensus' \in Nat /\ consensus' >= consensus /\ dag' \subseteq {x \in Points : x.round <= top}
    BY <2>1 DEF FilterInv
  <2>4. CASE Finish(h) BY <2>1, <2>3, <2>4, FinishInv
  <2>5. CASE GoTo(h, "view") /\ p.round <= handler[h].head BY <2>1, <2>2, <2>3, <2>5, GoToInv, SMTT(30)
  <2>6. Finish(h) \/ (GoTo(h, "view") /\ p.round <= handler[h].head)
    <3>1. handler[h].head \in Nat /\ p.round \in Nat BY <2>2, <1>0
    <3>2. (p.round = handler[h].head \/ p.round \in handler[h].head - 2..handler[h].head - 1)
            => p.round <= handler[h].head
      BY <3>1
    <3> QED BY <3>2, <1>6 DEF SearchFilter, SearchDag, OtherResponse, NoPoint
  <2> QED BY <2>4, <2>5, <2>6
<1> QED BY <1>1, <1>2, <1>3, <1>4, <1>5, <1>6 DEF HandlerSteps

LEMMA EngineInv ==
  ASSUME FilterInv, EndRound \/ Update \/ \E r \in FirstTop..MaxRound : StartRound(r)
  PROVE  FilterInv'
<1>0. handler' = handler
  BY DEF EndRound, Update, StartRound, TakeOutdated, FlushOutdated, FlushRound, Publish
<1>1. \A h \in Handlers : handler[h].step = "set_max" => handler'[h] = handler[h] BY <1>0
<1>2. CASE EndRound
  <2>1. consensus' \in Nat /\ consensus' >= consensus BY <1>2 DEF EndRound, FilterInv
  <2>2. UNCHANGED <<filter, late, dag, top, published, update, taken>> BY <1>2 DEF EndRound, bf, engine
  <2>3. MinorityIsFollowed' BY <1>1, <2>1, <2>2, Followed
  <2>4. Lowest' = Lowest BY <2>2 DEF Lowest
  <2> QED BY <1>0, <2>1, <2>2, <2>3, <2>4 DEF FilterInv
<1>3. ASSUME NEW r \in FirstTop..MaxRound, StartRound(r) PROVE FilterInv'
  <2>1. UNCHANGED <<filter, late, dag, consensus, published, taken>> /\ update' = "retain" /\ top' = r
    BY <1>3 DEF StartRound, bf
  <2>2. top' \in Nat /\ top' > top
    <3>1. r \in Nat /\ top \in Nat BY IntakeAssumption DEF FilterInv
    <3> QED BY <3>1, <2>1, <1>3 DEF StartRound
  <2>3. MinorityIsFollowed' BY <1>1, <2>1, Followed DEF FilterInv
  <2>4. published' < top' BY <2>1, <2>2 DEF FilterInv
  <2>5. (dag \cup taken)' \subseteq {p \in Points : p.round <= top'} BY <2>1, <2>2, PointRounds DEF FilterInv
  <2> QED BY <1>0, <2>1, <2>2, <2>3, <2>4, <2>5 DEF FilterInv, UpdateSteps
<1>4. CASE TakeOutdated
  <2>1. /\ update = "retain" /\ update' = "outdated" /\ UNCHANGED <<dag, consensus, top, published>>
        /\ taken' \subseteq {p \in filter : p.round \in last_back_bottom(top)..top - 3}
        /\ KeepOnly({p \in Points : p.round >= top - 2})
    BY <1>4 DEF TakeOutdated, ToDag
  <2>2. /\ IsFiniteSet(filter') /\ filter' \subseteq filter /\ filter' \subseteq Points
        /\ filter' \ late' = (filter \ late) \cap {p \in Points : p.round >= top - 2}
    BY <2>1, KeepOnlyFinite
  <2>3. MinorityIsFollowed' BY <1>1, <2>1, <2>2, Followed DEF FilterInv
  <2>4. Lowest' = top - 2 BY <2>1 DEF Lowest
  <2>5. taken' \subseteq {p \in Points : p.round <= top}
    <3> SUFFICES ASSUME NEW p \in taken' PROVE p \in Points /\ p.round <= top OBVIOUS
    <3>1. p \in Points /\ p.round \in last_back_bottom(top)..top - 3 BY <2>1 DEF FilterInv
    <3>2. p.round \in Nat /\ top \in Nat /\ last_back_bottom(top) \in Int
      BY <3>1, PointRounds, IntakeAssumption DEF FilterInv, last_back_bottom
    <3> QED BY <3>1, <3>2
  <2>6. published # top BY <2>1 DEF FilterInv
  <2> QED BY <1>0, <2>1, <2>2, <2>3, <2>4, <2>5, <2>6 DEF FilterInv, UpdateSteps
<1>5. CASE FlushOutdated
  <2>1. /\ update = "outdated" /\ update' = "prev" /\ UNCHANGED <<filter, late, consensus, top, published>>
        /\ dag' = dag \cup taken /\ taken' = {}
    BY <1>5 DEF FlushOutdated, bf
  <2>2. MinorityIsFollowed' BY <1>1, <2>1, Followed DEF FilterInv
  <2>3. Lowest' = Lowest BY <2>1 DEF Lowest
  <2> QED BY <1>0, <2>1, <2>2, <2>3 DEF FilterInv, UpdateSteps
<1>6. ASSUME NEW s \in {"prev", "current", "next"}, NEW r, NEW n \in {"current", "next", "publish"},
             FlushRound(s, r, n),
             \/ s = "prev" /\ r = top - 2 /\ n = "current"
             \/ s = "current" /\ r = top - 1 /\ n = "next"
             \/ s = "next" /\ r = top /\ n = "publish"
      PROVE  FilterInv'
  <2>1. /\ update = s /\ update' = n /\ UNCHANGED <<consensus, top, published, taken>>
        /\ dag' \subseteq dag \cup Of(r, filter) /\ KeepOnly({p \in Points : p.round /= r})
    BY <1>6 DEF FlushRound, ToDag
  <2>2. /\ IsFiniteSet(filter') /\ filter' \subseteq filter /\ filter' \subseteq Points
        /\ filter' \ late' = (filter \ late) \cap {p \in Points : p.round /= r}
    BY <2>1, KeepOnlyFinite
  <2>3. MinorityIsFollowed' BY <1>1, <2>1, <2>2, Followed DEF FilterInv
  <2>4. top \in Nat /\ r <= top /\ Lowest = r /\ Lowest' = r + 1 BY <1>6, <2>1 DEF FilterInv, Lowest
  <2>5. \A p \in filter' \ late' : p.round >= Lowest'
    <3> SUFFICES ASSUME NEW p \in filter' \ late' PROVE p.round >= Lowest' OBVIOUS
    <3>1. p \in filter \ late /\ p.round # r /\ p \in Points BY <2>2
    <3>2. p.round >= r BY <1>6, <2>1, <2>4, <3>1 DEF FilterInv
    <3>3. r \in Int BY <1>6, <2>4
    <3> QED BY <3>1, <3>2, <3>3, <2>4, PointRounds
  <2>6. dag' \subseteq {p \in Points : p.round <= top} BY <2>1, <2>4 DEF FilterInv, Of
  <2>7. published # top BY <1>6, <2>1 DEF FilterInv
  <2>8. update' \in UpdateSteps BY <2>1 DEF UpdateSteps
  <2> QED BY <1>0, <2>1, <2>2, <2>3, <2>5, <2>6, <2>7, <2>8 DEF FilterInv
<1>7. CASE Publish
  <2>1. /\ update = "publish" /\ update' = "done" /\ published' = top
        /\ UNCHANGED <<filter, late, dag, consensus, top, taken>>
    BY <1>7, SMTT(20) DEF Publish, bf
  <2>2. MinorityIsFollowed' BY <1>1, <2>1, Followed DEF FilterInv
  <2>3. Lowest' = Lowest BY <2>1 DEF Lowest
  <2>4. \A h \in Handlers : handler'[h] # Idle => handler'[h].head <= published'
    <3> SUFFICES ASSUME NEW h \in Handlers, handler[h] # Idle PROVE handler[h].head <= top BY <1>0, <2>1
    <3>1. handler[h].head \in Nat /\ handler[h].head <= published BY DEF FilterInv
    <3> QED BY <3>1, SMTT(30) DEF FilterInv
  <2> QED BY <1>0, <2>1, <2>2, <2>3, <2>4 DEF FilterInv, UpdateSteps
<1>8. CASE Update
  <2>1. CASE FlushRound("prev", top - 2, "current") BY <2>1, <1>6
  <2>2. CASE FlushRound("current", top - 1, "next") BY <2>2, <1>6
  <2>3. CASE FlushRound("next", top, "publish") BY <2>3, <1>6
  <2> QED BY <2>1, <2>2, <2>3, <1>4, <1>5, <1>7, <1>8 DEF Update
<1> QED BY <1>2, <1>3, <1>8

LEMMA FilterNext == FilterInv /\ [IntakeNext]_intakeVars => FilterInv'
<1> SUFFICES ASSUME FilterInv, [IntakeNext]_intakeVars PROVE FilterInv' OBVIOUS
<1>1. CASE UNCHANGED <<handler, bf, dag, consensus, engine>>
  <2>1. UNCHANGED <<handler, filter, late, dag, consensus, top, published, update, taken>>
    BY <1>1 DEF bf, engine
  <2> QED BY <2>1, Zenon DEF FilterInv, Lowest, MinorityIsFollowed
<1>2. ASSUME NEW p \in Points, NEW h \in Handlers, ReceiveBroadcast(h, p) \/ ReceiveSignatureRequest(h, p)
      PROVE  FilterInv'
  BY <1>2, LoadInv DEF ReceiveBroadcast, ReceiveSignatureRequest
<1>3. ASSUME NEW h \in Handlers, HandlerSteps(h) PROVE FilterInv' BY <1>3, HandlerInv
<1>4. CASE EndRound \/ Update \/ \E r \in FirstTop..MaxRound : StartRound(r) BY <1>4, EngineInv
<1> QED BY <1>1, <1>2, <1>3, <1>4 DEF IntakeNext, LoseBroadcast, intakeVars

(* Who asks for a broadcast uses no head but the newest one when the flush is over, and
   then neither the filter nor the DAG has the point.                           *)
LEMMA AskedAgainStep ==
  ASSUME FilterInv, [IntakeNext]_intakeVars, NEW h \in Handlers,
         handler[h].step \in {"has_point", "view"},
         peer[handler[h].point] = "sent", peer'[handler[h].point] = "repeat",
         handler'[h] = Idle, handler[h].head = top
  PROVE  handler[h].point \notin dag \cup (filter \ late)
<1> DEFINE p == handler[h].point
<1>1. handler[h] # Idle /\ handler[h] \in [step : QuerySteps, point : Points, head : Nat]
  BY Queries, Zenon DEF QuerySteps
<1>2. p \in Points /\ p.round \in Nat /\ top \in Nat /\ handler[h].head <= published
  BY <1>1, PointRounds DEF FilterInv
<1>3. published = top BY <1>2 DEF FilterInv
<1>4. Lowest = top + 1 /\ \A x \in filter \ late : x.round >= top + 1 BY <1>3 DEF FilterInv, Lowest
<1>5. \A x \in dag : x.round <= top BY DEF FilterInv
<1>6. handler'[h] # handler[h] BY <1>1
<1>7. HandlerSteps(h)
  <2>1. ASSUME NEW g \in Handlers, NEW x, NEW s, Load(g, x, s) PROVE FALSE
    <3>1. handler[g] = Idle /\ handler' = [handler EXCEPT ![g] = [step |-> s, point |-> x, head |-> published]]
      BY <2>1 DEF Load
    <3>2. g # h BY <3>1, <1>1
    <3> QED BY <3>1, <3>2, <1>6 DEF FilterInv
  <2>2. ASSUME NEW g \in Handlers, g # h PROVE ~ HandlerSteps(g)
    <3> SUFFICES ASSUME HandlerSteps(g) PROVE FALSE OBVIOUS
    <3>1. Finish(g) \/ \E s : GoTo(g, s)
      BY Zenon DEF HandlerSteps, AddToDag, AddToFilter, set_max, CheckConsensus, clean, SearchFilter, SearchDag,
             OtherResponse, NoPoint
    <3>2. handler'[h] = handler[h] BY <3>1, <2>2 DEF Finish, GoTo, FilterInv
    <3> QED BY <3>2, <1>6
  <2>3. ~ (EndRound \/ Update \/ \E r \in FirstTop..MaxRound : StartRound(r))
    BY <1>6, SMTT(20) DEF EndRound, Update, StartRound, TakeOutdated, FlushOutdated, FlushRound, Publish
  <2>4. ~ (\E x \in Points : LoseBroadcast(x)) /\ ~ UNCHANGED intakeVars BY <1>6 DEF LoseBroadcast, intakeVars
  <2> QED BY <2>1, <2>2, <2>3, <2>4, SMTT(30) DEF IntakeNext, ReceiveBroadcast, ReceiveSignatureRequest
<1>8. CASE SearchFilter(h)
  <2>1. ~ OtherResponse(h) BY DEF OtherResponse
  <2>2. ~ GoTo(h, "view")
    <3> SUFFICES ASSUME GoTo(h, "view") PROVE FALSE OBVIOUS
    <3>1. handler'[h] = [handler[h] EXCEPT !.step = "view"] BY DEF GoTo, FilterInv
    <3>2. handler'[h].step = "view" BY <3>1, <1>1
    <3> QED BY <3>2, IdleIs
  <2>3. p.round > handler[h].head /\ p \notin filter BY <1>8, <2>1, <2>2 DEF SearchFilter
  <2>4. p \notin dag BY <2>3, <1>2, <1>5
  <2> QED BY <2>3, <2>4
<1>9. CASE SearchDag(h)
  <2>1. handler[h].step = "view" /\ p \notin dag BY <1>9 DEF SearchDag, OtherResponse
  <2>2. p.round <= top BY <2>1 DEF FilterInv
  <2>3. p \notin filter \ late BY <2>2, <1>2, <1>4, SMTT(20)
  <2> QED BY <2>1, <2>3
<1>10. SearchFilter(h) \/ SearchDag(h)
  BY <1>7, Zenon DEF HandlerSteps, AddToDag, AddToFilter, set_max, CheckConsensus, clean
<1> QED BY <1>8, <1>9, <1>10

(* MinorityMovesConsensus: for any number of peers and handlers, any F, and any rounds:
   BroadcastFilter::add never lets a reliable minority wait unnoticed.          *)
THEOREM MinorityMovesConsensus == IntakeSpec => []MinorityIsFollowed
<1>1. FilterInv => MinorityIsFollowed BY DEF FilterInv
<1> QED BY <1>1, FilterInit, FilterNext, PTL DEF IntakeSpec

(* NoNeedlessRepeat: the order of Responder::update, flush first and publish last, and
   that of the Signer, filter first and DAG last, leave no gap between them in which a
   broadcast that came in time would be asked for again.                        *)
THEOREM NoNeedlessRepeat == IntakeSpec => AskedAgainOnlyIfAbsent
<1> DEFINE A == \A h \in Handlers :
         LET q == handler[h] IN
         /\ q.step \in {"has_point", "view"}
         /\ peer[q.point] = "sent" /\ peer'[q.point] = "repeat"
         /\ handler'[h] = Idle
         /\ q.head = top
         => q.point \notin dag \cup (filter \ late)
<1>1. FilterInv /\ [IntakeNext]_intakeVars => [A]_intakeVars
  <2> SUFFICES ASSUME FilterInv, [IntakeNext]_intakeVars PROVE A OBVIOUS
  <2> QED BY AskedAgainStep
<1>2. AskedAgainOnlyIfAbsent <=> [][A]_intakeVars BY DEF AskedAgainOnlyIfAbsent
<1> HIDE DEF A
<1> QED BY <1>1, <1>2, FilterInit, FilterNext, PTL DEF IntakeSpec
=============================================================================
