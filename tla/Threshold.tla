------------------------------ MODULE Threshold ------------------------------
(***************************************************************************)
(* The threshold of a round (dag/threshold.rs): valid points are added by  *)
(* any thread through a channel, one task at a time waits in reached()     *)
(* until 2F+1 of them are ready, get_reached() collects what is there.     *)
(* A point whose time lies too far ahead is delayed.  Three counters in    *)
(* one atomic word are kept beside the containers and read at any moment.  *)
(*                                                                         *)
(* A point is named by its author: a location adds one version only        *)
(* (DagLocation).  The order of the channel is left out.  The lock has two *)
(* users, one after the other: the Collector of the round, then the task   *)
(* that produces the point of the next round.                              *)
(***************************************************************************)
EXTENDS Integers, FiniteSets

CONSTANTS
    Authors,  \* the validators of the round
    F         \* as PeerCount has it; 0 for genesis

U8Max == 255

ASSUME PeerCountAssumption ==
    /\ IsFiniteSet(Authors)
    /\ F \in Nat
    /\ Cardinality(Authors) <= 3 * F + 1
    /\ 3 * F + 1 <= U8Max

VARIABLES
    added,      \* points that add() was called for
    adding,     \* those of them counted, but not yet sent
    channel, delayed, ready,
    count,      \* the packed counters
    is_reached,
    due,        \* points that are not ahead of the clock and its skew
    user,       \* whose turn it is to use the lock
    pc,         \* where that user is
    removed,    \* points taken from the channel and not yet subtracted
    max_time,   \* the points that were due when get_reached read the clock
    expected,   \* history: what get_reached could see when it was called
    panic

adders == <<added, adding>>
work == <<channel, delayed, ready>>
call == <<user, pc, removed, max_time, expected>>
vars == <<adders, work, count, is_reached, due, call, panic>>

\* Mutant: the channel has room for the target only
RoomForTarget == 2 * F + 1

full == 3 * F + 1
target_count == 2 * F + 1

Init ==
    /\ added = {} /\ adding = {}
    /\ channel = {} /\ delayed = {} /\ ready = {}
    /\ count = [ready |-> 0, delayed |-> 0, in_channel |-> 0]
    /\ is_reached = FALSE
    /\ due \in SUBSET Authors
    /\ user = "collector" /\ pc = "idle" /\ removed = 0
    /\ max_time = {} /\ expected = {}
    /\ panic = FALSE

-----------------------------------------------------------------------------
\* The counter goes up before the point is in the channel
add_one_in_channel(a) ==
    /\ a \notin added
    /\ added' = added \cup {a}
    /\ adding' = adding \cup {a}
    /\ IF count.in_channel < U8Max
       THEN count' = [count EXCEPT !.in_channel = @ + 1] /\ UNCHANGED panic
       ELSE panic' = TRUE /\ UNCHANGED count
    /\ UNCHANGED <<work, is_reached, due, call>>

try_send(a) ==
    /\ a \in adding
    /\ adding' = adding \ {a}
    /\ IF Cardinality(channel) < full
       THEN channel' = channel \cup {a} /\ UNCHANGED panic
       ELSE panic' = TRUE /\ UNCHANGED channel
    /\ UNCHANGED <<added, delayed, ready, count, is_reached, due, call>>

add(a) == add_one_in_channel(a) \/ try_send(a)

TimePasses(a) ==
    /\ a \notin due
    /\ due' = due \cup {a}
    /\ UNCHANGED <<adders, work, count, is_reached, call, panic>>

-----------------------------------------------------------------------------
\* The counters follow the containers; what was taken from the channel is
\* subtracted, which must not underflow
Decreased ==
    [ready |-> Cardinality(ready), delayed |-> Cardinality(delayed),
     in_channel |-> count.in_channel - removed]

set_decrease ==
    /\ IF /\ Cardinality(ready) <= U8Max
          /\ Cardinality(delayed) <= U8Max
          /\ removed <= count.in_channel
       THEN count' = Decreased /\ UNCHANGED panic
       ELSE panic' = TRUE /\ UNCHANGED count
    /\ removed' = 0

\* A second point of the same author panics
push_ready(points) ==
    /\ ready' = ready \cup points
    /\ panic' = (panic \/ points \cap ready /= {})

\* Mutant: a point that is early is dropped
EarlyDropped(a, fits) ==
    /\ a \in channel
    /\ channel' = channel \ {a}
    /\ removed' = removed + 1
    /\ IF a \in fits THEN push_ready({a}) ELSE UNCHANGED <<ready, panic>>
    /\ UNCHANGED delayed

\* A point from the channel is delayed unless it fits the time read
Take(a, fits) ==
    /\ a \in channel
    /\ channel' = channel \ {a}
    /\ removed' = removed + 1
    /\ \/ /\ a \in fits
          /\ push_ready({a})
          /\ UNCHANGED delayed
       \/ /\ a \notin fits
          /\ delayed' = delayed \cup {a}
          /\ UNCHANGED <<ready, panic>>

\* The collector leaves the lock to the producer, the producer is the last
NextUser == IF user = "collector" THEN "producer" ELSE "nobody"

\* A threshold once reached returns at once
CallReached ==
    /\ user /= "nobody" /\ pc = "idle"
    /\ pc' = IF is_reached THEN "reached" ELSE "waiting"
    /\ UNCHANGED <<adders, work, count, is_reached, due, user, removed,
                   max_time, expected, panic>>

Waiting == pc = "waiting" /\ Cardinality(ready) < target_count

Receive(a) ==
    /\ Waiting
    /\ Take(a, due)
    /\ pc' = "counting"
    /\ UNCHANGED <<adders, count, is_reached, due, user, max_time, expected>>

\* Mutant: only a point that is due when it is received is ever ready
ExpireNever(a) == FALSE /\ UNCHANGED vars

Expire(a) ==
    /\ Waiting
    /\ a \in delayed \cap due
    /\ delayed' = delayed \ {a}
    /\ push_ready({a})
    /\ pc' = "counting"
    /\ UNCHANGED <<adders, channel, count, is_reached, due, user, removed,
                   max_time, expected>>

Count ==
    /\ pc = "counting"
    /\ set_decrease
    /\ pc' = "waiting"
    /\ UNCHANGED <<adders, work, is_reached, due, user, max_time, expected>>

Reached ==
    /\ pc = "waiting" /\ Cardinality(ready) >= target_count
    /\ is_reached' = TRUE
    /\ pc' = "reached"
    /\ UNCHANGED <<adders, work, count, due, user, removed, max_time, expected,
                   panic>>

\* The collector is done with the round, reached or not, or the round was
\* jumped over
CollectorLeaves ==
    /\ user = "collector"
    /\ pc \in {"idle", "reached"} \/ Waiting
    /\ user' = NextUser /\ pc' = "idle"
    /\ UNCHANGED <<adders, work, count, is_reached, due, removed, max_time,
                   expected, panic>>

\* The producer may not produce, or is told that the next round is on
ProducerLeaves ==
    /\ user = "producer"
    /\ pc = "idle" \/ Waiting
    /\ user' = NextUser /\ pc' = "idle"
    /\ UNCHANGED <<adders, work, count, is_reached, due, removed, max_time,
                   expected, panic>>

-----------------------------------------------------------------------------
\* get_reached: the delayed points that are due, soonest first ...
GetDelayed ==
    /\ user = "producer" /\ pc = "reached"
    /\ push_ready(delayed \cap due)
    /\ delayed' = delayed \ due
    /\ max_time' = due
    /\ expected' = ready \cup ((channel \cup delayed) \cap due)
    /\ pc' = "draining"
    /\ UNCHANGED <<adders, channel, count, is_reached, due, user, removed>>

\* ... then the channel until it is empty, by the same reading of the clock
Drain(a) ==
    /\ pc = "draining"
    /\ Take(a, max_time)
    /\ UNCHANGED <<adders, count, is_reached, due, user, pc, max_time, expected>>

\* Mutant: the channel is not drained to its end
EmptyOrNot == pc = "draining"

Drained == pc = "draining" /\ channel = {}

GetReached ==
    /\ Drained
    /\ set_decrease
    /\ user' = NextUser /\ pc' = "got"
    /\ UNCHANGED <<adders, work, is_reached, due, max_time, expected>>

UserSteps ==
    \/ CallReached \/ Count \/ Reached \/ GetDelayed \/ GetReached
    \/ \E a \in Authors : Receive(a) \/ Expire(a) \/ Drain(a)

Next ==
    \/ \E a \in Authors : add(a) \/ TimePasses(a)
    \/ UserSteps \/ CollectorLeaves \/ ProducerLeaves

Spec == Init /\ [][Next]_vars

\* The tasks of a round are polled while they have something to do
FairSpec == Spec /\ WF_vars(UserSteps)

-----------------------------------------------------------------------------
TypeOK ==
    /\ added \in SUBSET Authors /\ adding \in SUBSET Authors
    /\ channel \in SUBSET Authors /\ delayed \in SUBSET Authors
    /\ ready \in SUBSET Authors
    /\ count \in [ready : 0..U8Max, delayed : 0..U8Max, in_channel : 0..U8Max]
    /\ is_reached \in BOOLEAN
    /\ due \in SUBSET Authors
    /\ user \in {"collector", "producer", "nobody"}
    /\ pc \in {"idle", "waiting", "counting", "reached", "draining", "got"}
    /\ removed \in Nat
    /\ max_time \in SUBSET Authors /\ expected \in SUBSET Authors
    /\ panic \in BOOLEAN

\* No panic of threshold.rs is reachable: the channel is never full, the
\* counters neither overflow nor underflow, no author is ready twice, whatever
\* add() does between two steps of the task inside reached() or get_reached()
NoPanic == ~panic

\* "every item is either ready or delayed or in channel" (ThresholdCount), in
\* one of them only, although the waiting future is dropped at any await
NothingLost ==
    /\ added = adding \cup channel \cup delayed \cup ready
    /\ adding \cap channel = {} /\ (adding \cup channel) \cap delayed = {}
    /\ (adding \cup channel \cup delayed) \cap ready = {}

\* ThresholdCount::total as any thread may read it at any moment, also in the
\* middle of reached(), is the number of points added so far
TotalIsExact ==
    count.ready + count.delayed + count.in_channel = Cardinality(added)

\* What get_reached returns has the majority that the producer asserts, and
\* every point that was there and due when it was called
IncludesAreComplete ==
    pc = "got" => expected \subseteq ready /\ Cardinality(ready) >= target_count

\* Once 2F+1 points are sent and due, reached() returns to whoever waits, also
\* when an earlier waiter was dropped with some of them received
ThresholdIsReached ==
    (Cardinality((added \ adding) \cap due) >= target_count)
        ~> (is_reached \/ user = "nobody")
=============================================================================
