------------------------------- MODULE Limiter -------------------------------
(* consensus/src/intercom/dependency/limiter.rs: the queue that download tasks
   pass one by one, newest round first.

   A guest is one download task and comes once; it may be aborted at any moment,
   as the DagPointFuture that owns it is dropped with its round.  A semaphore is
   named after the guest that created it.                                       *)
EXTENDS Naturals, FiniteSets, Functions

CONSTANTS Guests,          \* download tasks
          RoundOf,         \* [Guests -> Nat]: the round of the point of a task
          DownloadTasks    \* ConsensusConfig.download_tasks

ASSUME LimiterAssumption ==
  IsFiniteSet(Guests) /\ RoundOf \in [Guests -> Nat] /\ DownloadTasks \in Nat

VARIABLES bypassed,   \* LimiterInner.inflight_bypassed
          waiters,    \* LimiterInner.waiters: round -> [sem, inflight]
          permits,    \* of each semaphore
          phase,      \* of each guest
          semOf       \* the semaphore that a guest waits at

limiterVars == <<bypassed, waiters, permits, phase, semOf>>

In(p) == {g \in Guests : phase[g] = p}

LimiterInit ==
  /\ bypassed = 0 /\ waiters = << >>
  /\ permits = [g \in Guests |-> 0]
  /\ phase = [g \in Guests |-> "new"]
  /\ semOf = [g \in Guests |-> g]

To(g, p) == phase' = [phase EXCEPT ![g] = p]

SetWaiter(r, w) == waiters' = [q \in DOMAIN waiters \cup {r} |-> IF q = r THEN w ELSE waiters[q]]
-----------------------------------------------------------------------------
(* Limiter::enter, to the await.  `<=` admits one more than download_tasks.     *)
Bypass(g) ==
  /\ phase[g] = "new" /\ bypassed <= DownloadTasks
  /\ bypassed' = bypassed + 1
  /\ To(g, "inside") /\ UNCHANGED <<waiters, permits, semOf>>

Wait(g) ==
  LET r == RoundOf[g]
      w == IF r \in DOMAIN waiters THEN waiters[r] ELSE [sem |-> g, inflight |-> 0]
  IN  /\ phase[g] = "new" /\ bypassed > DownloadTasks
      /\ SetWaiter(r, [w EXCEPT !.inflight = @ + 1])
      /\ semOf' = [semOf EXCEPT ![g] = w.sem]
      /\ To(g, "waiting") /\ UNCHANGED <<bypassed, permits>>

\* The permit is not forgotten.
AcquireKeeping(g) ==
  /\ phase[g] = "waiting" /\ permits[semOf[g]] > 0
  /\ To(g, "inside") /\ UNCHANGED <<bypassed, waiters, permits, semOf>>

(* The rest of Limiter::enter: the permit is taken and forgotten.               *)
Acquire(g) ==
  /\ phase[g] = "waiting" /\ permits[semOf[g]] > 0
  /\ permits' = [permits EXCEPT ![semOf[g]] = @ - 1]
  /\ To(g, "inside") /\ UNCHANGED <<bypassed, waiters, semOf>>

(* Limiter::exit, on drop of the guard: a permit goes to the newest round that is
   waited for; the last one takes the entry of the round away.  An aborted task drops
   its guard like one that ends.                                                *)
Pass(r) ==
  /\ permits' = [permits EXCEPT ![waiters[r].sem] = @ + 1]
  /\ IF waiters[r].inflight = 1
     THEN waiters' = Restrict(waiters, DOMAIN waiters \ {r})
     ELSE SetWaiter(r, [waiters[r] EXCEPT !.inflight = @ - 1])
  /\ UNCHANGED bypassed

Release ==
  \/ \E r \in DOMAIN waiters : (\A q \in DOMAIN waiters : q <= r) /\ Pass(r)
  \/ DOMAIN waiters = {} /\ bypassed' = bypassed - 1 /\ UNCHANGED <<waiters, permits>>

Leave(g) == phase[g] = "inside" /\ Release /\ To(g, "out") /\ UNCHANGED semOf

(* The task is aborted in the queue: there is no guard yet, and the entry of its round
   keeps counting it.                                                           *)
AbortWaiting(g) == phase[g] = "waiting" /\ To(g, "lost") /\ UNCHANGED <<bypassed, waiters, permits, semOf>>
-----------------------------------------------------------------------------
\* The sum of a function, as the number of its units.
Units(f) == UNION {{x} \X (1 .. f[x]) : x \in DOMAIN f}
Total(f) == Cardinality(Units(f))

\* Waiters.inflight of each round.
Inflight == [r \in DOMAIN waiters |-> waiters[r].inflight]

LimiterTypeOK ==
  /\ bypassed \in Nat
  /\ DOMAIN waiters \subseteq Range(RoundOf)
  /\ \A r \in DOMAIN waiters : waiters[r] \in [sem : Guests, inflight : Nat]
  /\ permits \in [Guests -> Nat]
  /\ phase \in [Guests -> {"new", "waiting", "inside", "out", "lost"}]
  /\ semOf \in [Guests -> Guests]

(* Each credit of the limiter belongs to a task inside or to a permit that somebody
   in the queue may take, and each permit was given for somebody who came to the
   queue and has not passed it; a task aborted there takes its credit away.  So the
   counters return to zero ("all bypass permit credits must be returned") when
   nobody was aborted in the queue, and neither of them underflows.  And while
   somebody is in the queue, somebody inside or a permit on its way will call the
   next one, as long as no more tasks were lost there than DownloadTasks.       *)
Credits ==
  /\ LimiterTypeOK
  /\ bypassed = Cardinality(In("inside")) + Total(permits)
  /\ Total(permits) + Total(Inflight) = Cardinality(In("waiting") \cup In("lost"))
  /\ In("waiting") # {} =>
       \/ Cardinality(In("lost")) > DownloadTasks
       \/ In("inside") # {}
       \/ \E g \in In("waiting") : permits[semOf[g]] > 0
=============================================================================
