------------------------------ MODULE Downloads ------------------------------
(* Downloader::run: a download task passes the Limiter, with other tasks around it.
   The task `Me` is modelled in full (Download), the others only hold the guard. *)
EXTENDS Limiter, Download

CONSTANT Me   \* the task of Download

ASSUME MeAssumption == Me \in Guests

vars == <<limiterVars, downloadVars>>

Others == Guests \ {Me}

Init == LimiterInit /\ DownloadInit

(* The guard is held from the return of Limiter::enter ...                      *)
EnterMe == (Bypass(Me) \/ Acquire(Me)) /\ Start

QueueMe == Wait(Me) /\ UNCHANGED downloadVars

(* ... and is dropped with the result.                                          *)
StepMe ==
  \/ TaskNext /\ UNCHANGED limiterVars
  \/ \E p \in Asked : \E a \in Answers(p) :
        /\ Answer(p, a)
        /\ IF result' = "running" THEN UNCHANGED limiterVars ELSE Leave(Me)
  \/ Broadcast /\ Leave(Me)

AbortMe == Abort /\ (AbortWaiting(Me) \/ Leave(Me))

StepOther(g) ==
  /\ Bypass(g) \/ Wait(g) \/ Acquire(g) \/ Leave(g) \/ AbortWaiting(g)
  /\ UNCHANGED downloadVars

Next == \/ EnterMe \/ QueueMe \/ StepMe \/ AbortMe
        \/ \E g \in Others : StepOther(g)
        \/ PeerNext /\ UNCHANGED limiterVars

Spec == Init /\ [][Next]_vars

(* Fairness: tasks come, take their permits and end; the interval ticks; a peer that is
   asked again and again answers at last; and the random choice does not pass a peer
   over for ever.  No query has to end.                                         *)
StepOthers  == (\E g \in Others : Bypass(g) \/ Wait(g) \/ Acquire(g) \/ Leave(g)) /\ UNCHANGED downloadVars
Ticks       == (\E S \in SUBSET Asked : Tick(S)) /\ UNCHANGED limiterVars
Asks(p)     == (\E S \in SUBSET Asked : p \in S /\ Tick(S)) /\ UNCHANGED limiterVars
Responds(p) == Answer(p, "defined") /\ Leave(Me)

FairSpec ==
  /\ Spec
  /\ WF_vars(EnterMe \/ QueueMe) /\ WF_vars(StepOthers)
  /\ WF_vars((\E p \in Asked : AddDepender(p)) /\ UNCHANGED limiterVars) /\ WF_vars(Ticks)
  /\ \A p \in Honest : SF_vars(Responds(p)) /\ SF_vars(Asks(p))
-----------------------------------------------------------------------------
\* A peer that follows the protocol, is known to the task and keeps the point.
Reachable(p) == p \in Honest \cap resolved \cap kept /\ status[p] \in {"valid", "proven"}

(* Downloaded: a task for a point that some reachable peer keeps ends, whatever the
   other peers answer or do not answer: if no more than DownloadTasks tasks have been
   aborted in the queue of the limiter.                                         *)
Downloaded ==
  (\E p \in Honest : <>[](Reachable(p) /\ Cardinality(In("lost")) <= DownloadTasks))
    => <>(result \notin {"queued", "running"})
=============================================================================
