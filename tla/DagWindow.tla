----------------------------- MODULE DagWindow -----------------------------
(* Which rounds the DAG holds, and what the mempool adapter is told about them:
   consensus/src/dag/front.rs, consensus/src/dag/commit/mod.rs,
   consensus/src/engine/{impl_,committer_task,consensus_config_ext,round_watch}.rs
   and collator/src/mempool/impls/std_impl/anchor_handler.rs.

   The engine keeps the newest rounds (DagFront) and hands them to the Committer,
   which holds a longer window (DagBack) and works in a blocking task most of the
   time.  While the task runs, the engine goes on without it.  When the window
   grows too long its bottom is reset; some first anchors after such a gap have an
   incomplete history, so the adapter is told where to start anew.

   A window is an interval of rounds.  Which rounds hold anchors, and when the
   Committer meets a conflict, depends on points and is left open.             *)
EXTENDS Integers, FiniteSets

CONSTANTS Genesis,       \* genesis_round
          History,       \* commit_history_rounds
          Dedup,         \* deduplicate_rounds
          Lag,           \* max_consensus_lag_rounds
          SyncSupport,   \* sync_support_rounds
          MaxRound       \* bound: highest round of the consensus

ASSUME ConfigAssumption ==
  /\ Genesis \in Nat \ {0} /\ MaxRound \in Nat /\ Genesis < MaxRound
  /\ History \in Nat /\ Dedup \in Nat /\ SyncSupport \in Nat
  /\ Lag \in Nat /\ Lag >= History                  \* MempoolConfigBuilder

VARIABLES front,                  \* DagFront: rounds lo..hi
          last_back_bottom,       \* DagFront
          has_pending_back_reset, \* DagFront
          committer,              \* Committer: rounds lo..hi, full history bottom, last anchor
          task,                   \* CommitterTask: who holds the committer
          task_start,             \* argument of the running task
          full_history_bottom,    \* local of Engine::run
          phase,                  \* "new", "loop" (top of the loop), "round"
          is_first,               \* the first round after pre_run
          ticked,                 \* the interval ticked during this round
          steady,                 \* so it did in every round of the engine that has ended
          consensus_round,        \* RoundWatch
          top_known_anchor,       \* RoundWatch, set by the collator
          first_after_gap,        \* AnchorHandler
          pushed,                 \* anchors of the last commit, as the adapter took them
          top_pushed,             \* last anchor in the cache of the adapter
          panicked                \* an assertion failed

dag     == <<front, last_back_bottom, has_pending_back_reset>>
adapter == <<first_after_gap, pushed, top_pushed>>
vars    == <<dag, committer, task, task_start, full_history_bottom, phase, is_first, ticked, steady,
             consensus_round, top_known_anchor, adapter, panicked>>

NoRound == 0

Larger(a, b)  == IF a > b THEN a ELSE b
Smaller(a, b) == IF a < b THEN a ELSE b
Minus(a, b)   == IF a > b THEN a - b ELSE 0        \* Round is u32, `-` saturates

MinFront == 3 + History
Replay   == History + Dedup + 2 + 2
Reset    == Lag + History + Dedup + 2 + 2
MaxTotal == Larger(SyncSupport, 2 + 2) + Lag + History + Dedup

NewCommitter(bottom, gap) ==
  [lo |-> bottom, hi |-> bottom, full |-> bottom + History, last |-> NoRound, after_gap |-> gap]
-----------------------------------------------------------------------------
\* The engine is created at genesis; Engine::new fills the DAG up to it.
Init == /\ front = [lo |-> Genesis - 1, hi |-> Genesis]
        /\ last_back_bottom = Genesis - 1 /\ has_pending_back_reset = FALSE
        /\ committer = [NewCommitter(Genesis - 1, FALSE) EXCEPT !.hi = Genesis]
        /\ task = "ready" /\ task_start = NoRound /\ full_history_bottom = NoRound
        /\ phase = "new" /\ is_first = TRUE /\ ticked = FALSE /\ steady = TRUE
        /\ consensus_round = Genesis /\ top_known_anchor = Genesis
        /\ first_after_gap = NoRound /\ pushed = {} /\ top_pushed = NoRound
        /\ panicked = FALSE

\* Mutant: the bottom of a committer that is going to be reset is taken.
BackBottomReset(lbb, pending, c, ready) == IF ready THEN c.lo ELSE lbb

\* DagFront::fill_to_top: the bottom of the committer, as far as it is known.
BackBottom(lbb, pending, c, ready) == IF ready /\ ~pending THEN c.lo ELSE lbb

\* Mutant: the window may grow by one round more.
UnrecoverableLate(back_bottom, new_top) == new_top > back_bottom + MaxTotal + 1

\* DagFront::fill_to_top: the window becomes too long to be synced.
Unrecoverable(back_bottom, new_top) == new_top > back_bottom + MaxTotal

\* DagFront::fill_to_top: bottom of the new window.
ResetBottom(new_top) == Larger(Genesis, Minus(new_top, Reset))

(* DagFront::fill_to_top as a function of the DAG, the committer and whether the
   latter is at hand: the new values and the full history bottom after a gap.  *)
FillToTop(f, lbb, pending, c, ready, new_top) ==
  LET lbb0   == BackBottom(lbb, pending, c, ready)
      gap    == Unrecoverable(lbb0, new_top)
      bottom == ResetBottom(new_top)
      lo     == IF gap THEN bottom ELSE f.lo
      hi     == Larger(IF gap THEN bottom ELSE f.hi, new_top)
      reset  == ready /\ (pending \/ gap)
      c1     == IF reset THEN NewCommitter(lo, TRUE) ELSE c
      lbb1   == IF gap THEN bottom ELSE lbb0
      keep   == IF ready THEN Larger(lo, Minus(new_top, MinFront)) ELSE lo
  IN  [front   |-> [lo |-> keep, hi |-> hi],
       lbb     |-> lbb1,
       pending |-> (pending \/ gap) /\ ~ready,
       c       |-> IF ready THEN [c1 EXCEPT !.hi = Larger(c1.hi, hi)] ELSE c,
       full    |-> IF reset THEN c1.full ELSE NoRound,
       ok      |-> /\ reset => lbb1 = c1.lo        \* init of the committer
                   /\ ready => c1.hi + 1 >= lo     \* no gap in extend_from_front
                   /\ keep <= hi]                  \* drain_upto leaves its bottom

(* Committer::drop_upto; the committer never becomes empty.                    *)
DropUpto(c, round) ==
  LET bottom == Smaller(round, c.hi)
  IN  [c EXCEPT !.lo = Larger(c.lo, bottom), !.full = bottom + History]

(* FillToTop applied to the state of the engine, and what is done with the new
   full history bottom: kept only if an earlier one was not yet taken.         *)
FillDag(new_top, keep_full) ==
  LET r == FillToTop(front, last_back_bottom, has_pending_back_reset, committer,
                     task \in {"ready", "finished"}, new_top)
  IN  /\ front' = r.front /\ last_back_bottom' = r.lbb /\ has_pending_back_reset' = r.pending
      /\ committer' = r.c
      /\ task' = IF task = "finished" THEN "ready" ELSE task
      /\ full_history_bottom' = IF keep_full /\ full_history_bottom = NoRound
                                  THEN r.full ELSE full_history_bottom
      /\ panicked' = (panicked \/ ~r.ok \/ r.front.lo + 2 > r.front.hi)   \* DagHead::new

(* Engine::pre_run: the DAG is placed around the last round in the database and
   the top known anchor; `own` is the last own point found in the three top
   rounds, if any.  It was made one round below a top within the pause bound.  *)
PreRun(last_db, own) ==
  /\ phase = "new" /\ phase' = "loop"
  /\ top_known_anchor >= Minus(last_db, Lag)
  /\ LET dag_top == Larger(Larger(last_db, top_known_anchor), Genesis + 1)
         r == FillToTop(front, last_back_bottom, FALSE, committer, TRUE, dag_top)
         c == DropUpto(r.c, Larger(Minus(top_known_anchor, Replay), Genesis))
         new_top == CASE own = NoRound -> dag_top
                      [] own = dag_top - 2 -> dag_top + 1
                      [] OTHER -> own + 1
         q == FillToTop(r.front, r.lbb, FALSE, c, TRUE, new_top)
     IN  /\ own # NoRound => /\ own \in Larger(Larger(c.lo, dag_top - 2), Genesis + 1)..last_db
                             /\ own < top_known_anchor + Lag
         /\ front' = q.front /\ last_back_bottom' = q.lbb /\ has_pending_back_reset' = q.pending
         /\ committer' = [q.c EXCEPT !.after_gap = FALSE]
         /\ consensus_round' = Larger(consensus_round, Larger(dag_top, new_top))
         /\ panicked' = ~(r.ok /\ q.ok)
  /\ UNCHANGED <<task, task_start, full_history_bottom, is_first, ticked, steady, top_known_anchor, adapter>>
-----------------------------------------------------------------------------
PauseAt     == top_known_anchor + Lag
OldDagTop   == IF is_first THEN front.hi - 1 ELSE front.hi
NextRound   == IF is_first THEN front.hi ELSE Larger(consensus_round, front.hi + 1)

(* Engine::run: a new round, no further than the collator's feedback allows.   *)
StartRound ==
  /\ phase = "loop" /\ OldDagTop < PauseAt
  /\ FillDag(Smaller(NextRound, PauseAt), TRUE)
  /\ phase' = "round" /\ is_first' = FALSE /\ ticked' = FALSE
  /\ UNCHANGED <<task_start, steady, consensus_round, top_known_anchor, adapter>>

(* CommitterTask::update_task; the argument is taken from the engine even if the
   committer is not at hand.                                                   *)
UpdateTask ==
  /\ IF task \in {"ready", "finished"}
       THEN /\ task' = IF committer.hi - committer.lo + 1 > MinFront THEN "dropping" ELSE "fallible"
            /\ task_start' = full_history_bottom
       ELSE UNCHANGED <<task, task_start>>
  /\ full_history_bottom' = NoRound
  /\ UNCHANGED <<dag, committer, is_first, steady, consensus_round, top_known_anchor, adapter, panicked>>

(* Engine::run: paused until the collator catches up, or for a timeout.        *)
Pause ==
  /\ phase = "loop" /\ OldDagTop >= PauseAt
  /\ UpdateTask
  /\ UNCHANGED <<phase, ticked>>

(* Engine::run: a tick of the interval while the round task runs.              *)
Tick ==
  /\ phase = "round"
  /\ UpdateTask
  /\ ticked' = TRUE
  /\ UNCHANGED phase

(* The round task ends with Collector::run and raises the consensus round.     *)
EndRound ==
  /\ phase = "round" /\ phase' = "loop"
  /\ steady' = (steady /\ ticked)
  /\ consensus_round' = Larger(consensus_round, front.hi)
  /\ UNCHANGED <<dag, committer, task, task_start, full_history_bottom, is_first, ticked,
                 top_known_anchor, adapter, panicked>>

(* BroadcastFilter learns of a later round.                                    *)
LearnRound(r) ==
  /\ consensus_round < r /\ consensus_round' = r
  /\ UNCHANGED <<dag, committer, task, task_start, full_history_bottom, phase, is_first, ticked, steady,
                 top_known_anchor, adapter, panicked>>

(* The collator reports its top known anchor.                                  *)
LearnAnchor(r) ==
  /\ top_known_anchor < r /\ top_known_anchor' = r
  /\ UNCHANGED <<dag, committer, task, task_start, full_history_bottom, phase, is_first, ticked, steady,
                 consensus_round, adapter, panicked>>
-----------------------------------------------------------------------------
(* A task without the right to drop rounds meets a history conflict and the
   engine fails; its restart is outside of this module.                        *)
FailOnConflict ==
  /\ task = "fallible" /\ task' = "failed" /\ phase' = "failed"
  /\ UNCHANGED <<dag, committer, task_start, full_history_bottom, is_first, ticked, steady,
                 consensus_round, top_known_anchor, adapter, panicked>>

\* Mutant: the new bottom is not announced.
DropOnConflictSilent(round) ==
  /\ task = "dropping" /\ round \in committer.lo..committer.hi - 1
  /\ committer' = [DropUpto(committer, round + 1) EXCEPT !.after_gap = TRUE]
  /\ UNCHANGED <<dag, task, task_start, full_history_bottom, phase, is_first, ticked, steady,
                 consensus_round, top_known_anchor, adapter, panicked>>

(* Inner::dropping: a conflict at `round` drops the window up to it and the new
   bottom replaces the one passed by the engine.                               *)
DropOnConflict(round) ==
  /\ task = "dropping" /\ round \in committer.lo..committer.hi - 1
  /\ committer' = [DropUpto(committer, round + 1) EXCEPT !.after_gap = TRUE]
  /\ task_start' = committer'.full
  /\ UNCHANGED <<dag, task, full_history_bottom, phase, is_first, ticked, steady, consensus_round,
                 top_known_anchor, adapter, panicked>>

\* AnchorHandler: what becomes of an anchor of committer c.
Handle(c, a, start, prev) == [id |-> a, executable |-> start = NoRound \/ a >= start,
                              full |-> c.full, after_gap |-> c.after_gap, prev |-> prev]

\* Mutant: is_used of the proofs is ignored.
NextAnchorsUsed(c) == c.lo + 1..c.hi - 3

\* Anchors a commit may yield: above the last one used, with proof and trigger below the top.
NextAnchors(c) == Larger(c.lo, c.last) + 1..c.hi - 3

(* Committer::commit finishes the task: the new start, if there is one, and the
   next anchor are sent to the adapter; the window is cut to its history.      *)
Commit(a) ==
  /\ task \in {"dropping", "fallible"} /\ task' = "finished"
  /\ a = NoRound \/ a \in NextAnchors(committer)
  /\ LET start == IF task_start = NoRound THEN first_after_gap ELSE task_start + Dedup
         prev  == IF task_start = NoRound THEN top_pushed ELSE NoRound      \* Cache::reset
         anchor == Handle(committer, a, start, prev)
     IN  /\ first_after_gap' = start
         /\ pushed' = IF a = NoRound THEN {} ELSE {anchor}
         /\ top_pushed' = IF a # NoRound /\ anchor.executable THEN a ELSE prev
  /\ committer' = IF a = NoRound THEN committer
                    ELSE [committer EXCEPT !.lo = Larger(@, Minus(a, History)), !.last = a]
  /\ UNCHANGED <<dag, task_start, full_history_bottom, phase, is_first, ticked, steady, consensus_round,
                 top_known_anchor, panicked>>

Rounds == 1..MaxRound

Next == \/ \E last_db \in Genesis..MaxRound, own \in {NoRound} \cup Rounds : PreRun(last_db, own)
        \/ StartRound \/ Pause \/ Tick \/ EndRound
        \/ \E r \in Rounds : LearnRound(r) \/ LearnAnchor(r)
        \/ FailOnConflict
        \/ \E round \in Rounds : DropOnConflict(round)
        \/ \E a \in {NoRound} \cup Rounds : Commit(a)

Spec == Init /\ [][Next]_vars
-----------------------------------------------------------------------------
(* The values the windows, the task and the adapter range over.                *)
TypeOK ==
  /\ front \in [lo : Nat, hi : Nat] /\ front.lo <= front.hi
  /\ last_back_bottom \in Nat /\ has_pending_back_reset \in BOOLEAN
  /\ committer \in [lo : Nat, hi : Nat, full : Nat, last : Nat, after_gap : BOOLEAN]
  /\ committer.lo <= committer.hi
  /\ task \in {"ready", "dropping", "fallible", "finished", "failed"}
  /\ task_start \in Nat /\ full_history_bottom \in Nat
  /\ phase \in {"new", "loop", "round", "failed"} /\ is_first \in BOOLEAN
  /\ ticked \in BOOLEAN /\ steady \in BOOLEAN
  /\ consensus_round \in Nat /\ top_known_anchor \in Nat
  /\ first_after_gap \in Nat /\ top_pushed \in Nat /\ panicked \in BOOLEAN

(* The slice passed to the committer leaves no gap, a reset committer starts at
   the bottom the front remembers, and the head of the DAG is in memory.       *)
NoPanic == ~panicked /\ (phase = "loop" /\ ~is_first => front.hi <= consensus_round)

(* "total len does not exceed MAX_TOTAL_ROUNDS": so does the window of the
   committer up to the top of the front that will extend it, and the front, which
   is not drained while the committer is busy, exceeds it at most by its own
   minimal length.                                                             *)
WindowBounded ==
  phase \in {"loop", "round"} =>
    /\ front.hi <= front.lo + MaxTotal + MinFront
    /\ ~has_pending_back_reset => front.hi <= committer.lo + MaxTotal

(* After an unrecoverable gap the anchors that can be executed again include the
   top known anchor, so that the collator is able to continue.                 *)
GapKeepsTopKnownAnchor ==
  full_history_bottom # NoRound => full_history_bottom + Dedup <= top_known_anchor

(* An anchor committed after a gap is executed only if its own history and that of
   the anchors it is deduplicated against are complete: NewStartAfterGap "tells the
   mempool adapter which anchors to skip".                                     *)
SkipsIncomplete ==
  \A x \in pushed : x.after_gap /\ x.executable => x.id >= x.full + Dedup

(* So it is as long as the interval of the engine ticks in every round, and each
   new bottom reaches the committer before the next gap.                       *)
SteadySkipsIncomplete == steady => SkipsIncomplete

(* The adapter's cache gets anchors in the order of their rounds; after a reset of
   the DAG, anchors come again only to a cache that was reset too.             *)
PushedInOrder == \A x \in pushed : x.executable => x.id > x.prev
=============================================================================
