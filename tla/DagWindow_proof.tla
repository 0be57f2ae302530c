-------------------------- MODULE DagWindow_proof --------------------------
(* Proofs about DagWindow, for every configuration the mempool accepts.

   The invariant follows the two windows through fill_to_top: what the front
   remembers of the committer (last_back_bottom) is a lower bound of the
   committer's bottom, or the bottom of the window the committer will get.     *)
EXTENDS DagWindow, TLAPS

CommitterType == [lo : Nat, hi : Nat, full : Nat, last : Nat, after_gap : BOOLEAN]
FrontType     == [lo : Nat, hi : Nat]

Idle == task \in {"ready", "finished"}

(* How the front f, what it remembers and the committer c fit together.        *)
Window(f, lbb, pending, c) ==
  /\ Genesis <= lbb + 1 /\ f.lo <= f.hi /\ c.lo <= c.hi /\ lbb <= f.lo + MinFront
  /\ pending => lbb = f.lo /\ Genesis <= lbb
  /\ ~pending => lbb <= c.lo /\ f.lo <= c.hi + 1 /\ c.hi <= f.hi

Windows == Window(front, last_back_bottom, has_pending_back_reset, committer)

(* Before pre_run nothing but the watched rounds changes.                      *)
Fresh ==
  phase = "new" =>
    /\ front = [lo |-> Genesis - 1, hi |-> Genesis]
    /\ last_back_bottom = Genesis - 1 /\ ~has_pending_back_reset
    /\ committer = [NewCommitter(Genesis - 1, FALSE) EXCEPT !.hi = Genesis]
    /\ task = "ready" /\ full_history_bottom = NoRound /\ is_first /\ top_pushed = NoRound

(* After it the head is in memory and the window is not too long.              *)
Placed == phase # "new" => front.lo + 2 <= front.hi /\ front.hi <= last_back_bottom + MaxTotal

(* A reset that waits for the committer will keep the top known anchor.        *)
PendingKeeps == has_pending_back_reset => last_back_bottom + History + Dedup <= top_known_anchor

(* The start to announce waits only for a committer that is at hand.           *)
Taken == full_history_bottom # NoRound => task = "ready"

(* Unless a start is about to be announced, the adapter's cache ends below the
   anchors that may come.                                                      *)
Behind ==
  \/ task = "failed"
  \/ Idle /\ full_history_bottom # NoRound
  \/ task \in {"dropping", "fallible"} /\ task_start # NoRound
  \/ top_pushed <= Larger(committer.lo, committer.last)

(* With a tick in every round, the engine never holds a start to announce when it
   begins the next round.                                                      *)
AtOnce == steady /\ full_history_bottom # NoRound => phase = "round" /\ ~ticked

(* With a tick in every round, the start the adapter will know of at the next
   commit is that of the committer's window.                                   *)
Announced ==
  steady /\ committer.after_gap /\ task # "failed" =>
    /\ committer.full # 0
    /\ IF Idle /\ full_history_bottom # NoRound THEN full_history_bottom >= committer.full
       ELSE IF task \in {"dropping", "fallible"} /\ task_start # NoRound
              THEN task_start >= committer.full
              ELSE first_after_gap >= committer.full + Dedup

IInv == /\ TypeOK /\ NoPanic /\ Windows /\ Fresh /\ Placed /\ PendingKeeps
        /\ GapKeepsTopKnownAnchor /\ Taken /\ Behind /\ PushedInOrder
        /\ AtOnce /\ Announced /\ SteadySkipsIncomplete
-----------------------------------------------------------------------------
LEMMA ConstantFacts ==
  /\ MinFront \in Nat /\ Replay \in Nat /\ Reset \in Nat /\ MaxTotal \in Nat
  /\ MinFront >= 3 /\ Reset = Lag + History + Dedup + 4 /\ MaxTotal >= Reset
BY ConfigAssumption DEF MinFront, Replay, Reset, MaxTotal, Larger

(* What fill_to_top makes of windows that fit together: they fit again, reach up to
   the new top, are not too long, and a new full history bottom is low enough for
   an anchor Lag rounds below the top.                                         *)
Filled(f, lbb, pending, c, ready, top, r) ==
  /\ r.front \in FrontType /\ r.lbb \in Nat /\ r.pending \in BOOLEAN
  /\ r.c \in CommitterType /\ r.full \in Nat /\ r.ok = TRUE
  /\ Window(r.front, r.lbb, r.pending, r.c)
  /\ r.front.hi = top /\ r.front.lo + 2 <= top /\ top <= r.lbb + MaxTotal
  /\ r.pending => ~ready /\ \/ pending /\ r.lbb = lbb
                            \/ r.lbb + History + Dedup + Lag <= top
  /\ r.full # 0 => \/ pending /\ r.full = lbb + History
                   \/ r.full + Dedup + Lag <= top
  /\ \/ /\ r.full = 0 /\ r.c.lo = c.lo /\ r.c.full = c.full
        /\ r.c.last = c.last /\ r.c.after_gap = c.after_gap
     \/ /\ r.full # 0 /\ ready /\ r.c.full = r.full
  /\ ~ready => r.c = c /\ r.full = 0

(* fill_to_top keeps the windows together, whether or not the committer is at hand. *)
LEMMA FillFacts ==
  ASSUME NEW f \in FrontType, NEW lbb \in Nat, NEW pending \in BOOLEAN,
         NEW c \in CommitterType, NEW ready \in BOOLEAN, NEW top \in Nat,
         Window(f, lbb, pending, c), f.hi <= top, f.lo + 2 <= top
  PROVE  Filled(f, lbb, pending, c, ready, top, FillToTop(f, lbb, pending, c, ready, top))
PROOF
  <1> DEFINE r      == FillToTop(f, lbb, pending, c, ready, top)
             lbb0   == BackBottom(lbb, pending, c, ready)
             gap    == Unrecoverable(lbb0, top)
             bottom == ResetBottom(top)
             lo     == IF gap THEN bottom ELSE f.lo
             hi     == Larger(IF gap THEN bottom ELSE f.hi, top)
             reset  == ready /\ (pending \/ gap)
             c1     == IF reset THEN NewCommitter(lo, TRUE) ELSE c
             lbb1   == IF gap THEN bottom ELSE lbb0
             keep   == IF ready THEN Larger(lo, Minus(top, MinFront)) ELSE lo
  <1> HIDE DEF r, lbb0, gap, bottom, lo, hi, reset, c1, lbb1, keep
  <1>f. f.lo \in Nat /\ f.hi \in Nat
    BY DEF FrontType
  <1>c. c.lo \in Nat /\ c.hi \in Nat /\ c.full \in Nat /\ c.last \in Nat /\ c.after_gap \in BOOLEAN
    BY DEF CommitterType
  <1>0. lbb0 \in Nat /\ Genesis <= lbb0 + 1 /\ (pending => lbb0 = lbb)
    BY <1>c, <1>f, ConfigAssumption DEF lbb0, BackBottom, Window
  <1>1. gap <=> top > lbb0 + MaxTotal
    BY DEF gap, Unrecoverable
  <1>2. gap => /\ bottom \in Nat /\ Genesis <= bottom /\ bottom + History + Dedup + Lag <= top
               /\ bottom + 4 <= top /\ top <= bottom + MaxTotal
    BY <1>0, <1>1, ConstantFacts, ConfigAssumption DEF bottom, ResetBottom, Larger, Minus
  <1>3. lo \in Nat /\ lo + 2 <= top /\ hi = top
    BY <1>f, <1>2 DEF Larger, lo, hi
  <1>4. keep \in Nat /\ lo <= keep /\ keep + 2 <= top /\ (ready => top <= keep + MinFront)
        /\ (~ready => keep = lo)
    <2>1. CASE ready
      BY <2>1, <1>3, ConstantFacts DEF keep, Larger, Minus
    <2>2. CASE ~ready
      BY <2>2, <1>3 DEF keep
    <2> QED BY <2>1, <2>2
  <1>5. lbb1 \in Nat /\ Genesis <= lbb1 + 1 /\ top <= lbb1 + MaxTotal /\ (gap => lbb1 = lo)
        /\ (~gap => lbb1 = lbb0)
    <2>1. CASE gap
      BY <2>1, <1>2, ConfigAssumption DEF lbb1, lo
    <2>2. CASE ~gap
      BY <2>2, <1>0, <1>1, ConstantFacts DEF lbb1
    <2> QED BY <2>1, <2>2
  <1>r. reset <=> ready /\ (pending \/ gap)
    BY DEF reset
  <1>l. ~gap => lo = f.lo
    BY DEF lo
  <1>n. reset => /\ c1 = [lo |-> lo, hi |-> lo, full |-> lo + History, last |-> 0, after_gap |-> TRUE]
                 /\ lbb1 = lo /\ 0 < lo
    <2>1. reset => c1 = [lo |-> lo, hi |-> lo, full |-> lo + History, last |-> 0, after_gap |-> TRUE]
      BY DEF c1, NewCommitter, NoRound
    <2>2. reset => lbb1 = lo /\ 0 < lo
      <3>1. CASE gap
        BY <3>1, <1>2, <1>5, ConfigAssumption DEF lbb1
      <3>2. CASE ~gap /\ reset
        BY <3>2, <1>r, <1>l, <1>0, <1>5, ConfigAssumption DEF Window
      <3> QED BY <3>1, <3>2
    <2> QED BY <2>1, <2>2
  <1>m. ~reset => c1 = c
    BY DEF c1
  <1>k. c1 \in CommitterType
    <2>1. CASE reset
      <3>1. lo + History \in Nat
        BY <1>3, ConfigAssumption
      <3>2. [lo |-> lo, hi |-> lo, full |-> lo + History, last |-> 0, after_gap |-> TRUE] \in CommitterType
        BY <3>1, <1>3 DEF CommitterType
      <3> QED BY <3>2, <2>1, <1>n, Zenon
    <2>2. CASE ~reset
      BY <2>2, <1>m
    <2> QED BY <2>1, <2>2
  <1>h. ready => c1.hi <= top /\ lo <= c1.hi + 1 /\ c1.lo <= top
    <2>1. CASE reset
      BY <2>1, <1>n, <1>3
    <2>2. CASE ready /\ ~reset
      BY <2>2, <1>m, <1>r, <1>l, <1>f, <1>c DEF Window
    <2> QED BY <2>1, <2>2, <1>r
  <1>6. /\ r.front = [lo |-> keep, hi |-> top] /\ r.lbb = lbb1
        /\ r.pending = ((pending \/ gap) /\ ~ready)
        /\ r.full = IF reset THEN c1.full ELSE 0
        /\ r.c = IF ready THEN [c1 EXCEPT !.hi = Larger(c1.hi, hi)] ELSE c
        /\ r.ok = (/\ reset => lbb1 = c1.lo
                   /\ ready => c1.hi + 1 >= lo
                   /\ keep <= hi)
    <2>1. r = [front   |-> [lo |-> keep, hi |-> hi],
               lbb     |-> lbb1,
               pending |-> (pending \/ gap) /\ ~ready,
               c       |-> IF ready THEN [c1 EXCEPT !.hi = Larger(c1.hi, hi)] ELSE c,
               full    |-> IF reset THEN c1.full ELSE NoRound,
               ok      |-> /\ reset => lbb1 = c1.lo
                           /\ ready => c1.hi + 1 >= lo
                           /\ keep <= hi]
      BY DEF r, FillToTop, lbb0, gap, bottom, lo, hi, reset, c1, lbb1, keep
    <2> QED BY <2>1, <1>3, Zenon DEF NoRound
  <1>9. r.ok = TRUE
    <2>1. reset => lbb1 = c1.lo
      BY <1>n
    <2>2. ready => c1.hi + 1 >= lo
      BY <1>h, <1>k, <1>3 DEF CommitterType
    <2>3. keep <= hi
      BY <1>4, <1>3
    <2> QED BY <1>6, <2>1, <2>2, <2>3, Zenon
  <1>10. ready => r.c = [lo |-> c1.lo, hi |-> top, full |-> c1.full, last |-> c1.last,
                         after_gap |-> c1.after_gap]
    <2>1. c1.hi \in Nat
      BY <1>k DEF CommitterType
    <2>2. ready => r.c = [c1 EXCEPT !.hi = top]
      BY <2>1, <1>6, <1>3, <1>h DEF Larger
    <2> QED BY <2>2, <1>k DEF CommitterType
  <1>17. ~ready => r.c = c /\ r.full = 0
    BY <1>6, <1>r
  <1>11. r.front \in FrontType /\ r.lbb \in Nat /\ r.pending \in BOOLEAN /\ r.c \in CommitterType
         /\ r.full \in Nat
    <2>1. r.front \in FrontType /\ r.lbb \in Nat
      BY <1>6, <1>4, <1>5 DEF FrontType
    <2>2. r.c \in CommitterType
      BY <1>17, <1>10, <1>k DEF CommitterType
    <2>3. r.full \in Nat
      BY <1>6, <1>k DEF CommitterType
    <2>4. r.pending \in BOOLEAN
      BY <1>6, Zenon
    <2> QED BY <2>1, <2>2, <2>3, <2>4
  <1>p. r.pending <=> (pending \/ gap) /\ ~ready
    BY <1>6, Zenon
  <1>12. Window(r.front, r.lbb, r.pending, r.c)
    <2>0. r.front.lo = keep /\ r.front.hi = top /\ r.lbb = lbb1
      BY <1>6
    <2>1. CASE reset
      <3>1. r.c.lo = lo /\ r.c.hi = top /\ ~r.pending
        BY <2>1, <1>10, <1>n, <1>p, <1>r
      <3> QED BY <2>0, <2>1, <3>1, <1>n, <1>3, <1>4, <1>5, ConstantFacts DEF Window
    <2>2. CASE ready /\ ~reset
      <3>1. r.c.lo = c.lo /\ r.c.hi = top /\ ~r.pending
        BY <2>2, <1>10, <1>m, <1>p
      <3>2. lbb1 = c.lo
        BY <2>2, <1>5, <1>r DEF lbb0, BackBottom
      <3>3. c.lo <= top
        BY <2>2, <1>h, <1>m
      <3> QED BY <2>0, <2>2, <3>1, <3>2, <3>3, <1>c, <1>4, <1>5, ConstantFacts DEF Window
    <2>3. CASE ~ready
      <3>1. r.c = c /\ keep = lo /\ lbb0 = lbb
        BY <2>3, <1>17, <1>4 DEF lbb0, BackBottom
      <3>2. CASE gap
        BY <2>0, <2>3, <3>1, <3>2, <1>p, <1>2, <1>3, <1>5, <1>c, ConstantFacts DEF Window, lo
      <3>3. CASE ~gap
        BY <2>0, <2>3, <3>1, <3>3, <1>p, <1>l, <1>3, <1>5, <1>f, <1>c, ConstantFacts DEF Window
      <3> QED BY <3>2, <3>3
    <2> QED BY <2>1, <2>2, <2>3, <1>r
  <1>13. r.front.hi = top /\ r.front.lo + 2 <= top /\ top <= r.lbb + MaxTotal
    BY <1>4, <1>5, <1>6
  <1>14. r.pending => ~ready /\ \/ pending /\ r.lbb = lbb
                                \/ r.lbb + History + Dedup + Lag <= top
    <2>1. CASE gap
      BY <2>1, <1>6, <1>p, <1>2, <1>5 DEF lo
    <2>2. CASE ~gap
      BY <2>2, <1>6, <1>p, <1>0, <1>5
    <2> QED BY <2>1, <2>2
  <1>15. r.full # 0 => \/ pending /\ r.full = lbb + History
                       \/ r.full + Dedup + Lag <= top
    <2>1. SUFFICES ASSUME reset PROVE \/ pending /\ c1.full = lbb + History
                                      \/ c1.full + Dedup + Lag <= top
      BY <1>6
    <2>2. CASE gap
      BY <2>1, <2>2, <1>n, <1>2, ConfigAssumption DEF lo
    <2>3. CASE ~gap
      BY <2>1, <2>3, <1>n, <1>0, <1>r, <1>5
    <2> QED BY <2>2, <2>3
  <1>16. \/ /\ r.full = 0 /\ r.c.lo = c.lo /\ r.c.full = c.full
            /\ r.c.last = c.last /\ r.c.after_gap = c.after_gap
         \/ /\ r.full # 0 /\ ready /\ r.c.full = r.full
    <2>1. CASE reset
      <3>1. r.full = c1.full /\ ready /\ c1.full # 0
        BY <2>1, <1>6, <1>r, <1>n, <1>3, ConfigAssumption
      <3> QED BY <3>1, <1>10
    <2>2. CASE ~reset
      BY <2>2, <1>6, <1>10, <1>17, <1>m
    <2> QED BY <2>1, <2>2
  <1> QED BY <1>9, <1>11, <1>12, <1>13, <1>14, <1>15, <1>16, <1>17 DEF r, Filled
-----------------------------------------------------------------------------
LEMMA InitInv == Init => IInv
PROOF
  <1> SUFFICES ASSUME Init PROVE IInv
    OBVIOUS
  <1>1. committer = [lo |-> Genesis - 1, hi |-> Genesis, full |-> Genesis - 1 + History,
                     last |-> 0, after_gap |-> FALSE]
    BY Zenon DEF Init, NewCommitter, NoRound
  <1>2. TypeOK
    <2>1. Genesis - 1 \in Nat /\ Genesis \in Nat /\ Genesis - 1 + History \in Nat
      BY ConfigAssumption
    <2>2. committer \in CommitterType /\ committer.lo <= committer.hi
      BY <1>1, <2>1 DEF CommitterType
    <2>3. front \in FrontType /\ front.lo <= front.hi
      BY <2>1 DEF Init, FrontType
    <2>4. /\ last_back_bottom \in Nat /\ has_pending_back_reset = FALSE /\ task = "ready"
          /\ task_start = 0 /\ full_history_bottom = 0 /\ phase = "new" /\ is_first = TRUE
          /\ ticked = FALSE /\ steady = TRUE /\ consensus_round \in Nat /\ top_known_anchor \in Nat
          /\ first_after_gap = 0 /\ top_pushed = 0 /\ panicked = FALSE
      BY <2>1, Zenon DEF Init, NoRound
    <2> QED BY <2>2, <2>3, <2>4, Zenon DEF TypeOK, CommitterType, FrontType
  <1>3. NoPanic /\ Fresh /\ Placed /\ PendingKeeps
    BY DEF Init, NoPanic, Fresh, Placed, PendingKeeps
  <1>4. Windows
    BY <1>1, ConstantFacts, ConfigAssumption DEF Init, Windows, Window, NewCommitter
  <1>5. GapKeepsTopKnownAnchor /\ Taken /\ PushedInOrder /\ AtOnce /\ SteadySkipsIncomplete
    BY DEF Init, GapKeepsTopKnownAnchor, Taken, PushedInOrder, AtOnce, SkipsIncomplete,
           SteadySkipsIncomplete
  <1>6. Announced
    BY <1>1 DEF Announced
  <1>7. Behind
    BY <1>1, ConfigAssumption DEF Init, Behind, Larger, NoRound, NewCommitter
  <1> QED BY <1>2, <1>3, <1>4, <1>5, <1>6, <1>7 DEF IInv

LEMMA StartRoundStep == IInv /\ StartRound => IInv'
PROOF
  <1> SUFFICES ASSUME IInv, StartRound PROVE IInv'
    OBVIOUS
  <1> DEFINE top   == Smaller(NextRound, PauseAt)
             ready == task \in {"ready", "finished"}
             r     == FillToTop(front, last_back_bottom, has_pending_back_reset, committer, ready, top)
  <1> HIDE DEF top, ready, r
  <1>0. /\ front \in FrontType /\ last_back_bottom \in Nat /\ has_pending_back_reset \in BOOLEAN
        /\ committer \in CommitterType /\ ready \in BOOLEAN
        /\ top_known_anchor \in Nat /\ consensus_round \in Nat
    BY DEF IInv, TypeOK, FrontType, CommitterType, ready
  <1>1. top \in Nat /\ front.hi <= top /\ front.lo + 2 <= top /\ top <= top_known_anchor + Lag
    <2>1. phase # "new"
      BY DEF StartRound
    <2> QED BY <2>1, <1>0, ConfigAssumption
         DEF StartRound, OldDagTop, NextRound, PauseAt, top, Smaller, Larger, IInv, Placed, FrontType
  <1>f. Filled(front, last_back_bottom, has_pending_back_reset, committer, ready, top, r)
    <2>1. Window(front, last_back_bottom, has_pending_back_reset, committer)
      BY DEF IInv, Windows
    <2> QED BY <1>0, <1>1, <2>1, FillFacts DEF r
  <1>2. /\ r.front \in FrontType /\ r.lbb \in Nat /\ r.pending \in BOOLEAN
        /\ r.c \in CommitterType /\ r.full \in Nat /\ r.ok = TRUE
        /\ Window(r.front, r.lbb, r.pending, r.c)
        /\ r.front.hi = top /\ r.front.lo + 2 <= top /\ top <= r.lbb + MaxTotal
    BY <1>f DEF Filled
  <1>g. /\ \/ /\ r.full = 0 /\ r.c.lo = committer.lo /\ r.c.full = committer.full
              /\ r.c.last = committer.last /\ r.c.after_gap = committer.after_gap
           \/ /\ r.full # 0 /\ ready /\ r.c.full = r.full
        /\ ~ready => r.full = 0
    BY <1>f, SMTT(30) DEF Filled
  <1>3. /\ front' = r.front /\ last_back_bottom' = r.lbb /\ has_pending_back_reset' = r.pending
        /\ committer' = r.c /\ task' = IF task = "finished" THEN "ready" ELSE task
        /\ full_history_bottom' = IF full_history_bottom = NoRound THEN r.full ELSE full_history_bottom
        /\ panicked' = (panicked \/ ~r.ok \/ r.front.lo + 2 > r.front.hi)
        /\ phase' = "round" /\ is_first' = FALSE /\ ticked' = FALSE /\ phase = "loop"
        /\ UNCHANGED <<task_start, consensus_round, top_known_anchor, first_after_gap, pushed, top_pushed,
                       steady>>
    BY DEF StartRound, FillDag, r, ready, top, adapter
  <1>4. panicked' = FALSE
    <2>1. ~(r.front.lo + 2 > r.front.hi)
      BY <1>2, <1>1 DEF FrontType
    <2> QED BY <2>1, <1>2, <1>3, Zenon DEF IInv, NoPanic
  <1>5. TypeOK'
    <2>1. r.front.lo <= r.front.hi /\ r.c.lo <= r.c.hi
      BY <1>2 DEF Window
    <2> QED BY <2>1, <1>2, <1>3, <1>4, Zenon DEF IInv, TypeOK, FrontType, CommitterType
  <1>6. NoPanic' /\ Fresh' /\ AtOnce'
    BY <1>3, <1>4 DEF NoPanic, Fresh, AtOnce
  <1>7. Windows' /\ Placed'
    BY <1>2, <1>3 DEF Windows, Placed
  <1>8. PendingKeeps' /\ GapKeepsTopKnownAnchor'
    <2>1. last_back_bottom \in Nat /\ full_history_bottom \in Nat
      BY DEF IInv, TypeOK
    <2> QED BY <2>1, <1>0, <1>1, <1>f, <1>3, ConfigAssumption
         DEF Filled, IInv, PendingKeeps, GapKeepsTopKnownAnchor, NoRound
  <1>9. Taken'
    BY <1>g, <1>3 DEF IInv, Taken, NoRound, ready
  <1>10. Behind'
    BY <1>g, <1>3 DEF IInv, Behind, Idle, NoRound, ready, Larger
  <1>11. PushedInOrder' /\ SteadySkipsIncomplete'
    BY <1>3 DEF IInv, PushedInOrder, SkipsIncomplete, SteadySkipsIncomplete
  <1>12. Announced'
    <2>1. SUFFICES ASSUME steady, r.c.after_gap PROVE Announced'
      BY <1>3 DEF Announced
    <2>2. full_history_bottom = NoRound
      BY <2>1, <1>3 DEF IInv, AtOnce
    <2>3. CASE r.full = 0
      BY <2>1, <2>2, <2>3, <1>g, <1>3, Zenon DEF IInv, Announced, Idle, NoRound, ready
    <2>4. CASE r.full # 0
      <3>1. task' = "ready" /\ full_history_bottom' = r.full /\ committer'.full = r.full /\ r.full \in Nat
        BY <2>2, <2>4, <1>2, <1>g, <1>3 DEF ready
      <3> QED BY <3>1, <2>4 DEF Announced, Idle, NoRound
    <2> QED BY <2>3, <2>4
  <1> QED BY <1>5, <1>6, <1>7, <1>8, <1>9, <1>10, <1>11, <1>12 DEF IInv

(* The steps of the engine that leave the DAG alone, and of its watched rounds. *)
LEMMA EngineStep ==
  ASSUME IInv, Pause \/ Tick \/ EndRound \/ FailOnConflict
               \/ (\E r \in Rounds : LearnRound(r) \/ LearnAnchor(r))
  PROVE  IInv'
PROOF
  <1> USE DEF IInv
  <1>1. UNCHANGED <<front, last_back_bottom, has_pending_back_reset, committer, first_after_gap, pushed,
                    top_pushed, panicked, is_first>>
    BY DEF Pause, Tick, UpdateTask, EndRound, FailOnConflict, LearnRound, LearnAnchor, dag, adapter
  <1>2. /\ consensus_round' \in Nat /\ consensus_round <= consensus_round'
        /\ top_known_anchor' \in Nat /\ top_known_anchor <= top_known_anchor'
    <2>1. consensus_round \in Nat /\ top_known_anchor \in Nat /\ front.hi \in Nat /\ Rounds \subseteq Nat
      BY ConfigAssumption DEF TypeOK, Rounds
    <2> QED BY <2>1 DEF Pause, Tick, UpdateTask, EndRound, FailOnConflict, LearnRound, LearnAnchor, Larger
  <1>s. steady' \in BOOLEAN /\ (steady' => steady)
    BY DEF Pause, Tick, UpdateTask, EndRound, FailOnConflict, LearnRound, LearnAnchor, TypeOK
  <1>3. \/ /\ UNCHANGED <<task, task_start, full_history_bottom>>
           /\ UNCHANGED <<phase, ticked>> \/ (phase' = "loop" /\ UNCHANGED ticked /\ (steady' => ticked)
                                               /\ phase = "round" /\ front.hi <= consensus_round')
        \/ /\ task \in {"ready", "finished"} /\ task' \in {"dropping", "fallible"}
           /\ task_start' = full_history_bottom /\ full_history_bottom' = 0 /\ UNCHANGED phase
           /\ ticked' \in BOOLEAN /\ phase # "new"
        \/ /\ task \notin {"ready", "finished"} /\ UNCHANGED <<task, task_start>>
           /\ full_history_bottom' = 0 /\ UNCHANGED phase /\ ticked' \in BOOLEAN /\ phase # "new"
        \/ /\ task = "fallible" /\ task' = "failed" /\ phase' = "failed"
           /\ UNCHANGED <<task_start, full_history_bottom, ticked>>
    <2>1. CASE Pause \/ Tick
      BY <2>1, Zenon DEF Pause, Tick, UpdateTask, NoRound, TypeOK
    <2>2. CASE EndRound
      BY <2>2 DEF EndRound, Larger, TypeOK
    <2>3. CASE FailOnConflict
      BY <2>3 DEF FailOnConflict
    <2>4. CASE \E r \in Rounds : LearnRound(r) \/ LearnAnchor(r)
      BY <2>4 DEF LearnRound, LearnAnchor
    <2> QED BY <2>1, <2>2, <2>3, <2>4
  <1>4. TypeOK'
    BY <1>1, <1>2, <1>3, <1>s DEF TypeOK
  <1>5. Windows'
    BY <1>1 DEF Windows
  <1>6. Fresh' /\ Placed'
    BY <1>1, <1>3, Zenon DEF Fresh, Placed, NoRound
  <1>7. NoPanic'
    BY <1>1, <1>2, <1>3 DEF NoPanic, TypeOK
  <1>8. PendingKeeps' /\ GapKeepsTopKnownAnchor'
    BY <1>1, <1>2, <1>3, ConfigAssumption DEF PendingKeeps, GapKeepsTopKnownAnchor, TypeOK, NoRound
  <1>9. Taken' /\ AtOnce'
    BY <1>3, <1>s DEF Taken, AtOnce, NoRound
  <1>10. Behind'
    BY <1>1, <1>3 DEF Behind, Taken, Idle, NoRound
  <1>11. Announced'
    BY <1>1, <1>3, <1>s DEF Announced, Taken, Idle, NoRound
  <1>12. PushedInOrder' /\ SteadySkipsIncomplete'
    BY <1>1, <1>s DEF PushedInOrder, SkipsIncomplete, SteadySkipsIncomplete
  <1> QED BY <1>4, <1>5, <1>6, <1>7, <1>8, <1>9, <1>10, <1>11, <1>12

(* drop_upto moves the bottom of the committer up, at most to its top.         *)
LEMMA DropFacts ==
  ASSUME NEW c \in CommitterType, NEW round \in Nat, c.lo <= c.hi
  PROVE  LET d == DropUpto(c, round)
         IN  /\ d \in CommitterType /\ c.lo <= d.lo /\ d.lo <= d.hi /\ d.hi = c.hi
             /\ d.last = c.last /\ d.after_gap = c.after_gap
             /\ d.full = Smaller(round, c.hi) + History
PROOF
  <1> DEFINE bottom == Smaller(round, c.hi)
             d      == DropUpto(c, round)
  <1>1. /\ bottom \in Nat /\ bottom <= c.hi /\ Larger(c.lo, bottom) \in Nat
        /\ Larger(c.lo, bottom) <= c.hi /\ c.lo <= Larger(c.lo, bottom)
    BY DEF CommitterType, Smaller, Larger
  <1>2. d = [lo |-> Larger(c.lo, bottom), hi |-> c.hi, full |-> bottom + History,
             last |-> c.last, after_gap |-> c.after_gap]
    <2>1. d = [c EXCEPT !.lo = Larger(c.lo, bottom), !.full = bottom + History]
      BY DEF DropUpto
    <2> HIDE DEF d, bottom
    <2> QED BY <2>1, Zenon DEF CommitterType
  <1> HIDE DEF bottom, d
  <1>3. bottom + History \in Nat
    BY <1>1, ConfigAssumption
  <1> QED BY <1>1, <1>2, <1>3 DEF CommitterType, bottom, d

LEMMA DropStep ==
  ASSUME IInv, NEW round \in Rounds, DropOnConflict(round)
  PROVE  IInv'
PROOF
  <1> DEFINE d == DropUpto(committer, round + 1)
  <1>0. committer \in CommitterType /\ committer.lo <= committer.hi /\ round + 1 \in Nat /\ round \in Nat
    BY ConfigAssumption DEF IInv, TypeOK, CommitterType, Rounds
  <1>1. /\ d \in CommitterType /\ committer.lo <= d.lo /\ d.lo <= d.hi /\ d.hi = committer.hi
        /\ d.last = committer.last /\ d.full = Smaller(round + 1, committer.hi) + History
    BY <1>0, DropFacts
  <1> HIDE DEF d
  <1>2. /\ committer' = [d EXCEPT !.after_gap = TRUE] /\ task_start' = committer'.full
        /\ task = "dropping" /\ round \in committer.lo..committer.hi - 1
        /\ UNCHANGED <<front, last_back_bottom, has_pending_back_reset, task, full_history_bottom, phase,
                       is_first, ticked, consensus_round, top_known_anchor, first_after_gap, pushed,
                       top_pushed, panicked, steady>>
    BY DEF DropOnConflict, dag, adapter, d
  <1>3. /\ committer' \in CommitterType /\ committer'.lo = d.lo /\ committer'.hi = committer.hi
        /\ committer'.full = d.full /\ committer'.last = committer.last
    BY <1>1, <1>2, Zenon DEF CommitterType
  <1>4. d.full \in Nat /\ d.full # 0
    <2>1. committer.hi \in Nat /\ committer.lo \in Nat
      BY <1>0 DEF CommitterType
    <2> QED BY <1>0, <1>1, <1>2, <2>1, ConfigAssumption DEF Smaller
  <1>5. TypeOK'
    BY <1>1, <1>2, <1>3, <1>4 DEF IInv, TypeOK, CommitterType
  <1>6. Windows'
    <2>1. committer.lo \in Nat /\ d.lo \in Nat /\ last_back_bottom \in Nat
      BY <1>0, <1>1 DEF CommitterType, IInv, TypeOK
    <2> QED BY <2>1, <1>1, <1>2, <1>3 DEF IInv, Windows, Window
  <1>7. NoPanic' /\ Fresh' /\ Placed' /\ PendingKeeps' /\ GapKeepsTopKnownAnchor' /\ Taken' /\ AtOnce'
    BY <1>2 DEF IInv, NoPanic, Fresh, Placed, PendingKeeps, GapKeepsTopKnownAnchor, Taken, AtOnce
  <1>8. Behind'
    BY <1>2, <1>3, <1>4 DEF Behind, NoRound
  <1>9. PushedInOrder' /\ SteadySkipsIncomplete'
    BY <1>2 DEF IInv, PushedInOrder, SkipsIncomplete, SteadySkipsIncomplete
  <1>10. Announced'
    BY <1>2, <1>3, <1>4 DEF Announced, Idle, NoRound
  <1> QED BY <1>5, <1>6, <1>7, <1>8, <1>9, <1>10 DEF IInv

LEMMA CommitStep ==
  ASSUME IInv, NEW a \in {NoRound} \cup Rounds, Commit(a)
  PROVE  IInv'
PROOF
  <1> DEFINE start  == IF task_start = NoRound THEN first_after_gap ELSE task_start + Dedup
             prev   == IF task_start = NoRound THEN top_pushed ELSE NoRound
             anchor == Handle(committer, a, start, prev)
  <1> HIDE DEF start, prev, anchor
  <1>0. /\ committer \in CommitterType /\ committer.lo <= committer.hi /\ a \in Nat
        /\ committer.lo \in Nat /\ committer.hi \in Nat /\ committer.last \in Nat /\ committer.full \in Nat
        /\ first_after_gap \in Nat /\ task_start \in Nat /\ top_pushed \in Nat
    BY ConfigAssumption DEF IInv, TypeOK, CommitterType, Rounds, NoRound
  <1>1. start \in Nat /\ prev \in Nat
    BY <1>0, ConfigAssumption DEF start, prev, NoRound
  <1>2. /\ first_after_gap' = start /\ pushed' = (IF a = NoRound THEN {} ELSE {anchor})
        /\ top_pushed' = (IF a # NoRound /\ anchor.executable THEN a ELSE prev)
        /\ task \in {"dropping", "fallible"} /\ task' = "finished"
        /\ committer' = IF a = NoRound THEN committer
                           ELSE [committer EXCEPT !.lo = Larger(@, Minus(a, History)), !.last = a]
        /\ UNCHANGED <<front, last_back_bottom, has_pending_back_reset, task_start, full_history_bottom,
                       phase, is_first, ticked, consensus_round, top_known_anchor, panicked, steady>>
    BY DEF Commit, dag, start, prev, anchor
  <1>3. a # 0 => Larger(committer.lo, committer.last) < a /\ a <= committer.hi - 3
    BY <1>0 DEF Commit, NextAnchors, NoRound, Larger
  <1>4. anchor = [id |-> a, executable |-> start = NoRound \/ a >= start, full |-> committer.full,
                  after_gap |-> committer.after_gap, prev |-> prev]
    BY DEF anchor, Handle
  <1>5. /\ committer' \in CommitterType /\ committer.lo <= committer'.lo /\ committer'.lo <= committer'.hi
        /\ committer'.hi = committer.hi /\ committer'.full = committer.full
        /\ committer'.after_gap = committer.after_gap
        /\ committer'.last = IF a = 0 THEN committer.last ELSE a
    <2>1. CASE a = 0
      BY <2>1, <1>0, <1>2 DEF NoRound
    <2>2. CASE a # 0
      <3> DEFINE lo == Larger(committer.lo, Minus(a, History))
      <3>1. lo \in Nat /\ committer.lo <= lo /\ lo <= committer.hi
        BY <2>2, <1>0, <1>3, ConfigAssumption DEF Larger, Minus
      <3>2. committer' = [committer EXCEPT !.lo = lo, !.last = a]
        BY <2>2, <1>2 DEF NoRound
      <3> HIDE DEF lo
      <3> QED BY <2>2, <3>1, <3>2, <1>0, Zenon DEF CommitterType
    <2> QED BY <2>1, <2>2
  <1>6. TypeOK'
    BY <1>0, <1>1, <1>2, <1>5 DEF IInv, TypeOK, CommitterType
  <1>7. Windows'
    <2>1. committer'.lo \in Nat /\ last_back_bottom \in Nat
      BY <1>5 DEF CommitterType, IInv, TypeOK
    <2> QED BY <2>1, <1>0, <1>2, <1>5 DEF IInv, Windows, Window
  <1>8. full_history_bottom = 0 /\ phase # "new"
    BY <1>2, Zenon DEF IInv, Taken, Fresh, NoRound
  <1>9. NoPanic' /\ Fresh' /\ Placed' /\ PendingKeeps' /\ GapKeepsTopKnownAnchor' /\ Taken' /\ AtOnce'
    BY <1>2, <1>8 DEF IInv, NoPanic, Fresh, Placed, PendingKeeps, GapKeepsTopKnownAnchor, Taken, AtOnce, NoRound
  <1>10. prev <= Larger(committer.lo, committer.last)
    BY <1>0, <1>2, <1>8 DEF IInv, Behind, Idle, NoRound, prev, Larger
  <1>11. Behind'
    <2>1. top_pushed' <= Larger(committer'.lo, committer'.last)
      <3>0. committer'.lo \in Nat /\ committer'.last \in Nat
        BY <1>5 DEF CommitterType
      <3>1. CASE a = 0
        <4>1. top_pushed' = prev /\ committer'.last = committer.last
          BY <3>1, <1>2, <1>5 DEF NoRound
        <4> QED BY <4>1, <3>0, <1>0, <1>1, <1>5, <1>10 DEF Larger
      <3>2. CASE a # 0
        <4>1. committer'.last = a /\ (top_pushed' = a \/ top_pushed' = prev)
          BY <3>2, <1>2, <1>5 DEF NoRound
        <4> QED BY <4>1, <3>0, <3>2, <1>0, <1>1, <1>3, <1>10 DEF Larger
      <3> QED BY <3>1, <3>2
    <2> QED BY <2>1 DEF Behind
  <1>12. PushedInOrder'
    <2>1. a # 0 => anchor.id > anchor.prev
      BY <1>0, <1>1, <1>3, <1>4, <1>10 DEF Larger
    <2> QED BY <2>1, <1>2 DEF PushedInOrder, NoRound
  <1>u. steady' = steady
    BY DEF Commit
  <1>13. steady /\ committer.after_gap => start >= committer.full + Dedup /\ committer.full # 0
    BY <1>0, <1>2, <1>8, ConfigAssumption DEF IInv, Announced, Idle, NoRound, start
  <1>14. SteadySkipsIncomplete'
    <2>0. SUFFICES ASSUME steady, NEW x \in pushed', x.after_gap /\ x.executable
                   PROVE  x.id >= x.full + Dedup
      BY <1>u DEF SkipsIncomplete, SteadySkipsIncomplete
    <2>x. x = anchor
      BY <1>2, Zenon
    <2>1. steady /\ anchor.after_gap /\ anchor.executable
      BY <2>0, <2>x, Zenon
    <2>2. a >= start \/ start = 0
      BY <2>1, <1>4, Zenon DEF NoRound
    <2>3. committer.after_gap
      BY <2>1, <1>4, Zenon
    <2> QED BY <2>1, <2>2, <2>3, <2>x, <1>0, <1>1, <1>4, <1>13, ConfigAssumption
  <1>15. Announced'
    BY <1>2, <1>5, <1>8, <1>13 DEF Announced, NoRound
  <1> QED BY <1>6, <1>7, <1>9, <1>11, <1>12, <1>14, <1>15 DEF IInv

(* pre_run calls fill_to_top twice, with a cut of the committer in between.    *)
LEMMA PreRunStep ==
  ASSUME IInv, NEW last_db \in Genesis..MaxRound, NEW own \in {NoRound} \cup Rounds,
         PreRun(last_db, own)
  PROVE  IInv'
PROOF
  <1> DEFINE dag_top == Larger(Larger(last_db, top_known_anchor), Genesis + 1)
             r       == FillToTop(front, last_back_bottom, FALSE, committer, TRUE, dag_top)
             cut     == Larger(Minus(top_known_anchor, Replay), Genesis)
             c       == DropUpto(r.c, cut)
             new_top == CASE own = NoRound -> dag_top
                          [] own = dag_top - 2 -> dag_top + 1
                          [] OTHER -> own + 1
             q       == FillToTop(r.front, r.lbb, FALSE, c, TRUE, new_top)
  <1> HIDE DEF dag_top, r, cut, c, new_top, q
  <1>1. /\ phase = "new" /\ phase' = "loop"
        /\ own # NoRound => own \in Larger(Larger(c.lo, dag_top - 2), Genesis + 1)..last_db
        /\ front' = q.front /\ last_back_bottom' = q.lbb /\ has_pending_back_reset' = q.pending
        /\ committer' = [q.c EXCEPT !.after_gap = FALSE]
        /\ consensus_round' = Larger(consensus_round, Larger(dag_top, new_top))
        /\ panicked' = ~(r.ok /\ q.ok)
        /\ UNCHANGED <<task, task_start, full_history_bottom, is_first, ticked, top_known_anchor,
                       first_after_gap, pushed, top_pushed, steady>>
    BY Zenon DEF PreRun, dag_top, r, cut, c, new_top, q, adapter
  <1>2. /\ front \in FrontType /\ last_back_bottom \in Nat /\ ~has_pending_back_reset
        /\ committer \in CommitterType /\ top_known_anchor \in Nat /\ consensus_round \in Nat
        /\ front.lo = Genesis - 1 /\ front.hi = Genesis /\ task = "ready"
        /\ full_history_bottom = 0 /\ is_first /\ top_pushed = 0
    BY <1>1 DEF IInv, TypeOK, Fresh, FrontType, CommitterType, NoRound
  <1>3. dag_top \in Nat /\ last_db <= dag_top /\ Genesis + 1 <= dag_top
    BY <1>2, ConfigAssumption DEF dag_top, Larger
  <1>4. Filled(front, last_back_bottom, FALSE, committer, TRUE, dag_top, r)
    <2>1. Window(front, last_back_bottom, FALSE, committer)
      BY <1>2 DEF IInv, Windows, TypeOK, Window
    <2>2. front.hi <= dag_top /\ front.lo + 2 <= dag_top
      BY <1>2, <1>3, ConfigAssumption
    <2> QED BY <1>2, <1>3, <2>1, <2>2, FillFacts, Zenon DEF r
  <1>5. /\ r.front \in FrontType /\ r.lbb \in Nat /\ ~r.pending /\ r.c \in CommitterType /\ r.ok = TRUE
        /\ Window(r.front, r.lbb, FALSE, r.c) /\ r.front.hi = dag_top /\ r.front.lo + 2 <= dag_top
    <2>1. r.pending = FALSE
      BY <1>4 DEF Filled
    <2> QED BY <2>1, <1>4, Zenon DEF Filled
  <1>6. c \in CommitterType /\ r.c.lo <= c.lo /\ c.lo <= c.hi /\ c.hi = r.c.hi
    <2>1. cut \in Nat
      BY <1>2, ConstantFacts, ConfigAssumption DEF cut, Larger, Minus
    <2>2. r.c.lo <= r.c.hi
      BY <1>5 DEF Window
    <2> QED BY <2>1, <2>2, <1>5, DropFacts, SMTT(30) DEF c
  <1>7. new_top \in Nat /\ dag_top <= new_top
    <2>1. CASE own = NoRound
      BY <2>1, <1>3 DEF new_top
    <2>2. CASE own # NoRound
      <3>1. c.lo \in Nat /\ own \in Nat
        BY <1>6, ConfigAssumption DEF CommitterType, Rounds, NoRound
      <3>2. dag_top - 2 <= own
        BY <2>2, <3>1, <1>1, <1>3, ConfigAssumption DEF Larger
      <3>3. new_top = IF own = dag_top - 2 THEN dag_top + 1 ELSE own + 1
        BY <2>2 DEF new_top
      <3> QED BY <3>1, <3>2, <3>3, <1>3
    <2> QED BY <2>1, <2>2
  <1>8. Filled(r.front, r.lbb, FALSE, c, TRUE, new_top, q)
    <2>1. Window(r.front, r.lbb, FALSE, c)
      BY <1>5, <1>6 DEF Window, CommitterType
    <2>2. r.front.hi <= new_top /\ r.front.lo + 2 <= new_top
      BY <1>3, <1>5, <1>7 DEF FrontType
    <2> QED BY <1>5, <1>6, <1>7, <2>1, <2>2, FillFacts, Zenon DEF q
  <1>9. /\ q.front \in FrontType /\ q.lbb \in Nat /\ q.pending = FALSE /\ q.c \in CommitterType
        /\ q.ok = TRUE /\ Window(q.front, q.lbb, q.pending, q.c)
        /\ q.front.hi = new_top /\ q.front.lo + 2 <= new_top /\ new_top <= q.lbb + MaxTotal
    BY <1>8 DEF Filled
  <1>10. /\ committer' \in CommitterType /\ committer'.lo = q.c.lo /\ committer'.hi = q.c.hi
         /\ committer'.after_gap = FALSE
    BY <1>1, <1>9, Zenon DEF CommitterType
  <1>11. panicked' = FALSE
    BY <1>1, <1>5, <1>9, Zenon
  <1>12. TypeOK'
    <2>1. q.front.lo <= q.front.hi /\ q.c.lo <= q.c.hi
      BY <1>9 DEF Window
    <2>2. consensus_round' \in Nat
      BY <1>1, <1>2, <1>3, <1>7 DEF Larger
    <2> QED BY <2>1, <2>2, <1>1, <1>9, <1>10, <1>11, Zenon DEF IInv, TypeOK, FrontType, CommitterType
  <1>13. Windows' /\ Placed'
    BY <1>1, <1>9, <1>10 DEF Windows, Window, Placed
  <1>14. NoPanic' /\ Fresh' /\ PendingKeeps' /\ GapKeepsTopKnownAnchor' /\ Taken' /\ AtOnce'
    BY <1>1, <1>2, <1>9, <1>11
    DEF NoPanic, Fresh, PendingKeeps, GapKeepsTopKnownAnchor, Taken, AtOnce, NoRound
  <1>15. Behind' /\ Announced'
    BY <1>1, <1>2, <1>10 DEF Behind, Announced, Larger, CommitterType
  <1>16. PushedInOrder' /\ SteadySkipsIncomplete'
    BY <1>1 DEF IInv, PushedInOrder, SkipsIncomplete, SteadySkipsIncomplete
  <1> QED BY <1>12, <1>13, <1>14, <1>15, <1>16 DEF IInv
-----------------------------------------------------------------------------
(* Every step of the engine, its committer task, the consensus and the collator
   keeps the invariant.                                                        *)
THEOREM Invariance == Spec => []IInv
PROOF
  <1>1. IInv /\ [Next]_vars => IInv'
    <2> SUFFICES ASSUME IInv, [Next]_vars PROVE IInv'
      OBVIOUS
    <2>1. CASE Next
      <3>1. CASE \E last_db \in Genesis..MaxRound, own \in {NoRound} \cup Rounds : PreRun(last_db, own)
        BY <3>1, PreRunStep
      <3>2. CASE StartRound
        BY <3>2, StartRoundStep
      <3>3. CASE Pause \/ Tick \/ EndRound \/ FailOnConflict
                 \/ (\E r \in Rounds : LearnRound(r) \/ LearnAnchor(r))
        BY <3>3, EngineStep
      <3>4. CASE \E round \in Rounds : DropOnConflict(round)
        BY <3>4, DropStep
      <3>5. CASE \E a \in {NoRound} \cup Rounds : Commit(a)
        BY <3>5, CommitStep
      <3> QED BY <2>1, <3>1, <3>2, <3>3, <3>4, <3>5 DEF Next
    <2>2. CASE UNCHANGED vars
      <3>1. UNCHANGED <<front, last_back_bottom, has_pending_back_reset, committer, task, task_start,
                        full_history_bottom, phase, is_first, ticked, consensus_round, top_known_anchor,
                        first_after_gap, pushed, top_pushed, panicked, steady>>
        BY <2>2 DEF vars, dag, adapter
      <3>2. TypeOK'
        BY <3>1, Zenon DEF IInv, TypeOK
      <3>5. NoPanic' /\ Windows' /\ Fresh' /\ Placed' /\ PendingKeeps'
        BY <3>1, Zenon DEF IInv, NoPanic, Windows, Fresh, Placed, PendingKeeps
      <3>3. GapKeepsTopKnownAnchor' /\ Taken' /\ AtOnce' /\ Behind' /\ Announced'
        BY <3>1 DEF IInv, GapKeepsTopKnownAnchor, Taken, AtOnce, Behind, Announced, Idle
      <3>4. PushedInOrder' /\ SteadySkipsIncomplete'
        BY <3>1 DEF IInv, PushedInOrder, SkipsIncomplete, SteadySkipsIncomplete
      <3> QED BY <3>2, <3>3, <3>4, <3>5 DEF IInv
    <2> QED BY <2>1, <2>2
  <1> QED BY InitInv, <1>1, PTL DEF Spec

(* The windows are never empty and rounds never leave their range.             *)
THEOREM TypeCorrect == Spec => []TypeOK
BY Invariance, PTL DEF IInv

(* No assertion of fill_to_top, of the head or of the engine's loop fails.      *)
THEOREM NeverPanics == Spec => []NoPanic
BY Invariance, PTL DEF IInv

(* Both windows stay within the configured total, whatever the order of rounds,
   commits and conflicts.                                                      *)
THEOREM StaysBounded == Spec => []WindowBounded
PROOF
  <1>1. IInv => WindowBounded
    BY ConstantFacts, ConfigAssumption
    DEF IInv, TypeOK, Windows, Window, Placed, WindowBounded
  <1> QED BY <1>1, Invariance, PTL

(* An unrecoverable gap never takes away the anchor the collator stands at.     *)
THEOREM KeepsTopKnownAnchor == Spec => []GapKeepsTopKnownAnchor
BY Invariance, PTL DEF IInv

(* The adapter's cache is filled in the order of rounds.                        *)
THEOREM CacheInOrder == Spec => []PushedInOrder
BY Invariance, PTL DEF IInv

(* If the committer's interval ticks in every round of the engine, anchors with an
   incomplete history are never executed.                                      *)
THEOREM TicksSkipIncomplete == Spec => []SteadySkipsIncomplete
PROOF
  <1>1. IInv => SteadySkipsIncomplete
    BY DEF IInv
  <1> QED BY <1>1, Invariance, PTL
=============================================================================
