---------------------------- MODULE CollationSync ----------------------------
(* collator/src/manager/mod.rs, types.rs: the CollationSyncState, in which the
   collation manager matches the chain times that the collators of the
   masterchain "M" and of a shard "S" have reached and decides when the next
   master block is due.

   s is the record [latest, hard, times, status]: mc_block_latest_chain_time,
   mc_collation_forced_for_all and, for each collator,
   last_imported_chain_times as a sequence of [ct, forced] and the
   CollationStatus.  mc_collation_forced of a shard is only written.            *)
EXTENDS Naturals, Sequences, SequencesExt, FiniteSets, FiniteSetsExt

CONSTANT Interval          \* mc_block_min_interval_ms, in steps of anchors
ASSUME IntervalAssumption == Interval \in Nat

Shards == {"M", "S"}

CollationStatuses == {"AttemptsInProgress", "WaitForMasterStatus"}

EmptySync ==
  [latest |-> 0, hard |-> FALSE, times |-> [c \in Shards |-> << >>],
   status |-> [c \in Shards |-> "AttemptsInProgress"]]

\* ForceMasterCollation: hard is ByUprocessedMessages, forced the other causes.
Forces == {"no", "forced", "hard"}

(* The chain times up to that of the new block are pruned, those above it, which
   were imported for a block that is now out of date, stay.                     *)
renew_mc_block_latest_chain_time(s, ct) ==
  [s EXCEPT !.latest = IF @ < ct THEN ct ELSE @,
            !.times = [c \in Shards |-> SelectSeq(s.times[c], LAMBDA t : t.ct > ct)]]

\* The shard keeps waiting for a master status that will come with the resume.
KeepWaiting(s) == s

reset_collation_sync_status(s) ==
  [s EXCEPT !.status = [c \in Shards |->
      IF s.status[c] = "WaitForMasterStatus" THEN "AttemptsInProgress" ELSE s.status[c]]]

Exceeds(s, ct) == ct > s.latest + Interval

Due(s, t) == t.forced \/ Exceeds(s, t.ct)

(* The first chain time of a collator that is due, or just the first one when the
   master is forced for all.                                                    *)
FirstTimes(s, c) ==
  LET due == SelectSeq(s.times[c], LAMBDA t : Due(s, t))
  IN  IF due # << >> THEN {Head(due).ct}
      ELSE IF s.hard /\ s.times[c] # << >> THEN {Head(s.times[c]).ct} ELSE {}

EveryShardDue(s) == \A c \in Shards : FirstTimes(s, c) # {}

(* Collator c has reached chain time ct.  The result is the next state and the
   step: collate the master with chain time ct, wait, or resume the collators in
   list.                                                                        *)
detect_next_collation_step(s0, c, ct, force) ==
  LET mcExists == c = "M" \/ s0.times["M"] # << >>
      s == [s0 EXCEPT !.hard = @ \/ (c = "M" /\ force = "hard"),
                      !.times[c] = Append(@, [ct |-> ct, forced |-> force # "no"])]
      byCurrent == s.hard \/ force # "no" \/ Exceeds(s, ct)
      waiting == IF c = "M" THEN {d \in Shards \ {"M"} : s.status[d] = "WaitForMasterStatus"} ELSE {}
      resume == waiting \cup (IF byCurrent THEN {} ELSE {c})
  IN  IF byCurrent /\ EveryShardDue(s)
      THEN LET next == Max(UNION {FirstTimes(s, d) : d \in Shards})
           IN  [step |-> "CollateMaster", list |-> {}, ct |-> next,
                s |-> renew_mc_block_latest_chain_time(
                        [s EXCEPT !.hard = FALSE,
                                  !.status = [d \in Shards |-> "AttemptsInProgress"]], next)]
      ELSE IF ~byCurrent /\ ~mcExists
      THEN [step |-> "WaitForMasterStatus", list |-> {}, ct |-> ct,
            s |-> [s EXCEPT !.status[c] = "WaitForMasterStatus"]]
      ELSE [step |-> "ResumeAttemptsIn", list |-> resume, ct |-> ct,
            s |-> [s EXCEPT !.status = [d \in Shards |->
                     IF d \in resume THEN "AttemptsInProgress" ELSE s.status[d]]]]
=============================================================================
