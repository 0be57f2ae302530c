------------------------------ MODULE Collation ------------------------------
(* collator/src/manager/mod.rs with collator/mod.rs, state_node.rs and
   internal_queue/queue.rs: a node that collates the masterchain "M" and one
   shard "S" while it receives the blocks of the network, which may be its own or
   differ from them, and syncs to them when it falls behind.

   The network has one chain: master blocks 1, 2, .. with chain times NetCt, of
   which those in ShardAt include one new shard block.  A block of this node is
   ok when it is the block of the network with its seqno.  A handler of the
   manager holds ready_to_sync from its first to its last step and is one action,
   except that a sync lets the node receive blocks before its end.              *)
EXTENDS BlocksCache, CollationSync, Integers

CONSTANTS MaxMc,        \* the last master block of the network
          ShardAt,      \* master blocks that include a new shard block
          Unprocessed,  \* master blocks that leave messages for the next one
          KeyBlocks,    \* key blocks
          Reconfig,     \* master blocks that change the consensus config
          MinDelta,     \* min_mc_block_delta_from_bc_to_sync
          MaxUncommitted, \* max_uncommitted_chain_length
          MaxLag,       \* 2/3 of max_consensus_lag_rounds, in anchors
          MaxOdd        \* bound: wrong shard blocks, missing anchors, restarts

ASSUME CollationAssumption ==
  /\ MaxMc \in Nat \ {0} /\ MinDelta \in Nat \ {0}
  /\ \A X \in {ShardAt, Unprocessed, KeyBlocks, Reconfig} : X \subseteq 1 .. MaxMc

VARIABLES m,       \* the manager with its caches, the queue and the task queues
          ws,      \* DelayedWorkingState of each collator, << >> or <<state>>
          run,     \* the task a collator executes
          ev,      \* events of each collator on their way to the manager
          bc,      \* blocks on their way from the state to the manager
          odd      \* what went wrong so far

vars == <<m, ws, run, ev, bc, odd>>
-----------------------------------------------------------------------------
\* The chain of the network.
NetTop(n) == Cardinality({i \in ShardAt : i <= n})

NetCt[n \in 0 .. MaxMc] ==
  IF n = 0 THEN 0 ELSE NetCt[n - 1] + (IF n - 1 \in Unprocessed THEN 1 ELSE Interval + 1)

MaxCt == NetCt[MaxMc] + Interval + 1

McData(n) == [n |-> n, ok |-> TRUE, ct |-> NetCt[n], top |-> NetTop(n)]

Received(c, n) ==
  [own |-> FALSE, ok |-> TRUE, both |-> FALSE, status |-> "Synced", ref |-> n,
   top |-> NetTop(n), updated |-> n \in ShardAt]
-----------------------------------------------------------------------------
\* What the properties except is remembered.
See(x, when, what) == IF when THEN [x EXCEPT !.seen = @ \cup {what}] ELSE x

\* The diffs above the committed ones stay.
ClearNothing(x, top) == x

\* The queue of internal messages: of a diff only whose block it is of.
clear_uncommitted_state(x, top) ==
  LET cleared == IF x.pointers # {} THEN x.pointers ELSE IF top THEN Shards ELSE {}
      stays(c) == {k \in DOMAIN x.diff[c] : k <= x.committed[c]}
  IN  See([x EXCEPT !.diff = [c \in Shards |-> IF c \in cleared THEN Restrict(@[c], stays(c)) ELSE @[c]]],
          \E c \in Shards \ cleared : stays(c) # DOMAIN x.diff[c], "kept")

\* get_last_top_shards has none when the cache holds no master block.
ClearUncommitted(x) == clear_uncommitted_state(x, DOMAIN x.blocks["M"] # {})

apply_diff(x, c, k, ok, zone) ==
  LET D == DOMAIN x.diff[c]
      last == Max(D)
      checked == D # {} /\ (zone = "Both" \/ (zone = "Uncommitted" /\ last > x.committed[c]))
  IN  IF k \in D THEN Fail(x, x.diff[c][k] # ok, "diff differs")
      ELSE IF checked /\ k <= last THEN x
      ELSE Fail(Fail([x EXCEPT !.diff[c] = With(@, k, ok)], checked /\ k # last + 1, "diff is not next"),
                c \in x.pointers /\ k <= x.committed[c], "diff is committed")

commit_diff(x, n, e) ==
  LET S == e.top \in DOMAIN x.diff["S"]
  IN  IF "M" \in x.pointers /\ x.committed["M"] >= n THEN x
      ELSE IF n \notin DOMAIN x.diff["M"] \/ (e.updated /\ ~S) THEN Fail(x, TRUE, "diff not found")
      ELSE [x EXCEPT !.committed["M"] = n, !.committed["S"] = IF S THEN e.top ELSE @,
                     !.pointers = @ \cup {"M"} \cup (IF S THEN {"S"} ELSE {})]
-----------------------------------------------------------------------------
\* The states of the collators.
SetState(x, c, s) == IF x.st[c] = "none" THEN x ELSE [x EXCEPT !.st[c] = s]

\* A collator that waits is cancelled at its next event as well.
CancelLater(x, D) ==
  [x EXCEPT !.st = [c \in Shards |->
     IF c \notin D \/ x.st[c] \in {"none", "Cancelled"} THEN x.st[c] ELSE "CancelPending"]]

CancelIn(x, D) ==
  [x EXCEPT !.st = [c \in Shards |->
     IF c \notin D \/ x.st[c] = "none" THEN x.st[c]
     ELSE IF x.st[c] \in {"Waiting", "Cancelled"} THEN "Cancelled" ELSE "CancelPending"]]

HasActive(x) == \E c \in Shards : x.st[c] \in {"Active", "CancelPending"}

Enqueue(x, c, t) == [x EXCEPT !.task[c] = Append(@, t)]

Task(kind, data, reset, ct, top) == [kind |-> kind, data |-> data, reset |-> reset, ct |-> ct, top |-> top]

refresh_collation_sessions(x, data, reset) ==
  LET resume(y, c) ==
        [Enqueue(y, c, Task("resume", data, reset \/ y.st[c] = "none", 0, {})) EXCEPT !.st[c] = "Active"]
  IN  IF data.n < x.processed.n \/ [n |-> data.n, ok |-> data.ok] = x.processed THEN x
      ELSE resume(resume([x EXCEPT !.processed = [n |-> data.n, ok |-> data.ok]], "M"), "S")

enqueue_mc_block_collation(x, n, ct) ==
  Enqueue(x, "M", Task("do", McData(0), FALSE, ct,
    {[k |-> k, ok |-> x.blocks["S"][k].ok] : k \in get_top_shard_blocks_info_for_mc_block(x, n)}))

run_next_collation_step(x, c, mc, ct, force) ==
  LET d == detect_next_collation_step(x.sync, c, ct, force)
      y == [x EXCEPT !.sync = d.s]
      try(z, D) == [z EXCEPT !.st = [b \in Shards |-> IF b \in D THEN "Active" ELSE @[b]],
                             !.task = [b \in Shards |-> IF b \in D
                                THEN Append(@[b], Task("try", McData(0), FALSE, 0, {})) ELSE @[b]]]
  IN  CASE d.step = "CollateMaster" ->
             enqueue_mc_block_collation(
               SetState(IF c # "M" THEN SetState(y, c, "Waiting") ELSE y, "M", "Active"), mc.n + 1, d.ct)
        [] d.step = "WaitForMasterStatus" -> SetState(y, c, "Waiting")
        [] OTHER -> try(IF c \in d.list THEN y ELSE SetState(y, c, "Waiting"), d.list)
-----------------------------------------------------------------------------
(* get_top_mc_block_id_for_next_collation: the last block collated here or synced
   to, {} after the start.                                                      *)
TopForNext(x) == LET all == LastCollated(x) \cup {n \in {x.synced} : n > 0} IN IF all = {} THEN {} ELSE {Max(all)}

(* The blocks up to which the queue has all diffs, with fast_sync, which is the
   default.  Of a block that is neither in the cache nor applied to the state
   nothing is known, and all diffs are required.                                *)
Border(x) ==
  LET n == IF TopForNext(x) = {} THEN x.committed["M"] ELSE Max(TopForNext(x))
      M == x.blocks["M"]
  IN  IF n \in DOMAIN M THEN [M |-> n, S |-> M[n].top]
      ELSE IF n <= bc.applied THEN [M |-> n, S |-> NetTop(n)]
      ELSE [c \in Shards |-> 0]

\* first_required_diffs: the first diff of a shard need not follow the last one.
Zone(c, k, border) == IF k = border[c] + 1 THEN "None" ELSE "Both"

\* Diffs of the network that are read from the storage.
ApplyLoaded(x, c, D, border) ==
  FoldLeft(LAMBDA y, k : apply_diff(y, c, k, TRUE, Zone(c, k, border)), x, SetToSortSeq(D, <))

(* apply_block_queue_diff_from_entry_stuff: a diff that is there is taken for the
   diff of the block.                                                           *)
ApplyEntry(x, c, k, ok, border) ==
  IF k <= border[c] \/ k \in DOMAIN x.diff[c] THEN x
  ELSE apply_diff(x, c, k, ok, Zone(c, k, border))

PopAndApply(x, from, border) ==
  LET n == Min(AppliedFrom(x, from))
      r == pop_front_applied_mc_block_subgraph(x, from)
      y == ApplyEntry(r.m, "M", n, r.entry.ok, border)
      z == FoldLeft(LAMBDA a, k : ApplyEntry(a, "S", k, r.sc[k].ok, border), y, SetToSortSeq(r.shards, <))
  IN  set_gc_to_boundary(z, n, r.entry)

(* All received blocks are applied to the queue, the last one is committed and
   what is above it dropped.                                                    *)
restore_queue(x, from) ==
  LET all == AppliedFrom(x, from)
      last == Max(all)
      e == x.blocks["M"][last]
      border == Border(x)
      tail == {k \in DOMAIN x.blocks["S"] : k > border["S"] /\ k <= e.top}
      first == IF tail = {} THEN e.top + 1 ELSE Min(tail)
      loaded == ApplyLoaded(ApplyLoaded(x, "M", border["M"] + 1 .. from - 1, border),
                            "S", border["S"] + 1 .. first - 1, border)
      popped == FoldLeft(LAMBDA y, i : PopAndApply(y, from, border), loaded, SetToSortSeq(all, <))
  IN  Fail(ClearUncommitted(commit_diff(popped, last, e)), e.own, "no cached state")

(* sync_to_applied_mc_block up to the point where blocks that arrive have
   cancelled it or not.                                                         *)
StartSync(x) ==
  IF x.range = << >> THEN x
  ELSE IF AppliedFrom(x, x.range[1]) = {} THEN Fail(x, TRUE, "no applied block")
  ELSE LET n == Max(AppliedFrom(x, x.range[1]))
           y == restore_queue(x, x.range[1])
           s == reset_collation_sync_status(renew_mc_block_latest_chain_time(y.sync, NetCt[n]))
       IN  remove_next_collated_blocks_from_cache(
             See([y EXCEPT !.sync = s, !.synced = n,
                           !.active = <<[n |-> n, target |-> x.range[2], cancelled |-> FALSE]>>],
                 \E c \in Shards : s.times[c] # << >>, "stale"), n, NetTop(n))

FinishSync(x) ==
  LET a == x.active[1]
      y == IF a.cancelled THEN x ELSE refresh_collation_sessions(x, McData(a.n), TRUE)
  IN  gc_prev_blocks([y EXCEPT !.active = << >>])
-----------------------------------------------------------------------------
notify_to_mempool_and_process_delayed_mc_state_update(x, n, ok) ==
  LET due == {d \in x.delayed : d.n < n \/ (d.n = n /\ d.ok = ok)}
      equal == {d \in due : d.n = n}
      y == [x EXCEPT !.delayed = @ \ due]
  IN  IF equal = {} THEN y ELSE refresh_collation_sessions(y, CHOOSE d \in equal : TRUE, FALSE)

\* accept_block
Send(x, c, D, e) == [x EXCEPT !.accepted = @ \cup {[c |-> c, k |-> k, ok |-> e[k].ok] : k \in D}]

commit_valid_master_block(x, n, ok) ==
  LET y == notify_to_mempool_and_process_delayed_mc_state_update(x, n, ok)
      r == extract_mc_block_subgraph_for_sync(y, n)
      g == set_gc_to_boundary(r.m, n, r.entry)
      unsynced == {k \in r.shards : r.sc[k].own /\ ~r.sc[k].both}
      sent == IF Applied(r.entry) THEN g
              ELSE Send(Send(g, "M", IF r.entry.status = "Synced" THEN {} ELSE {n}, y.blocks["M"]), "S", unsynced, r.sc)
  IN  gc_prev_blocks(IF n \in DOMAIN y.blocks["M"] THEN commit_diff(sent, n, r.entry) ELSE y)
-----------------------------------------------------------------------------
\* Validation: one of a seqno at a time, another one fails at once.
Validate(x, n, ok) ==
  IF \E v \in x.val : v.n = n THEN x ELSE [x EXCEPT !.val = @ \cup {[n |-> n, ok |-> ok, cancelled |-> FALSE]}]

cancel_validation(x, n) ==
  [x EXCEPT !.val = {[v EXCEPT !.cancelled = @ \/ v.n <= n] : v \in @}]

\* The result goes to whatever block of that seqno the cache holds.
store_master_block_validation_result(x, v) ==
  LET status == IF v.cancelled THEN "Synced" ELSE "Validated"
      M == x.blocks["M"]
  IN  IF v.n \notin DOMAIN M \/ ~M[v.n].own \/ M[v.n].status = status THEN x
      ELSE [x EXCEPT !.blocks["M"][v.n].status = status, !.validated = @ \cup {[n |-> v.n, ok |-> v.ok]}]

ValidationEnds ==
  \E v \in m.val : \E late \in BOOLEAN :
    /\ v.ok \/ v.cancelled
    /\ late => v.ok /\ v.cancelled
    /\ m' = store_master_block_validation_result([m EXCEPT !.val = @ \ {v}],
              IF late THEN [v EXCEPT !.cancelled = FALSE] ELSE v)
    /\ UNCHANGED <<ws, run, ev, bc, odd>>

\* The rest of handle_validated_master_block, with the lock.
CommitValidated ==
  /\ m.active = << >>
  /\ \E v \in m.validated :
       m' = commit_valid_master_block([m EXCEPT !.validated = @ \ {v}], v.n, v.ok)
  /\ UNCHANGED <<ws, run, ev, bc, odd>>
-----------------------------------------------------------------------------
\* The events of the collators.
NextEvent(c) == m.active = << >> /\ ev[c] # << >> /\ ev' = [ev EXCEPT ![c] = Tail(@)]

Resolve(x, c) == IF x.st[c] = "CancelPending" THEN SetState(x, c, "Cancelled") ELSE x

handle_collation_skipped(c) ==
  LET e == Head(ev[c])
      x == Resolve(m, c)
  IN  /\ NextEvent(c) /\ e.kind = "skipped"
      /\ m' = IF x.st[c] = "Cancelled" THEN x ELSE run_next_collation_step(x, c, e.mc, e.ct, e.force)
      /\ UNCHANGED <<ws, run, bc, odd>>

handle_collation_cancelled(c) ==
  LET x == SetState(m, c, "Cancelled")
  IN  /\ NextEvent(c) /\ Head(ev[c]).kind = "cancelled"
      /\ m' = IF HasActive(x) THEN x ELSE StartSync(x)
      /\ UNCHANGED <<ws, run, bc, odd>>

NewerReceived(x) == x.range # << >> /\ x.recv > x.range[2] + 1

FarAhead(x) ==
  x.range # << >> /\ (LastCollated(x) = {} \/ x.range[2] >= Max(LastCollated(x)) + MinDelta)

SyncAfter(x, c) ==
  LET y == SetState(x, c, "Cancelled")
  IN  IF c = "M" THEN StartSync(x) ELSE IF HasActive(y) THEN y ELSE StartSync(y)

ProcessMaster(x, e, both) ==
  LET changed == e.k \in Reconfig
      y == IF changed THEN [x EXCEPT !.delayed = {e.data}] ELSE x
      z == IF both THEN commit_valid_master_block(y, e.k, e.ok) ELSE Validate(y, e.k, e.ok)
  IN  IF changed THEN z ELSE refresh_collation_sessions(z, e.data, FALSE)

handle_collated_block_candidate(c) ==
  LET e == Head(ev[c])
      x == Resolve(m, c)
      cancelled == x.st[c] = "Cancelled"
      entry == [own |-> TRUE, ok |-> e.ok, both |-> FALSE, status |-> "Collated",
                ref |-> e.mc.n + 1, top |-> e.data.top, updated |-> e.data.top # e.mc.top]
      r == IF cancelled THEN [m |-> ClearUncommitted(x), mismatch |-> FALSE, both |-> FALSE]
           ELSE store_collated(x, c, e.k, entry)
      y == IF ~r.mismatch THEN r.m
           ELSE ClearUncommitted(
                  SetState(IF c = "M" THEN CancelIn(r.m, Shards \ {c}) ELSE r.m, c, "Cancelled"))
      lost == cancelled \/ r.mismatch
  IN  /\ NextEvent(c) /\ e.kind = "candidate"
      /\ m' = IF ~NewerReceived(y) /\ (lost \/ FarAhead(y)) THEN SyncAfter(y, c)
              ELSE IF c = "M" THEN ProcessMaster(See(y, lost, "revived"), e, r.both)
              ELSE run_next_collation_step(See(y, lost, "revived"), c, e.mc, e.ct, "no")
      /\ UNCHANGED <<ws, run, bc, odd>>
-----------------------------------------------------------------------------
(* A block of the network is applied to the state of the node, its shard block
   first.  What this node has sent to sync itself does not come back.           *)
Sent(c, k) == \E a \in m.accepted : a.c = c /\ a.k = k

Incoming(n) ==
  (IF n \in ShardAt /\ ~Sent("S", NetTop(n)) THEN <<[c |-> "S", k |-> NetTop(n), n |-> n]>> ELSE << >>)
    \o (IF ~Sent("M", n) THEN <<[c |-> "M", k |-> n, n |-> n]>> ELSE << >>)

\* update_last_received_mc_block_seqno and finish_active_sync_to_applied
Announce(x, n) ==
  [x EXCEPT !.recv = n,
            !.active = IF @ # << >> /\ n >= @[1].target + MinDelta THEN <<[@[1] EXCEPT !.cancelled = TRUE]>> ELSE @]

Apply ==
  LET n == bc.applied + 1
  IN  /\ n <= MaxMc
      /\ bc' = [bc EXCEPT !.applied = n, !.inbox = @ \o Incoming(n)]
      /\ m' = IF ~Sent("M", n) THEN Announce(m, n)
              ELSE cancel_validation(m, n)
      /\ UNCHANGED <<ws, run, ev, odd>>

\* The master block of a batch that may be synced to: the search ends at the first.
TakeBatch ==
  LET masters == SelectSeq(bc.inbox, LAMBDA b : b.c = "M")
  IN  /\ bc.batch = << >> /\ bc.inbox # << >>
      /\ bc' = [bc EXCEPT !.batch = bc.inbox, !.inbox = << >>,
                          !.last = IF masters = << >> THEN 0 ELSE Head(masters).k]
      /\ UNCHANGED <<m, ws, run, ev, odd>>

RequiredDelta(x, n) == IF n \in KeyBlocks /\ x.st["M"] = "none" THEN 1 ELSE MinDelta

ShouldSync(x, n, last) ==
  /\ last = n \/ n \in KeyBlocks
  /\ ~NewerReceived(x)
  /\ TopForNext(x) # {} => x.range[2] >= Max(TopForNext(x)) + RequiredDelta(x, n)

CancelActive(x) ==
  [x EXCEPT !.notify = [c \in Shards |-> @[c] \/ x.st[c] \in {"Active", "CancelPending"}]]

HandleBlock(x, b, last) ==
  LET r == store_received(x, b.c, b.k, Received(b.c, b.n))
      y == IF ~r.mismatch THEN r.m
           ELSE ClearUncommitted(CancelIn(r.m, IF b.c = "M" THEN Shards ELSE {b.c}))
      z == cancel_validation(y, b.n)
      should == ShouldSync(z, b.n, last)
      kept == IF should THEN CancelActive(z) ELSE z
  IN  IF x.known[b.c] >= b.k THEN x
      ELSE IF b.c = "S" THEN y
      ELSE IF should /\ (TopForNext(z) = {} \/ ~HasActive(z)) THEN StartSync(z)
      ELSE IF r.both THEN commit_valid_master_block(kept, b.n, TRUE) ELSE kept

handle_block_from_bc ==
  /\ m.active = << >> /\ bc.batch # << >>
  /\ m' = HandleBlock(m, Head(bc.batch), bc.last)
  /\ bc' = [bc EXCEPT !.batch = Tail(@)]
  /\ UNCHANGED <<ws, run, ev, odd>>

EndSync ==
  /\ m.active # << >>
  /\ m' = FinishSync(m)
  /\ UNCHANGED <<ws, run, ev, bc, odd>>
-----------------------------------------------------------------------------
(* The collators.  A working state: the last master block known, the next seqno,
   whether the previous block is that of the network, its chain time, and the
   chain time of the last anchor imported.                                      *)
Phases == {"idle", "init", "import", "reach", "collate", "update"}

Idle == [phase |-> "idle", w |-> << >>, ct |-> 0, top |-> {}]

init_working_state(c, d) ==
  [mc |-> d, next |-> (IF c = "M" THEN d.n ELSE d.top) + 1, ok |-> d.ok, prevCt |-> d.ct, ct |-> d.ct]

Begin(c, phase, w) == run' = [run EXCEPT ![c] = [Idle EXCEPT !.phase = phase, !.w = w]]

\* The listener is told and the working state is kept or lost.
Report(c, e, state) ==
  /\ ev' = [ev EXCEPT ![c] = Append(@, e)]
  /\ ws' = [ws EXCEPT ![c] = state]
  /\ run' = [run EXCEPT ![c] = Idle]

Event(kind, w, ct, force) ==
  [kind |-> kind, mc |-> w.mc, k |-> w.next, ct |-> ct, force |-> force, ok |-> FALSE, data |-> w.mc]

Skipped(c, w, ct, force) == Report(c, Event("skipped", w, ct, force), <<w>>)

CancelledWith(c, w, state) == Report(c, Event("cancelled", w, w.ct, "no"), state)

MustForce(c, w) ==
  IF c = "M" THEN w.next - 1 \in Unprocessed ELSE w.next - 1 >= w.mc.top + MaxUncommitted

(* The start of try_collate_next_master_block_impl and
   try_collate_next_shard_block_impl, to the import of the next anchor.         *)
Try(c, w) ==
  IF ~MustForce(c, w) THEN Begin(c, "import", w) /\ ws' = [ws EXCEPT ![c] = << >>] /\ UNCHANGED ev
  ELSE IF c = "M" THEN Skipped(c, w, w.prevCt, "hard") ELSE Skipped(c, w, w.ct, "forced")

Popped(c) == [m EXCEPT !.task[c] = Tail(@)]

\* DelayedWorkingState::wait fails when there is none.
NoState(c) ==
  /\ m' = Fail(Popped(c), TRUE, "no working state")
  /\ UNCHANGED <<ws, run, ev>>

Updated(w, d) == IF w.mc.n < d.n THEN [w EXCEPT !.mc = d] ELSE w

TakeTask(c) ==
  LET t == Head(m.task[c])
  IN  /\ run[c].phase = "idle" /\ m.task[c] # << >>
      /\ IF t.kind = "resume" /\ t.reset
         THEN Begin(c, "init", init_working_state(c, t.data)) /\ m' = Popped(c)
              /\ ws' = [ws EXCEPT ![c] = << >>] /\ UNCHANGED ev
         ELSE IF ws[c] = << >> THEN NoState(c)
         ELSE /\ m' = Popped(c)
              /\ CASE t.kind = "resume" -> Try(c, Updated(ws[c][1], t.data))
                   [] t.kind = "try" -> Try(c, ws[c][1])
                   [] OTHER -> /\ run' = [run EXCEPT ![c] = [phase |-> "reach", w |-> ws[c][1],
                                                            ct |-> t.ct, top |-> t.top]]
                               /\ ws' = [ws EXCEPT ![c] = << >>] /\ UNCHANGED ev
      /\ UNCHANGED <<bc, odd>>

InPhase(c, p) == run[c].phase = p

Odd == odd < MaxOdd /\ odd' = odd + 1

InitAnchors(c) ==
  /\ InPhase(c, "init") /\ Try(c, run[c].w)
  /\ UNCHANGED <<m, bc, odd>>

\* The state that is being reset or collated on is dropped with the attempt.
StateKept(c) == IF run[c].phase \in {"import", "reach"} THEN <<run[c].w>> ELSE << >>

\* The mempool does not have the anchor.
NotFound(c) ==
  /\ run[c].phase \in {"init", "import"} /\ Odd
  /\ CancelledWith(c, run[c].w, StateKept(c))
  /\ UNCHANGED <<m, bc>>

\* The manager has cancelled the collation, now or in an earlier attempt.
Cancel(c) ==
  /\ run[c].phase \in Phases \ {"idle"} /\ m.notify[c]
  /\ InPhase(c, "reach") => run[c].w.ct < run[c].ct
  /\ CancelledWith(c, run[c].w, StateKept(c))
  /\ m' = [m EXCEPT !.notify[c] = FALSE]
  /\ UNCHANGED <<bc, odd>>

Lags(w) == w.ct > w.mc.ct + MaxLag

(* import_next_anchor and what follows it.  A shard block is collated when there
   are messages, which may be known before any anchor is imported.              *)
ImportNextAnchor(c) ==
  LET w == run[c].w
      v == [w EXCEPT !.ct = @ + 1]
  IN  /\ InPhase(c, "import")
      /\ \/ Lags(w) /\ Skipped(c, w, w.ct, "forced")
         \/ ~Lags(w) /\ w.ct < MaxCt /\ Skipped(c, v, v.ct, "no")
         \/ ~Lags(w) /\ w.ct < MaxCt /\ c = "S" /\ Begin(c, "collate", v) /\ UNCHANGED <<ws, ev>>
         \/ c = "S" /\ Begin(c, "collate", w) /\ UNCHANGED <<ws, ev>>
      /\ UNCHANGED <<m, bc, odd>>

(* wait_state_and_do_collate: import until the chain time of the block is reached.
   The anchors up to it are expected to exist and to be within the lag.         *)
ReachChainTime ==
  LET r == run["M"]
      short == r.w.ct < r.ct
      lags == short /\ r.ct > r.w.mc.ct + MaxLag + 1
  IN  /\ InPhase("M", "reach")
      /\ \/ short /\ Odd /\ m' = Fail(m, TRUE, "no anchor") /\ UNCHANGED run
         \/ /\ IF lags THEN m' = Fail(m, TRUE, "consensus lags") /\ UNCHANGED run
               ELSE /\ run' = [run EXCEPT !["M"] = [r EXCEPT !.phase = "collate", !.w.ct = IF short THEN r.ct ELSE @]]
                    /\ UNCHANGED m
            /\ UNCHANGED odd
      /\ UNCHANGED <<ws, ev, bc>>

MasterIsOk(w, top) ==
  /\ w.ok /\ w.next <= MaxMc /\ w.ct = NetCt[w.next]
  /\ \A t \in top : t.ok
  /\ top # {} <=> w.next \in ShardAt

ShardIsOk(w) == w.ok /\ w.mc.ok /\ w.next = NetTop(w.mc.n) + 1 /\ w.mc.n + 1 \in ShardAt

(* finalize_messages_reader: the diffs of the blocks of the other shard that the
   new block is the first to see.                                               *)
Missing(c) ==
  IF c = "M" THEN {t.k : t \in run[c].top} \ DOMAIN m.diff["S"]
  ELSE ({run[c].w.mc.n} \ {0}) \ DOMAIN m.diff["M"]

(* A cancellation that comes after the last check of do_collate is lost with the
   attempt, unless the attempt ends before it is seen.                          *)
Unnotified(x, c) == {x, [x EXCEPT !.notify[c] = FALSE]}

\* do_collate to finalize_messages_reader, which needs the diffs of the other shard.
Collate(c) ==
  /\ InPhase(c, "collate")
  /\ IF Missing(c) = {} THEN run' = [run EXCEPT ![c].phase = "update"] /\ UNCHANGED <<m, ws, ev>>
     ELSE CancelledWith(c, run[c].w, << >>) /\ m' \in Unnotified(m, c)
  /\ UNCHANGED <<bc, odd>>

(* update_queue_task: the diff goes to the queue, the candidate to the manager.
   The next working state is built from the block.                              *)
Candidate(c, ok) ==
  LET w == run[c].w
      top == IF run[c].top = {} THEN w.mc.top ELSE Max({t.k : t \in run[c].top})
      d == IF c = "M" THEN [n |-> w.next, ok |-> ok, ct |-> w.ct, top |-> top] ELSE w.mc
  IN  /\ Report(c, [Event("candidate", w, w.ct, "no") EXCEPT !.ok = ok, !.data = d],
                <<[mc |-> d, next |-> w.next + 1, ok |-> ok, prevCt |-> w.ct, ct |-> w.ct]>>)
      /\ m' \in Unnotified(apply_diff(m, c, w.next, ok, "Uncommitted"), c)

UpdateQueue(c) ==
  LET w == run[c].w
  IN  /\ InPhase(c, "update")
      /\ \/ Candidate(c, IF c = "M" THEN MasterIsOk(w, run[c].top) ELSE ShardIsOk(w)) /\ UNCHANGED odd
         \/ c = "S" /\ ShardIsOk(w) /\ Odd /\ Candidate(c, FALSE)
      /\ UNCHANGED bc
-----------------------------------------------------------------------------
(* The node starts from the last master block n that was applied to its state,
   and with what the queue has stored.                                          *)
Manager(n, diff, committed, pointers) ==
  [blocks |-> [c \in Shards |-> << >>], range |-> << >>, ids |-> {}, known |-> [c \in Shards |-> 0],
   gc |-> [c \in Shards |-> 0], panic |-> {}, seen |-> {}, sync |-> EmptySync,
   st |-> [c \in Shards |-> "none"], recv |-> n, synced |-> 0, processed |-> [n |-> 0, ok |-> TRUE],
   delayed |-> {}, task |-> [c \in Shards |-> << >>], notify |-> [c \in Shards |-> FALSE],
   diff |-> diff, committed |-> committed, pointers |-> pointers,
   val |-> {}, validated |-> {}, accepted |-> {}, active |-> << >>]

FromState(n) == [applied |-> n, inbox |-> <<[c |-> "M", k |-> n, n |-> n]>>, batch |-> << >>, last |-> 0]

Init ==
  /\ m = Manager(1, [c \in Shards |-> << >>], [c \in Shards |-> 0], {})
  /\ ws = [c \in Shards |-> << >>] /\ run = [c \in Shards |-> Idle] /\ ev = [c \in Shards |-> << >>]
  /\ bc = FromState(1)
  /\ odd = 0

(* A crash and the start after it.                                              *)
Restart ==
  /\ Odd
  /\ m' = LET x == Manager(bc.applied, m.diff, m.committed, m.pointers)
          IN  clear_uncommitted_state(See([x EXCEPT !.seen = m.seen], m.committed["M"] > bc.applied, "again"), TRUE)
  /\ ws' = [c \in Shards |-> << >>] /\ run' = [c \in Shards |-> Idle] /\ ev' = [c \in Shards |-> << >>]
  /\ bc' = FromState(bc.applied)

CollatorStep(c) ==
  TakeTask(c) \/ InitAnchors(c) \/ NotFound(c) \/ Cancel(c) \/ ImportNextAnchor(c) \/ Collate(c) \/ UpdateQueue(c)

ManagerStep(c) ==
  handle_collation_skipped(c) \/ handle_collation_cancelled(c) \/ handle_collated_block_candidate(c)

Next ==
  /\ m.panic = {}
  /\ \/ \E c \in Shards : CollatorStep(c) \/ ManagerStep(c)
     \/ ReachChainTime \/ ValidationEnds \/ CommitValidated
     \/ Restart \/ Apply \/ TakeBatch \/ handle_block_from_bc \/ EndSync

Spec == Init /\ [][Next]_vars
-----------------------------------------------------------------------------
Errors ==
  {"collated twice", "received twice", "diff differs", "diff is not next", "diff is committed",
   "diff not found", "no cached state", "no applied block", "no working state", "consensus lags",
   "no anchor"}

(* The state of the manager, of its caches and of the collators: among others, the
   range of applied blocks is not empty when there is one, and a block that was
   validated is of this node.                                                   *)
TypeOK ==
  /\ m.panic \subseteq Errors /\ m.seen \subseteq {"stale", "revived", "kept", "again"}
  /\ m.st \in [Shards -> {"none", "Active", "Waiting", "CancelPending", "Cancelled"}]
  /\ m.range = << >> \/ (1 <= m.range[1] /\ m.range[1] <= m.range[2] /\ m.range[2] <= MaxMc)
  /\ m.ids \subseteq 1 .. MaxMc + 1
  /\ m.known \in [Shards -> 0 .. MaxMc + 1] /\ m.gc \in [Shards -> 0 .. MaxMc + 1]
  /\ m.sync.status \in [Shards -> CollationStatuses] /\ m.sync.latest \in 0 .. MaxCt
  /\ m.pointers \subseteq Shards /\ m.recv \in 1 .. MaxMc /\ m.synced \in 0 .. MaxMc
  /\ \A c \in Shards :
       /\ \A k \in DOMAIN m.blocks[c] : m.blocks[c][k].status = "Validated" => m.blocks[c][k].own
       /\ DOMAIN m.diff[c] \subseteq Nat /\ m.committed[c] \in Nat
       /\ run[c].phase \in Phases /\ Len(ws[c]) <= 1
  /\ bc.applied \in 1 .. MaxMc /\ odd \in 0 .. MaxOdd
-----------------------------------------------------------------------------
(* What goes wrong in this code has four causes, each of which is seen when it
   happens: "stale", chain times above that of the block synced to survive the
   sync; "revived", a candidate that was cancelled or differs from the received
   block is processed like any other; "kept", the diffs of a shard without commit
   pointer survive the clearing of the uncommitted state; "again", a restart
   finds a block committed to the queue that was not applied to the state.      *)
Calm == m.seen \subseteq {"again"}

(* However collation, validation, receiving and syncing interleave with crashes,
   no step fails: no block is collated or received twice, no diff is out of order
   or missing at the commit, a collator finds its working state and the sync a
   received block to start from.  The block that is collated again after a crash
   between the commit and the save may differ and fail at its diff, and a master
   block whose chain time the mempool has no anchor for cannot be collated.     *)
NoPanic == Calm => m.panic \subseteq {"no anchor"} \cup (IF "again" \in m.seen THEN {"diff differs"} ELSE {})

(* What the node sends to sync as a valid block is the block of the network: the
   result of a validation is taken for the block of its seqno, which may have been
   replaced meanwhile.  A diff that is committed to the queue is that of the network
   as well, although the queue takes the diff of a wrong candidate before its block
   is compared with the received one, and takes a diff that is there for the right
   one.                                                                         *)
OnlyValidIsCommitted ==
  /\ \A a \in m.accepted : a.ok
  /\ Calm => \A c \in Shards : \A k \in DOMAIN m.diff[c] : k <= m.committed[c] => m.diff[c][k]

(* The blocks of applied_mc_queue_range are in the cache and were received, while
   commits, syncs, collected and mismatched blocks move both its ends.  Outside a
   sync, and unless an attempt has survived one, no block is in the cache that is
   older than what was collected.                                               *)
RangeIsCached ==
  /\ TypeOK
  /\ (m.active = << >> /\ "stale" \notin m.seen) =>
       \A c \in Shards : \A k \in DOMAIN m.blocks[c] : k >= m.gc[c]
  /\ m.range # << >> =>
       \A n \in m.range[1] .. m.range[2] : n \in DOMAIN m.blocks["M"] /\ Applied(m.blocks["M"][n])

Attempts(c) == Len(m.task[c]) + (IF InPhase(c, "idle") THEN 0 ELSE 1) + Len(ev[c])

(* "so we will have two parallel collations for shard that will cause panic
   further" (reset_collation_sync_status): the manager never lets a collator try
   twice at a time.                                                             *)
OneAttempt == \A c \in Shards : Attempts(c) <= 1

\* The same, when no chain times have survived a sync.
OneAttemptUnlessStale == "stale" \notin m.seen => OneAttempt

(* A sync waits until no collator is active or about to be cancelled.  A collator
   in such a state has an attempt, whose end will be reported: no sync waits for
   ever.  The master collator that waits for the delayed state update of its last
   block has none.                                                              *)
ActiveTries ==
  (m.active = << >> /\ m.panic = {} /\ "stale" \notin m.seen) =>
    \A c \in Shards : m.st[c] \in {"Active", "CancelPending"} =>
      (Attempts(c) > 0 \/ (c = "M" /\ m.delayed # {}))
=============================================================================
