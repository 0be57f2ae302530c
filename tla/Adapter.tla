------------------------------ MODULE Adapter ------------------------------
(* How anchors get from the mempool to a collator of the same node:
   collator/src/mempool/impls/std_impl.rs and std_impl/anchor_handler.rs with the
   Cache and the Parser, starts and restarts of the engine
   (consensus/src/engine/lifecycle/{session,recover}.rs, Engine::pre_run,
   CommitterTask), and the imports of collator/src/collator/mod.rs.

   An anchor is a round.  All nodes commit the same anchors with the same payload,
   except for the first ones after a start, whose history is incomplete.  The
   engine sends anchors to the AnchorHandler through a channel; as they are handled
   in the same order, sending and handling are one step.  A block tells up to which
   anchor all shards have processed externals (top), from which anchor the shard of
   the collator goes on (from) and which one it has imported last (last); the offset
   inside an anchor is left out.  There is one genesis.                         *)
EXTENDS Deduplicator, AnchorCache

CONSTANTS Payloads,  \* the chains considered: payload (bytes) of each anchor
          History,   \* commit_history_rounds
          Skipped,   \* 2 + 2: bottommost rounds whose points are not committed
          Lag,       \* max_consensus_lag_rounds
          Behind,    \* rounds between an anchor and the top of the DAG
          MaxAnchor, \* bound: last anchor
          Spread,    \* bound: anchors between those a block tells of
          MaxOdd     \* bound: restarts, gaps and conflicts

ASSUME AnchorAssumption == /\ MaxAnchor \in Nat /\ Spread \in Nat
                           /\ Payloads \subseteq [1 .. MaxAnchor -> SUBSET DOMAIN Decode]
\* What the pause of the mempool needs so that collators do not wait for it.
ASSUME LagAssumption == /\ Dedup \in Nat \ {0} /\ History \in Nat /\ Skipped \in Nat
                        /\ Lag \in Nat /\ Behind \in Nat /\ (2 * Lag) \div 3 + 1 + Behind <= Lag

VARIABLES content, \* payload of each anchor with its full history
          run,     \* the engine: next anchor, the first with a complete history, bottom of DagBack
          handler, \* AnchorHandler: parser, first_after_gap (0: none), last anchor handled
          cache,   \* Cache
          top,     \* top_known_anchor
          clearing, \* whether the cache is still to be cleared up to it
          applied, \* the last block of the master chain that is applied
          own,     \* the next one, collated by this node and not accepted yet
          col,     \* the collator
          seen,    \* causes for which properties do not hold
          odd

vars == <<content, run, handler, cache, top, clearing, applied, own, col, seen, odd>>

known == <<top, clearing>>

Anchors == 1 .. MaxAnchor

Larger(a, b) == IF a > b THEN a ELSE b

(* ConsensusConfigExt::replay_anchor_rounds, Engine::pre_run: a run starts so far
   below the top known anchor, but not below genesis.                           *)
Replay == History + Dedup + Skipped
StartBottom(t) == IF t > Replay THEN t - Replay ELSE 0

\* A run from its bottom; its first anchors may be invalid, then they are not committed.
RunsFrom(bottom) ==
  IF bottom = 0 THEN {[next |-> 1, complete |-> 1, bottom |-> 0]}
  ELSE {[next |-> n, complete |-> bottom + History + Skipped, bottom |-> bottom] :
          n \in bottom + 1 .. bottom + Skipped + 1}

\* Engine::new, before pre_run.
NotRunning == [next |-> 0, complete |-> 0, bottom |-> 0]

\* Shuttle, as of AnchorHandler::run.
NewHandler == [parser |-> NewParser, first |-> 0, last |-> 0, panic |-> FALSE]

(* The collator: what it awaits (query of arg, subscribed to a notification), top of
   its mc_data, its AnchorsCache (mine, last imported) and the anchor it processes
   externals from, and the anchor it imports up to in import_init_anchors.      *)
NewCollator == [pc |-> "off", query |-> "none", arg |-> 0, woken |-> FALSE,
                top |-> 0, from |-> 1, last |-> 0, goal |-> 0, mine |-> {}, error |-> "none"]

Init == /\ content \in Payloads
        /\ run = NotRunning /\ handler = NewHandler
        /\ cache = EmptyMap /\ top = 0 /\ clearing = FALSE
        /\ applied = [top |-> 0, from |-> 0, last |-> 0] /\ own = applied
        /\ col = NewCollator /\ seen = {} /\ odd = 0

\* No query is awaited any more.
Done(c, pc) == [c EXCEPT !.pc = pc, !.query = "none", !.arg = 0, !.woken = FALSE, !.goal = 0]

\* Mutant: only who already waits is woken.
NotifiedWaiting(c) == [c EXCEPT !.woken = c.woken \/ c.pc = "wait"]

\* Notify::notify_waiters: wakes who has subscribed.
Notified(c) == [c EXCEPT !.woken = c.woken \/ c.pc \in {"check", "read", "wait"}]
-----------------------------------------------------------------------------
\* The payload that is committed with the next anchor.
Committed ==
  IF run.next >= run.complete THEN {content[run.next]}
  ELSE SUBSET UNION {content[k] : k \in 1 .. run.next}

\* Committer: the first anchor after genesis has no previous one.
Prev(id) == IF id > 1 THEN id - 1 ELSE None

(* Shuttle::handle: the anchor is parsed, pushed if it may be executed, and hashes
   that are too old are removed; a failed assertion ends the task.  The engine
   pauses when its DAG is too far above the top known anchor.                   *)
HandleAnchor ==
  /\ ~handler.panic
  /\ run.next \in Anchors /\ run.next + Behind <= top + Lag
  /\ \E bytes \in Committed :
       LET id == run.next
           q  == parse_unique(handler.parser, id, bytes)
           pushes == id >= handler.first /\ ~(q.p.blake.panic \/ q.p.sha.panic)
       IN  \E hashes \in BelowBottom(q.p.blake, id), messages \in BelowBottom(q.p.sha, id) :
             LET p == CleanBoth(q.p, id, hashes, messages)
             IN  /\ handler' = [parser |-> p, first |-> handler.first, last |-> id,
                                panic |-> p.blake.panic \/ p.sha.panic]
                 /\ cache' = IF pushes THEN push(cache, [id |-> id, prev |-> Prev(id), externals |-> q.unique])
                             ELSE cache
                 /\ col' = IF pushes THEN Notified(col) ELSE col
                 /\ run' = [run EXCEPT !.next = id + 1, !.bottom = Larger(@, id - History)]
  /\ UNCHANGED <<content, known, applied, own, seen, odd>>

\* Mutant: anchors are executed before the deduplicator is filled.
ResetHandlerEarly(full) == [NewHandler EXCEPT !.first = full]

\* Shuttle::reset: the cache is emptied as well.
ResetHandler(full) == [NewHandler EXCEPT !.first = full + Dedup]

(* Engine::pre_run: the run starts with the top known anchor of now.  A run that
   sends anchors again which this handler knows is noted.                       *)
PreRun ==
  /\ run = NotRunning /\ run' \in RunsFrom(StartBottom(top))
  /\ seen' = IF run'.next <= handler.last THEN seen \cup {"repeated"} ELSE seen
  /\ UNCHANGED <<content, handler, cache, known, applied, own, col, odd>>

Odd == odd < MaxOdd /\ odd' = odd + 1

(* DagFront::fill_to_top: the window got too long, the committer starts anew and
   says so.  The top of the DAG is at most Lag above the top known anchor.      *)
Gap(bottom) ==
  /\ Odd /\ ~handler.panic /\ run # NotRunning
  /\ bottom + Replay <= top /\ run.next <= bottom + History + 1
  /\ run' \in RunsFrom(bottom)
  /\ handler' = ResetHandler(bottom + History) /\ cache' = EmptyMap
  /\ UNCHANGED <<content, known, applied, own, col, seen>>

(* Inner::dropping: a conflict makes the committer drop rounds, at least the lowest
   one of DagBack.  It is noted, when this run has not yet reached what the collator
   has from the run before a recovery.                                          *)
DropOnConflict(bottom) ==
  /\ Odd /\ ~handler.panic /\ run # NotRunning
  /\ run.bottom < bottom /\ bottom <= top + Lag
  /\ run' = [next |-> Larger(bottom + 1, run.next), complete |-> Larger(run.complete, bottom + History),
             bottom |-> bottom]
  /\ handler' = ResetHandler(bottom + History) /\ cache' = EmptyMap
  /\ seen' = seen \cup {"dropped"} \cup (IF run.next <= col.last THEN {"overtaken"} ELSE {})
  /\ UNCHANGED <<content, known, applied, own, col>>

(* EngineRecoverLoop: any other conflict ends the run.  The next one starts like the
   first one of a session, but the channel and its handler stay.                *)
Recover ==
  /\ Odd /\ run # NotRunning
  /\ run' = NotRunning
  /\ UNCHANGED <<content, handler, cache, known, applied, own, col, seen>>

\* A crash; then MempoolAdapterStdImpl::start with the applied block.
Restart ==
  /\ Odd
  /\ top' = applied.top /\ clearing' = FALSE /\ run' = NotRunning
  /\ handler' = NewHandler /\ cache' = EmptyMap /\ own' = applied /\ col' = NewCollator /\ seen' = {}
  /\ UNCHANGED <<content, applied>>

\* MempoolOutput::Paused, MempoolOutput::Running: Cache::set_paused.
SetPaused ==
  /\ col.pc \in {"check", "read", "wait"} /\ ~handler.panic
  /\ col' = Notified(col)
  /\ UNCHANGED <<content, run, handler, cache, known, applied, own, seen, odd>>
-----------------------------------------------------------------------------
\* import_next_anchor: how far a collator may be above the top processed anchor.
MayImport(last, t) == last <= t + (2 * Lag) \div 3

Ask(c, query, arg) == [c EXCEPT !.pc = "check", !.query = query, !.arg = arg, !.woken = FALSE]

LastId(anchors) == CHOOSE id \in {a.id : a \in anchors} : \A a \in anchors : a.id <= id

(* resume_collation with reset, check_and_import_init_anchors, import_init_anchors:
   the collator goes on from a block, with anchors it still has or from the cache
   of the adapter.                                                              *)
ResumeWithReset(c, bl) ==
  LET kept == {a \in c.mine : a.id <= bl.last}
      last == LastId(kept)
      d(mine, n) == [c EXCEPT !.top = bl.top, !.from = bl.from, !.goal = bl.last, !.mine = mine, !.last = n]
  IN  IF bl.from \notin {a.id : a \in kept} THEN Ask(d({}, 0), "by_id", bl.from)
      ELSE IF last < bl.last THEN Ask(d(kept, last), "next", last)
      ELSE Done(d(kept, last), "idle")

(* sync_to_applied_mc_block: a block of other nodes, whose collators follow the rule
   above, while no collator is active.  Sync may be cancelled; otherwise collation
   is resumed before the mempool is told.                                       *)
Sync ==
  /\ col.pc \in {"off", "idle"} /\ applied.top = top /\ ~clearing
  /\ \E t \in top .. MaxAnchor, i, j \in 0 .. Spread :
       LET bl == [top |-> t, from |-> t + i, last |-> t + i + j]
       IN  /\ bl.from >= Larger(1, applied.from) /\ bl.last >= applied.last /\ bl.last <= MaxAnchor
           /\ MayImport(bl.last - 1, t) /\ bl # applied
           /\ applied' = bl /\ own' = bl
           /\ col' \in {Done(col, "off"), ResumeWithReset(col, bl)}
  /\ UNCHANGED <<content, run, handler, cache, known, seen, odd>>

\* CollatorStdImpl::init, or resume after a cancel: with zerostate or the applied block.
StartCollation ==
  /\ col.pc = "off" /\ own = applied
  /\ col' = IF applied.from = 0 THEN [NewCollator EXCEPT !.pc = "idle"]
            ELSE ResumeWithReset(col, applied)
  /\ UNCHANGED <<content, run, handler, cache, known, applied, own, seen, odd>>

(* A block of its own: collation goes on without reset before the block is accepted.
   ExternalsReader has removed anchors that were processed.                     *)
OwnBlock ==
  /\ col.pc = "idle" /\ own = applied /\ applied.top = top
  /\ \E t \in top + 1 .. top + Spread + 1, p \in col.from .. col.last :
       /\ t <= p /\ p <= t + Spread
       /\ own' = [top |-> t, from |-> p, last |-> col.last]
       /\ col' = [col EXCEPT !.top = t, !.from = p, !.mine = {a \in @ : a.id >= p}]
  /\ UNCHANGED <<content, run, handler, cache, known, applied, seen, odd>>

(* notify_top_processed_to_anchor_to_mempool: handle_signed_mc_block, and then
   clear_anchors_cache.                                                         *)
Notify(t) == ~clearing /\ top' = t /\ clearing' = TRUE

ClearCache ==
  /\ clearing /\ clearing' = FALSE
  /\ cache' = clear(cache, top)
  /\ UNCHANGED <<content, run, handler, top, applied, own, col, seen, odd>>

\* Sync goes on.
NotifySynced ==
  /\ applied.top > top /\ Notify(applied.top)
  /\ UNCHANGED <<content, run, handler, cache, applied, own, col, seen, odd>>

\* on_block_accepted.
AcceptOwn ==
  /\ own # applied /\ Notify(own.top)
  /\ applied' = own
  /\ UNCHANGED <<content, run, handler, cache, own, col, seen, odd>>

\* import_next_anchor.
ImportNext ==
  /\ col.pc = "idle" /\ MayImport(col.last, col.top)
  /\ col' = Ask(col, "next", col.last)
  /\ UNCHANGED <<content, run, handler, cache, known, applied, own, seen, odd>>

Answer(c) == IF c.query = "next" THEN get_next_anchor(cache, c.arg) ELSE get_anchor_by_id(cache, c.arg)

\* AnchorsCache::insert, and the next turn of import_init_anchors.
Import(c, a) ==
  LET d == [c EXCEPT !.mine = IF a.externals # {} THEN @ \cup {a} ELSE @, !.last = a.id]
  IN  IF a.id < c.goal THEN Ask(d, "next", a.id) ELSE Done(d, "idle")

(* One turn of the loop of a query.  A collator that is told that the anchor does
   not exist cancels, and waits to be resumed with reset.                       *)
Check ==
  /\ col.pc = "check"
  /\ LET answer == Answer(col)
     IN  col' = CASE answer.is = "wait"   -> [col EXCEPT !.pc = "read"]
                  [] answer.is = "anchor" -> Import(col, answer.anchor)
                  [] answer.is = "none"   -> Done(col, "off")
                  [] answer.is = "error"  -> [Done(col, "failed") EXCEPT !.error = answer.error]
  /\ UNCHANGED <<content, run, handler, cache, known, applied, own, seen, odd>>

\* The lock is released and the notification is awaited.
Await ==
  /\ col.pc = "read"
  /\ col' = [col EXCEPT !.pc = "wait"]
  /\ UNCHANGED <<content, run, handler, cache, known, applied, own, seen, odd>>

\* The notification is received: the loop subscribes anew and checks again.
Wake ==
  /\ col.pc = "wait" /\ col.woken
  /\ col' = Ask(col, col.query, col.arg)
  /\ UNCHANGED <<content, run, handler, cache, known, applied, own, seen, odd>>

\* cancel_collation: the manager has newer blocks to sync.
Cancel ==
  /\ col.pc = "wait"
  /\ col' = Done(col, "off")
  /\ UNCHANGED <<content, run, handler, cache, known, applied, own, seen, odd>>

Next == \/ HandleAnchor
        \/ \E bottom \in Anchors : Gap(bottom) \/ DropOnConflict(bottom)
        \/ PreRun \/ Recover \/ Restart \/ SetPaused
        \/ Sync \/ NotifySynced \/ ClearCache \/ OwnBlock \/ AcceptOwn
        \/ StartCollation \/ ImportNext \/ Check \/ Await \/ Wake \/ Cancel

Spec == Init /\ [][Next]_vars
-----------------------------------------------------------------------------
TypeOK ==
  /\ run \in [next : 0 .. MaxAnchor + 1, complete : Nat, bottom : Nat]
  /\ clearing \in BOOLEAN /\ top \in 0 .. MaxAnchor /\ top <= applied.top /\ applied.top <= own.top
  /\ col.pc \in {"off", "idle", "check", "read", "wait", "failed"}
  /\ DOMAIN cache \subseteq Anchors

\* Externals that only one payload stands for.
Plain == {m \in {Decode[x] : x \in DOMAIN Decode} \ {NoMessage} :
            \A x, y \in DOMAIN Decode : Decode[x] = m /\ Decode[y] = m => x = y}

\* The externals of an anchor: those not seen in the rounds before it that count.
Unique(id) ==
  LET messages(k) == {Decode[x] : x \in content[k]}
  IN  {m \in messages(id) : \A k \in Bottom(id) .. id - 1 : m \notin messages(k)}

\* What the collator has of an anchor.
Has(id) == UNION {a.externals : a \in {n \in col.mine : n.id = id}}

(* Wherever a node has started and whatever it has missed, its collator has of every
   anchor from the one it processes to the last one imported, without a gap, the
   externals that a node has which handled all anchors since genesis.  No query
   fails and no assertion of the deduplicator.  Except: after a recovery that sends
   anchors again to the same handler, or that is followed by a conflict before it
   has come as far as the collator; and for a message in two encodings.         *)
SameExternals ==
  seen \cap {"repeated", "overtaken"} = {} =>
     /\ TypeOK /\ ~handler.panic /\ col.error = "none"
     /\ col.pc # "off" =>
          \A id \in col.from .. col.last : Has(id) \cap Plain = Unique(id) \cap Plain

(* A collator that waits is not forgotten: it has not missed the push of the anchor
   that would answer it, and the mempool is not paused until this collator goes on
   ("do not import anchor if mempool may be paused").  Except: rounds dropped after
   a conflict may leave nothing to push below the pause.                        *)
AwaitsProgress ==
  col.pc = "wait" /\ ~col.woken =>
     /\ Answer(col).is = "wait"
     /\ applied.top = top /\ own = applied /\ seen = {} => run.next + Behind <= top + Lag
=============================================================================
