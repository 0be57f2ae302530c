----------------------------- MODULE BlocksCache -----------------------------
(* collator/src/manager/blocks_cache.rs: the blocks that the collation manager
   holds, collated by this node or received from the network.

   The operators map a record m to the next one; its fields are
     blocks[c]  seqno -> entry: the blocks of the group of "M" and of "S"
     range      applied_mc_queue_range, << >> or <<start, end>>
     ids        last_collated_mc_block_ids
     known[c]   last_known_synced
     gc[c]      gc_to_boundary
     panic      the errors that took the node down
   An entry is [own, ok, both, status, ref, top, updated]: Collated or Received,
   whether it is the block of the network, received_after_collation or
   collated_after_receive, the CandidateStatus, ref_by_mc_seqno, and for a
   master block the top shard block and whether it is new.                      *)
EXTENDS Naturals, Sequences, FiniteSets, FiniteSetsExt, Functions

Applied(e) == ~e.own \/ e.both

Without(f, k) == Restrict(f, DOMAIN f \ {k})

With(f, k, e) == [j \in DOMAIN f \cup {k} |-> IF j = k THEN e ELSE f[j]]

AtLeast(f, k) == Restrict(f, {j \in DOMAIN f : j >= k})

Fail(m, when, error) == IF when THEN [m EXCEPT !.panic = @ \cup {error}] ELSE m

LastCollated(m) == IF m.ids = {} THEN {} ELSE {Max(m.ids)}
-----------------------------------------------------------------------------
\* MasterBlocksCacheData
move_range_start(m, n) ==
  IF m.range = << >> \/ n < m.range[1] THEN m
  ELSE [m EXCEPT !.range = IF n + 1 <= @[2] THEN <<n + 1, @[2]>> ELSE << >>]

move_range_end(m, n) ==
  [m EXCEPT !.range = IF @ = << >> THEN <<n, n>> ELSE <<@[1], n>>]

insert_last_collated_block_id(m, n) ==
  [move_range_start(m, n) EXCEPT !.ids = @ \cup {n}]

remove_last_collated_block_ids_from(m, n) == [m EXCEPT !.ids = {i \in @ : i < n}]

remove_last_collated_block_ids_before(m, n) == [m EXCEPT !.ids = {i \in @ : i >= n}]

check_refresh_last_known_synced(m, c, n) == [m EXCEPT !.known[c] = IF @ >= n THEN @ ELSE n]
-----------------------------------------------------------------------------
Put(m, c, k, e) == [m EXCEPT !.blocks[c] = With(@, k, e)]

(* A candidate is inserted, joins the received block that equals it, or is
   dropped as it differs from that.                                             *)
store_collated(m, c, k, e) ==
  LET old == m.blocks[c][k]
      stored(n) == IF c = "M" THEN insert_last_collated_block_id(n, k) ELSE n
  IN  IF k \notin DOMAIN m.blocks[c]
      THEN [m |-> stored(Put(m, c, k, e)), mismatch |-> FALSE, both |-> FALSE]
      ELSE IF old.own
      THEN [m |-> Fail(m, TRUE, "collated twice"), mismatch |-> FALSE, both |-> FALSE]
      ELSE IF old.ok # e.ok
      THEN [m |-> m, mismatch |-> TRUE, both |-> FALSE]
      ELSE [m |-> stored(Put(m, c, k, [old EXCEPT !.both = TRUE])), mismatch |-> FALSE, both |-> TRUE]

(* A block of the network that is newer than any before is inserted, joins the
   candidate that equals it, or replaces the one that differs.                  *)
store_received(m0, c, k, e) ==
  LET m == check_refresh_last_known_synced(m0, c, k)
      old == m.blocks[c][k]
      differs == k \in DOMAIN m.blocks[c] /\ old.ok # e.ok
      joins == k \in DOMAIN m.blocks[c] /\ old.ok = e.ok
      stored == Put(m, c, k, IF joins THEN [old EXCEPT !.both = TRUE, !.status = "Synced"] ELSE e)
      ranged == IF c = "M" THEN move_range_end(stored, k) ELSE stored
  IN  [m |-> Fail(IF differs THEN remove_last_collated_block_ids_from(ranged, IF c = "M" THEN k ELSE e.ref)
                  ELSE ranged, k \in DOMAIN m.blocks[c] /\ ~old.own, "received twice"),
       mismatch |-> differs, both |-> joins]

(* The top shard block for master block n: the newest one that refers to n and
   was collated here.                                                           *)
get_top_shard_blocks_info_for_mc_block(m, n) ==
  LET S == m.blocks["S"]
      of == {k \in DOMAIN S : S[k].ref = n /\ (S[k].own \/ S[k].both)}
  IN  IF of = {} THEN {} ELSE {Max(of)}
-----------------------------------------------------------------------------
(* The shard blocks of master block n are taken out, from its top one backwards;
   the first one that refers to another master block is removed as well, but not
   extracted.                                                                   *)
extract_mc_block_subgraph(m, n, e) ==
  LET S == m.blocks["S"]
      whole(k) == \A j \in k .. e.top : j \in DOMAIN S /\ S[j].ref = n
      shards == IF e.updated THEN {k \in DOMAIN S : k <= e.top /\ whole(k)} ELSE {}
      stop == IF e.updated THEN IF shards = {} THEN e.top ELSE Min(shards) - 1 ELSE 0
      gone == Restrict(S, DOMAIN S \ (shards \cup {stop}))
  IN  [m |-> IF shards = {} THEN [m EXCEPT !.blocks["S"] = gone]
             ELSE check_refresh_last_known_synced([m EXCEPT !.blocks["S"] = gone], "S", Max(shards)),
       entry |-> e, shards |-> shards, sc |-> S]

\* The range of applied blocks keeps the block that is taken out.
ExtractKeepingRange(m, n) ==
  LET m1 == [m EXCEPT !.blocks["M"] = Without(@, n)]
  IN  extract_mc_block_subgraph(
        remove_last_collated_block_ids_before(check_refresh_last_known_synced(m1, "M", n), n), n, m.blocks["M"][n])

extract_mc_block_subgraph_for_sync(m, n) ==
  LET e == m.blocks["M"][n]
      m1 == [m EXCEPT !.blocks["M"] = Without(@, n)]
      m2 == IF Applied(e) THEN move_range_start(m1, n) ELSE m1
  IN  extract_mc_block_subgraph(
        remove_last_collated_block_ids_before(check_refresh_last_known_synced(m2, "M", n), n), n, e)

AppliedFrom(m, n) == {k \in DOMAIN m.blocks["M"] : k >= n /\ Applied(m.blocks["M"][k])}

\* Of a nonempty set AppliedFrom(m, from).
pop_front_applied_mc_block_subgraph(m, from) ==
  LET n == Min(AppliedFrom(m, from))
      m1 == [m EXCEPT !.blocks["M"] = Without(@, n)]
  IN  extract_mc_block_subgraph(
        move_range_start(remove_last_collated_block_ids_before(m1, n), n), n, m.blocks["M"][n])

set_gc_to_boundary(m, n, e) == [m EXCEPT !.gc = [c \in DOMAIN @ |-> IF c = "M" THEN n ELSE e.top]]

\* The id of the last block that is removed stays.
gc_prev_blocks(m) ==
  LET removed == {n \in DOMAIN m.blocks["M"] : n < m.gc["M"]}
      kept == [m EXCEPT !.blocks = [c \in DOMAIN @ |-> AtLeast(m.blocks[c], m.gc[c])]]
  IN  IF removed = {} THEN kept ELSE remove_last_collated_block_ids_before(kept, Max(removed))

\* The blocks collated beyond the one synced to stay.
KeepNextCollated(m, n, k) == m

\* After a sync to master block n with top shard block k.
remove_next_collated_blocks_from_cache(m, n, k) ==
  LET B == m.blocks
      stays(c, j) == j <= (IF c = "M" THEN n ELSE k) \/ ~B[c][j].own
      removed == {j \in DOMAIN B["M"] : ~stays("M", j)}
      kept == [m EXCEPT !.blocks = [c \in DOMAIN B |-> Restrict(B[c], {j \in DOMAIN B[c] : stays(c, j)})]]
  IN  IF removed = {} THEN kept ELSE remove_last_collated_block_ids_from(kept, Min(removed))
=============================================================================
