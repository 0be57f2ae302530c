---------------------------- MODULE Deduplicator ----------------------------
(* collator/src/mempool/impls/std_impl/{deduplicator,parser}.rs: which externals
   of an anchor were not seen in the last rounds.  Operators on the state of one
   Deduplicator, and on the Parser, which has two of them: one for the bytes of a
   message, one for the message they decode to.

   The hashes of one anchor are checked one after the other, but independently of
   each other, so they are a set.                                               *)
EXTENDS IndexMap

CONSTANTS Dedup,     \* deduplicate_rounds
          NoMessage, \* what is not an external message
          Decode     \* parse_message_bytes: the message that bytes stand for, or NoMessage

\* Deduplicator: latest round of each hash, hashes by round, failed assertion.
NewDeduplicator == [max |-> EmptyMap, rounds |-> EmptyMap, panic |-> FALSE]

\* The least round that counts at anchor_round; u32, `-` saturates.
Bottom(anchor_round) == (IF anchor_round > Dedup THEN anchor_round - Dedup ELSE 0) + 1

HashesAt(d, r) == IF r \in DOMAIN d.rounds THEN d.rounds[r].v ELSE {}

\* check_unique for hashes: those that are inserted at this round for the first time.
Fresh(d, r, hashes) == hashes \ HashesAt(d, r)

(* Deduplicator::check_unique: the hashes that are unique, and the next state.  A
   hash moves from its old round to this one.                                   *)
check_unique(d, r, hashes) ==
  LET fresh == Fresh(d, r, hashes)
      known == fresh \cap DOMAIN d.max
      moved == [k \in DOMAIN d.rounds |->
                  IF k = r THEN d.rounds[k]
                  ELSE [d.rounds[k] EXCEPT !.v = @ \ {h \in known : d.max[h] = k}]]
  IN  [unique |-> {h \in fresh : h \notin known \/ d.max[h] < Bottom(r)},
       d |-> [max    |-> [h \in DOMAIN d.max \cup fresh |-> IF h \in fresh THEN r ELSE d.max[h]],
              rounds |-> IF hashes = {} THEN d.rounds ELSE Insert(moved, r, HashesAt(d, r) \cup fresh),
              panic  |-> \/ d.panic
                         \/ \E h \in known :
                              \/ d.max[h] >= r
                              \/ d.max[h] \in DOMAIN d.rounds /\ h \notin HashesAt(d, d.max[h])]]

(* clean: the rounds to drain, from the first place on, by binary search; any number
   of them, when the rounds are not sorted.                                     *)
BelowBottom(d, r) ==
  LET all == DOMAIN d.rounds
      before(j, k) == d.rounds[j].at < d.rounds[k].at
  IN  IF \A j, k \in all : before(j, k) => j < k
      THEN {{k \in all : k < Bottom(r)}}
      ELSE {some \in SUBSET all : \A k \in some, j \in all : before(j, k) => j \in some}

\* Deduplicator::clean, which drains the rounds below.
clean(d, r, below) ==
  LET drained == UNION {d.rounds[k].v : k \in below}
  IN  [max    |-> Restrict(d.max, {h \in DOMAIN d.max : ~(h \in drained /\ d.max[h] < Bottom(r))}),
       rounds |-> Restrict(d.rounds, DOMAIN d.rounds \ below),
       panic  |-> d.panic \/ ~(drained \subseteq DOMAIN d.max)]

NewParser == [blake |-> NewDeduplicator, sha |-> NewDeduplicator]

\* Parser::parse_unique: the messages are checked only if their bytes are unique.
parse_unique(p, r, bytes) ==
  LET blake == check_unique(p.blake, r, bytes)
      sha   == check_unique(p.sha, r, {Decode[x] : x \in blake.unique} \ {NoMessage})
  IN  [unique |-> sha.unique, p |-> [blake |-> blake.d, sha |-> sha.d]]

\* Parser::clean, with the rounds that are drained.
CleanBoth(p, r, hashes, messages) ==
  [blake |-> clean(p.blake, r, hashes), sha |-> clean(p.sha, r, messages)]
=============================================================================
