------------------------------- MODULE Session -------------------------------
(* collator/src/validator/impls/std_impl: validators of one shard exchange their
   signatures of collated blocks until each has enough of them.

   A node has a ValidatorSession for each validation session it was told of.  A
   validation of a block is a task that prepares the block with the signatures
   cached for its seqno, publishes it in block_signatures and asks all peers; who
   asks is answered from block_signatures, or his signature is cached.  A
   signature <<b, v>> is one over block b, of which a faulty validator may make
   several.  An answer and what is done with it are one step: the signature in
   the slot counts, whenever it came there.                                     *)
EXTENDS Naturals, FiniteSets

CONSTANTS Nodes,        \* validators that run this code
          Faulty,       \* validators that send anything
          Weight,       \* of a set of validators
          Blocks,       \* candidates for the block of a seqno
          Proposals,    \* the candidates that a node may collate
          FaultySigs,   \* bound: the signatures a node gets from faulty validators
          Seqnos,       \* seqnos of the blocks that are validated
          Start,        \* start_block_seqno of each session
          Slots,        \* signature_cache_slots
          Keep,         \* old_blocks_to_keep
          MaxParallel,  \* max_parallel_requests
          Ahead,        \* bound: nodes that receive blocks and enter later sessions
          Received,     \* bound: the blocks they receive
          MaxEvents     \* bound: blocks received and restarts

Validators == Nodes \cup Faulty
Sessions == DOMAIN Start
Keys == Seqnos \X Blocks
Signatures == Blocks \X {0, 1}
None == << >>

ASSUME SessionAssumption ==
  /\ Nodes \cap Faulty = {}
  /\ Weight \in [SUBSET Validators -> Nat]
  /\ \A S, T \in SUBSET Validators : S \cap T = {} => Weight[S \cup T] = Weight[S] + Weight[T]
  /\ Proposals \in [Nodes -> SUBSET Blocks] /\ FaultySigs \in [Nodes -> SUBSET Signatures]
  /\ Sessions \subseteq Nat /\ Start \in [Sessions -> Nat]
  /\ Seqnos \subseteq Nat /\ \A s \in Seqnos : \E i \in Sessions : Start[i] <= s

VARIABLES sessions,   \* the sessions of each node
          cancelled,  \* the sessions it has cancelled
          min_seqno,  \* of each session
          cached,     \* cached_signatures: <<session, seqno>> -> signatures of the peers
          tree,       \* block_signatures: seqno -> block
          task,       \* the validation of each block
          pruning,    \* calls of cancel_until that are to remove old blocks
          signed,     \* the blocks of a seqno whose signature a node gives to others
          excused,    \* seqnos for which a node has forgotten what it signed
          complete,   \* results of validations: the block and who has signed it
          received,   \* the last block whose validation a node has cancelled
          events      \* how many of these, and restarts, there were

nodeVars == <<sessions, cancelled, min_seqno>>
history == <<signed, excused, complete, received, events>>
vars == <<sessions, cancelled, min_seqno, cached, tree, task, pruning, history>>
-----------------------------------------------------------------------------
weight_threshold == (2 * Weight[Validators]) \div 3 + 1

Peers(n) == Validators \ {n}

\* The signature of this node; faulty validators make others.
Sig(b) == <<b, 0>>

\* verify_raw
Verifies(sig, b) == sig[1] = b

\* The session the block of a seqno belongs to: the last that starts no later.
SessionOf(s) == CHOOSE i \in Sessions : Start[i] <= s /\ \A j \in Sessions : Start[j] <= s => j <= i

Empty(n) == [p \in Peers(n) |-> None]

NewTask(n) ==
  [pc |-> "idle", slot |-> Empty(n), cache |-> FALSE, cancelled |-> FALSE,
   fut |-> [p \in Peers(n) |-> "none"], result |-> {}]

Init ==
  /\ sessions = [n \in Nodes |-> {}] /\ cancelled = [n \in Nodes |-> {}]
  /\ min_seqno = [n \in Nodes |-> [i \in Sessions |-> 0]]
  /\ cached = [n \in Nodes |-> << >>] /\ tree = [n \in Nodes |-> << >>]
  /\ task = [n \in Nodes |-> [k \in Keys |-> NewTask(n)]]
  /\ pruning = {} /\ complete = {} /\ events = 0
  /\ signed = [n \in Nodes |-> [s \in Seqnos |-> {}]] /\ excused = [n \in Nodes |-> {}]
  /\ received = [n \in Nodes |-> 0]

Filled(t) == {p \in DOMAIN t.slot : t.slot[p] # None}

\* total_weight counts the own signature and those in the slots.
Validated(n, t) == Weight[{n} \cup Filled(t)] >= weight_threshold

At(n, s, b, pc) == task[n][<<s, b>>].pc = pc
-----------------------------------------------------------------------------
\* add_session, with the cache slots of the new session; sessions come in their order
CacheFrom(n, i, from, to) ==
  LET D == {<<i, s>> : s \in from .. to}
  IN  [k \in DOMAIN cached[n] \cup D |-> IF k \in DOMAIN cached[n] THEN cached[n][k] ELSE Empty(n)]

AddSession(n, i) ==
  /\ i = 1 \/ n \in Ahead
  /\ i \notin sessions[n] \cup cancelled[n]
  /\ \A j \in Sessions : j < i => j \in sessions[n] \cup cancelled[n]
  /\ sessions' = [sessions EXCEPT ![n] = @ \cup {i}]
  /\ min_seqno' = [min_seqno EXCEPT ![n][i] = Start[i]]
  /\ cached' = [cached EXCEPT ![n] = CacheFrom(n, i, Start[i], Start[i] + Slots - 1)]
  /\ UNCHANGED <<cancelled, tree, task, pruning, history>>

Larger(i, j) == IF i < j THEN j ELSE i

Known(n, s) == s \in DOMAIN tree[n]

Held(n, s) == <<SessionOf(s), s>> \in DOMAIN cached[n]

CachedFor(n, s) == IF Held(n, s) THEN cached[n][<<SessionOf(s), s>>] ELSE Empty(n)

\* What of the cache is a signature over block b.
Reused(c, b) == [p \in DOMAIN c |-> IF c[p] # None /\ Verifies(c[p], b) THEN c[p] ELSE None]

\* The empty slots are filled from f.
FilledFrom(slot, f) == [p \in DOMAIN slot |-> IF slot[p] = None THEN f[p] ELSE slot[p]]

(* validate and validate_block up to the publication of the block: the slots for
   the next blocks are created, the signatures in the slot of this one are reused.
   The slot is held on to: what comes into it later is used as well.            *)
ValidateBlock(n, s, b) ==
  LET i == SessionOf(s)
      min == Larger(min_seqno[n][i], s)
  IN  /\ At(n, s, b, "idle") /\ i \in sessions[n]
      /\ min_seqno' = [min_seqno EXCEPT ![n][i] = min]
      /\ cached' = [cached EXCEPT ![n] = CacheFrom(n, i, Larger(min, s + 1), s + Slots)]
      /\ task' = [task EXCEPT ![n][<<s, b>>].pc = "prepared", ![n][<<s, b>>].cache = Held(n, s),
                              ![n][<<s, b>>].slot = Reused(CachedFor(n, s), b)]
      /\ UNCHANGED <<sessions, cancelled, tree, pruning, history>>

\* The futures are dropped with the task, the slots stay with the block.
End(t, pc) == [t EXCEPT !.pc = pc, !.fut = [p \in DOMAIN @ |-> "none"], !.result = {}, !.cancelled = FALSE]

Without(f, K) == [k \in DOMAIN f \ K |-> f[k]]

CollectedBy(n, s, b, t) ==
  IF Weight[t.result] >= weight_threshold
  THEN /\ task' = [task EXCEPT ![n][<<s, b>>] = End(t, "Complete")]
       /\ complete' = complete \cup {[seqno |-> s, block |-> b, signatures |-> t.result]}
  ELSE /\ task' = [task EXCEPT ![n][<<s, b>>] = t]
       /\ UNCHANGED complete

\* The futures of a block that is published: a signature cached meanwhile needs no query.
Started(n, s, b) ==
  LET t == task[n][<<s, b>>]
      slot == IF t.cache THEN FilledFrom(t.slot, Reused(CachedFor(n, s), b)) ELSE t.slot
  IN  [t EXCEPT !.pc = "collect", !.cache = FALSE, !.slot = slot, !.result = {n} \cup Filled(t),
                !.fut = [p \in Peers(n) |-> IF t.slot[p] # None THEN "none"
                                           ELSE IF slot[p] # None THEN "done" ELSE "ask"]]

\* Mutant: a block is published in place of another one of its seqno.
InsertOver(n, s, b) ==
  /\ At(n, s, b, "prepared")
  /\ tree' = [tree EXCEPT ![n] = [r \in DOMAIN @ \cup {s} |-> IF r = s THEN b ELSE @[r]]]
  /\ signed' = [signed EXCEPT ![n][s] = @ \cup {b}]
  /\ cached' = [cached EXCEPT ![n] = Without(@, {<<SessionOf(s), s>>})]
  /\ CollectedBy(n, s, b, Started(n, s, b))
  /\ UNCHANGED <<nodeVars, pruning, excused, received, events>>

(* "Allow only one validation at a time": the block is published, the slot of the
   cache removed, and a future started for each peer whose signature is missing. *)
Insert(n, s, b) ==
  /\ At(n, s, b, "prepared")
  /\ IF Known(n, s)
     THEN /\ task' = [task EXCEPT ![n][<<s, b>>] = [NewTask(n) EXCEPT !.pc = "Failed"]]
          /\ UNCHANGED <<cached, tree, signed, complete>>
     ELSE /\ tree' = [tree EXCEPT ![n] = [r \in DOMAIN @ \cup {s} |-> IF r = s THEN b ELSE @[r]]]
          /\ signed' = [signed EXCEPT ![n][s] = @ \cup {b}]
          /\ cached' = [cached EXCEPT ![n] = Without(@, {<<SessionOf(s), s>>})]
          /\ IF SessionOf(s) \in cancelled[n]
             THEN task' = [task EXCEPT ![n][<<s, b>>] = End(Started(n, s, b), "Skipped")] /\ UNCHANGED complete
             ELSE CollectedBy(n, s, b, Started(n, s, b))
  /\ UNCHANGED <<nodeVars, pruning, excused, received, events>>

Collect(n, s, b) ==
  LET t == task[n][<<s, b>>]
  IN  /\ t.pc = "collect"
      /\ \E p \in Peers(n) :
           t.fut[p] = "done" /\ CollectedBy(n, s, b, [t EXCEPT !.fut[p] = "none", !.result = @ \cup {p}])
      /\ UNCHANGED <<nodeVars, cached, tree, pruning, signed, excused, received, events>>

Skip(n, s, b) ==
  LET t == task[n][<<s, b>>]
  IN  /\ t.pc = "collect" /\ (t.cancelled \/ SessionOf(s) \in cancelled[n])
      /\ task' = [task EXCEPT ![n][<<s, b>>] = End(t, "Skipped")]
      /\ UNCHANGED <<nodeVars, cached, tree, pruning, history>>
-----------------------------------------------------------------------------
\* receive_signature: the future for one peer
Fut(n, s, b, p, from, to) ==
  /\ task[n][<<s, b>>].fut[p] = from
  /\ task' = [task EXCEPT ![n][<<s, b>>].fut[p] = to]
  /\ UNCHANGED <<nodeVars, cached, tree, pruning, history>>

Ask(n, s, b, p) ==
  /\ Cardinality({q \in Peers(n) : task[n][<<s, b>>].fut[q] = "query"}) < MaxParallel
  /\ Fut(n, s, b, p, "ask", "query")

\* Mutant: a query has no timeout.
AskWithoutTimeout(n, s, b, p) == Fut(n, s, b, p, "query", "query")

\* The query has failed, has timed out, or the peer has cached the signature.
AskAgain(n, s, b, p) == Fut(n, s, b, p, "query", "ask")

\* failed_exchange_interval after a wrong signature
Retry(n, s, b, p) == Fut(n, s, b, p, "wrong", IF task[n][<<s, b>>].slot[p] = None THEN "ask" ELSE "done")

\* add_signature to an empty slot; the future that waits for it wakes up.
Fill(t, p, sig) ==
  [t EXCEPT !.slot[p] = sig, !.fut[p] = IF @ \in {"ask", "query"} THEN "done" ELSE @]

Refused(t, p, sig, b) == IF t.slot[p] = None THEN ~Verifies(sig, b) ELSE t.slot[p] # sig

\* add_signature in exchange_signatures
AddFrom(n, t, p, sig, b) ==
  IF Validated(n, t) \/ t.slot[p] # None \/ ~Verifies(sig, b) THEN t ELSE Fill(t, p, sig)

\* add_signature after an answer
Take(t, p, sig, b) == IF Verifies(sig, b) THEN Fill(t, p, sig) ELSE [t EXCEPT !.fut[p] = "wrong"]

Serves(n, s) == SessionOf(s) \in sessions[n] \ cancelled[n]

(* exchange_signatures: node p, asked by n with a signature, stores it with the
   block or caches it.                                                          *)
Stores(p, n, s, sig) ==
  /\ Serves(p, s)
  /\ cached' = IF Known(p, s) \/ ~Held(p, s) THEN cached
               ELSE [cached EXCEPT ![p][<<SessionOf(s), s>>][n] = sig]

Answered(p, n, s, sig) ==
  LET t == task[p][<<s, tree[p][s]>>]
  IN  Known(p, s) /\ (Validated(p, t) \/ ~Refused(t, n, sig, tree[p][s]))

AfterAsked(p, n, s, sig) ==
  IF ~Known(p, s) THEN task
  ELSE [task EXCEPT ![p][<<s, tree[p][s]>>] = AddFrom(p, @, n, sig, tree[p][s])]

\* Node n asks p; the answer may be lost.
Exchange(n, s, b, p, delivered) ==
  /\ task[n][<<s, b>>].fut[p] = "query"
  /\ Stores(p, n, s, Sig(b))
  /\ delivered => Answered(p, n, s, Sig(b))
  /\ task' = IF delivered THEN [AfterAsked(p, n, s, Sig(b)) EXCEPT ![n][<<s, b>>] = Take(@, p, Sig(tree[p][s]), b)]
             ELSE AfterAsked(p, n, s, Sig(b))
  /\ UNCHANGED <<nodeVars, tree, pruning, history>>

\* A faulty validator asks, and answers.
FaultyAsks(p, n, s, sig) ==
  /\ Stores(n, p, s, sig)
  /\ task' = AfterAsked(n, p, s, sig)
  /\ UNCHANGED <<nodeVars, tree, pruning, history>>

FaultyAnswers(n, s, b, p, sig) ==
  /\ task[n][<<s, b>>].fut[p] = "query"
  /\ task' = [task EXCEPT ![n][<<s, b>>] = Take(@, p, sig, b)]
  /\ UNCHANGED <<nodeVars, cached, tree, pruning, history>>
-----------------------------------------------------------------------------
(* cancel_until for the task t of a block: a published block is cancelled; a slot of
   the cache that the task holds is removed from it and gets no more signatures. *)
CutOff(n, k, t) ==
  [t EXCEPT !.cancelled = @ \/ (Known(n, k[1]) /\ tree[n][k[1]] = k[2] /\ t.pc = "collect"),
            !.slot = IF t.cache THEN FilledFrom(@, Reused(CachedFor(n, k[1]), k[2])) ELSE @,
            !.cache = FALSE]

(* cancel_validation after block u was received: of the last session that has
   started the validations up to u are cancelled, earlier sessions only when it
   is Keep blocks old.                                                          *)
CancelValidation(n, u) ==
  LET found == {i \in sessions[n] : Start[i] <= u}
      i == CHOOSE j \in found : \A k \in found : k <= j
      old == IF u >= Start[i] + Keep THEN {j \in sessions[n] : j < i} ELSE {}
      slots == {k \in DOMAIN cached[n] : k[1] = i /\ k[2] <= u}
      hit(k) == SessionOf(k[1]) = i /\ k[1] <= u
  IN  /\ n \in Ahead /\ received[n] < u
      /\ events < MaxEvents /\ events' = events + 1
      /\ received' = [received EXCEPT ![n] = u]
      /\ IF found = {} THEN UNCHANGED <<nodeVars, cached, task, pruning>>
         ELSE /\ sessions' = [sessions EXCEPT ![n] = @ \ old]
              /\ cancelled' = [cancelled EXCEPT ![n] = @ \cup old]
              /\ min_seqno' = [min_seqno EXCEPT ![n][i] = Larger(@, u)]
              /\ cached' = [cached EXCEPT ![n] = Without(@, slots)]
              /\ task' = [task EXCEPT ![n] = [k \in Keys |-> IF hit(k) THEN CutOff(n, k, @[k]) ELSE @[k]]]
              /\ pruning' = pruning \cup
                   (IF u > Keep THEN {[node |-> n, session |-> i, until |-> u - Keep]} ELSE {})
      /\ UNCHANGED <<tree, signed, excused, complete>>

\* Nobody holds the slots of a block that was removed after its validation.
Dropped(n, t) == IF t.pc \in {"Complete", "Skipped"} THEN [NewTask(n) EXCEPT !.pc = t.pc] ELSE t

\* The end of cancel_until: "Remove only blocks that are old enough."
Prune ==
  \E q \in pruning :
    LET gone == {s \in DOMAIN tree[q.node] : SessionOf(s) = q.session /\ s <= q.until}
    IN  /\ pruning' = pruning \ {q}
        /\ tree' = [tree EXCEPT ![q.node] = Without(@, gone)]
        /\ excused' = [excused EXCEPT ![q.node] = @ \cup gone]
        /\ task' = [task EXCEPT ![q.node] = [k \in Keys |-> IF k[1] \in gone THEN Dropped(q.node, @[k]) ELSE @[k]]]
        /\ UNCHANGED <<nodeVars, cached, signed, complete, received, events>>

\* Nothing of this is stored.
Restart(n) ==
  /\ events < MaxEvents /\ events' = events + 1
  /\ sessions' = [sessions EXCEPT ![n] = {}] /\ cancelled' = [cancelled EXCEPT ![n] = {}]
  /\ min_seqno' = [min_seqno EXCEPT ![n] = [i \in Sessions |-> 0]]
  /\ cached' = [cached EXCEPT ![n] = << >>] /\ tree' = [tree EXCEPT ![n] = << >>]
  /\ task' = [task EXCEPT ![n] = [k \in Keys |-> NewTask(n)]]
  /\ pruning' = {q \in pruning : q.node # n}
  /\ excused' = [excused EXCEPT ![n] = @ \cup {s \in Seqnos : signed[n][s] # {}}]
  /\ UNCHANGED <<signed, complete, received>>
-----------------------------------------------------------------------------
TaskStep(n, s, b) ==
  ValidateBlock(n, s, b) \/ Insert(n, s, b) \/ Collect(n, s, b) \/ Skip(n, s, b)

QueryStep(n, s, b, p) ==
  Ask(n, s, b, p) \/ AskAgain(n, s, b, p) \/ Retry(n, s, b, p)

FaultyStep(p) ==
  \E n \in Nodes : \E s \in Seqnos, sig \in FaultySigs[n] :
    FaultyAsks(p, n, s, sig) \/ \E b \in Proposals[n] : FaultyAnswers(n, s, b, p, sig)

Next ==
  \/ \E n \in Nodes :
       \/ \E i \in Sessions : AddSession(n, i)
       \/ \E u \in Received : CancelValidation(n, u)
       \/ Restart(n)
       \/ \E s \in Seqnos, b \in Proposals[n] :
            \/ TaskStep(n, s, b)
            \/ \E p \in Peers(n) : QueryStep(n, s, b, p)
            \/ \E p \in Nodes \ {n} : \E delivered \in BOOLEAN : Exchange(n, s, b, p, delivered)
  \/ \E p \in Faulty : FaultyStep(p)
  \/ Prune

Spec == Init /\ [][Next]_vars

(* Queries time out, futures are polled, waiters for a permit come to their turn,
   and of the queries to a peer that is there some are answered in time.        *)
Fairness ==
  \A n \in Nodes : \A s \in Seqnos, b \in Proposals[n] :
    /\ WF_vars(Collect(n, s, b)) /\ WF_vars(\E p \in Peers(n) : AskAgain(n, s, b, p))
    /\ \A p \in Nodes \ {n} :
         WF_vars(Retry(n, s, b, p)) /\ SF_vars(Ask(n, s, b, p)) /\ SF_vars(Exchange(n, s, b, p, TRUE))

FairSpec == Spec /\ Fairness
-----------------------------------------------------------------------------
Forgetful(s) == {n \in Nodes : s \in excused[n]}

(* No two blocks of a seqno are validated by nodes of a session: "Allow only one
   validation at a time", and a threshold of two thirds of the weight.  A node that
   restarts, or validates a block that was removed as an old one, may sign
   another; such nodes and the faulty ones have at most a third of the weight.  *)
OneBlock ==
  \A x, y \in complete :
    (x.seqno = y.seqno /\ 3 * Weight[Faulty \cup Forgetful(x.seqno)] <= Weight[Validators])
      => x.block = y.block

\* The nodes that n may get the signatures of block b from have the weight.
Supported(n, s, b) ==
  Weight[{n} \cup {p \in Nodes : Serves(p, s) /\ Known(p, s) /\ tree[p][s] = b}] >= weight_threshold

(* A validation ends when nodes of enough weight have published the same block,
   however many queries and answers are lost and whatever faulty validators send:
   whoever has completed the block goes on to answer, and a signature that was
   only cached is asked for again.                                              *)
SupportedEnds ==
  \A n \in Nodes : \A s \in Seqnos, b \in Proposals[n] :
    At(n, s, b, "collect") ~> (~At(n, s, b, "collect") \/ ~Supported(n, s, b))
=============================================================================
