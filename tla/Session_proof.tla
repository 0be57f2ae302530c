---------------------------- MODULE Session_proof ----------------------------
(* Validators of a session agree on the block of a seqno, for all weights, sets
   of validators, candidates and sessions.

   IInv says whose signatures are where: what a node holds for an honest peer is
   a signature over a block that this peer has published, and as long as a node
   remembers what it has published for a seqno, that is a single block.         *)
EXTENDS Session, TLAPS

\* p may have signed block b of seqno s, where sg is what honest nodes have signed.
Backed(sg, s, b, p) == p \in Faulty \/ (p \in Nodes /\ b \in sg[p][s])

Pcs == {"idle", "prepared", "collect", "Failed", "Complete", "Skipped"}

Futs == {"none", "ask", "query", "wrong", "done"}

Slot(n) == [Peers(n) -> Signatures \cup {None}]

Tasks(n) ==
  [pc : Pcs, slot : Slot(n), cache : BOOLEAN, cancelled : BOOLEAN, fut : [Peers(n) -> Futs],
   result : SUBSET Validators]

\* What is true of the task t of node n for block b.
Good(sg, n, s, b, t) ==
  /\ t \in Tasks(n)
  /\ \A p \in Peers(n) :
       /\ t.slot[p] # None => Backed(sg, s, b, p)
       /\ t.fut[p] # "none" => Backed(sg, s, b, n)
       /\ t.fut[p] = "done" => Backed(sg, s, b, p)
  /\ \A p \in t.result : Backed(sg, s, b, p)

TasksGood(sg, tk) ==
  /\ DOMAIN tk = Nodes
  /\ \A n \in Nodes : DOMAIN tk[n] = Keys /\ \A s \in Seqnos, b \in Blocks : Good(sg, n, s, b, tk[n][<<s, b>>])

SlotGood(sg, n, s, c) ==
  c \in Slot(n) /\ \A p \in Peers(n) : c[p] # None => Backed(sg, s, c[p][1], p)

CacheGood(sg, c) ==
  /\ DOMAIN c = Nodes
  /\ \A n \in Nodes : \A s \in Seqnos : \A i : <<i, s>> \in DOMAIN c[n] => SlotGood(sg, n, s, c[n][<<i, s>>])

\* A block of the tree is signed; without an excuse it is the only one.
TreeGood ==
  /\ DOMAIN tree = Nodes /\ DOMAIN signed = Nodes /\ DOMAIN excused = Nodes
  /\ \A n \in Nodes :
       /\ DOMAIN signed[n] = Seqnos /\ DOMAIN tree[n] \subseteq Seqnos
       /\ \A s \in DOMAIN tree[n] : tree[n][s] \in Blocks /\ tree[n][s] \in signed[n][s]
       /\ \A s \in Seqnos : \A b \in signed[n][s] :
            s \in excused[n] \/ (s \in DOMAIN tree[n] /\ tree[n][s] = b)

CompleteGood(sg, cs) ==
  \A x \in cs :
    /\ x.seqno \in Seqnos /\ x.signatures \subseteq Validators
    /\ \A p \in x.signatures : Backed(sg, x.seqno, x.block, p)
    /\ Weight[x.signatures] >= weight_threshold

IInv ==
  /\ TasksGood(signed, task) /\ CacheGood(signed, cached) /\ CompleteGood(signed, complete)
  /\ TreeGood
-----------------------------------------------------------------------------
\* The weights of two sets of validators add up.
LEMMA Overlap ==
  ASSUME NEW S \in SUBSET Validators, NEW T \in SUBSET Validators
  PROVE  Weight[S] + Weight[T] = Weight[S \cup T] + Weight[S \cap T]
<1> DEFINE D == T \ S
           C == S \cap T
<1>1. Weight[S \cup D] = Weight[S] + Weight[D]
  <2>1. D \in SUBSET Validators /\ S \cap D = {}
    OBVIOUS
  <2> QED BY <2>1, SessionAssumption, Zenon
<1>2. Weight[C \cup D] = Weight[C] + Weight[D]
  <2>1. D \in SUBSET Validators /\ C \in SUBSET Validators /\ C \cap D = {}
    OBVIOUS
  <2> HIDE DEF C, D
  <2> QED BY <2>1, SessionAssumption, SMTT(30)
<1>3. S \cup D = S \cup T /\ C \cup D = T
  OBVIOUS
<1>4. Weight[S] \in Nat /\ Weight[C] \in Nat /\ Weight[D] \in Nat
  BY SessionAssumption
<1>5. Weight[S \cup T] = Weight[S] + Weight[D] /\ Weight[T] = Weight[C] + Weight[D]
  BY <1>1, <1>2, <1>3, Zenon
<1> HIDE DEF D
<1> QED BY <1>4, <1>5

\* A larger set of validators has no less weight.
LEMMA Monotone ==
  ASSUME NEW T \in SUBSET Validators, NEW S \in SUBSET T
  PROVE  Weight[S] <= Weight[T] /\ Weight[S] \in Nat /\ Weight[T] \in Nat
<1>1. Weight[S \cup (T \ S)] = Weight[S] + Weight[T \ S]
  <2>1. S \in SUBSET Validators /\ T \ S \in SUBSET Validators /\ S \cap (T \ S) = {}
    OBVIOUS
  <2> QED BY <2>1, SessionAssumption
<1>2. S \cup (T \ S) = T
  OBVIOUS
<1>3. Weight[S] \in Nat /\ Weight[T \ S] \in Nat /\ Weight[T] \in Nat
  BY SessionAssumption
<1> QED BY <1>1, <1>2, <1>3

(* Two sets over the threshold of weight_threshold have more than a third of the
   weight in common.                                                            *)
LEMMA Quorums ==
  ASSUME NEW S \in SUBSET Validators, NEW T \in SUBSET Validators, NEW B \in SUBSET Validators,
         Weight[S] >= weight_threshold, Weight[T] >= weight_threshold,
         3 * Weight[B] <= Weight[Validators], S \cap T \subseteq B
  PROVE  FALSE
<1>1. Weight[S] + Weight[T] = Weight[S \cup T] + Weight[S \cap T]
  BY Overlap
<1>2. Weight[S \cup T] <= Weight[Validators] /\ Weight[S \cup T] \in Nat /\ Weight[Validators] \in Nat
  BY Monotone
<1>3. Weight[S \cap T] <= Weight[B] /\ Weight[S \cap T] \in Nat /\ Weight[B] \in Nat
  BY Monotone
<1>4. Weight[S] \in Nat /\ Weight[T] \in Nat
  BY Monotone
<1>5. 3 * weight_threshold > 2 * Weight[Validators] /\ weight_threshold \in Nat
  BY <1>2 DEF weight_threshold
<1> QED BY <1>1, <1>2, <1>3, <1>4, <1>5

\* The invariant implies agreement.
LEMMA Agreement == IInv => OneBlock
<1> SUFFICES ASSUME IInv, NEW x \in complete, NEW y \in complete, x.seqno = y.seqno, x.block # y.block,
                    3 * Weight[Faulty \cup Forgetful(x.seqno)] <= Weight[Validators]
             PROVE  FALSE
  BY DEF OneBlock
<1> DEFINE B == Faulty \cup Forgetful(x.seqno)
<1>1. x.signatures \cap y.signatures \subseteq B
  BY DEF IInv, CompleteGood, TreeGood, Backed, Forgetful
<1>2. B \in SUBSET Validators
  BY DEF Forgetful, Validators
<1> QED BY <1>1, <1>2, Quorums DEF IInv, CompleteGood
-----------------------------------------------------------------------------
\* A task that was not started is good.
LEMMA NewGood ==
  ASSUME NEW sg, NEW n \in Nodes, NEW s, NEW b
  PROVE  Good(sg, n, s, b, NewTask(n))
<1> DEFINE t == NewTask(n)
           f == [p \in Peers(n) |-> "none"]
<1>1. Empty(n) \in Slot(n) /\ f \in [Peers(n) -> Futs] /\ \A p \in Peers(n) : Empty(n)[p] = None /\ f[p] = "none"
  BY DEF Empty, Slot, Futs
<1>2. t = [pc |-> "idle", slot |-> Empty(n), cache |-> FALSE, cancelled |-> FALSE, fut |-> f, result |-> {}]
  BY Zenon DEF NewTask
<1> HIDE DEF f, t
<1>3. t \in Tasks(n) /\ t.slot = Empty(n) /\ t.fut = f /\ t.result = {}
  BY <1>1, <1>2 DEF Tasks, Pcs, Futs
<1> QED BY <1>1, <1>3 DEF Good, t

\* What nodes have signed only grows.
LEMMA GoodGrows ==
  ASSUME NEW sg, NEW sh, NEW n \in Nodes, NEW s, NEW b, NEW t, Good(sg, n, s, b, t),
         \A p \in Nodes : sg[p][s] \subseteq sh[p][s]
  PROVE  Good(sh, n, s, b, t)
BY DEF Good, Backed

\* The end of a task, a step of one future that is no "done", a pc.
LEMMA EndGood ==
  ASSUME NEW sg, NEW n \in Nodes, NEW s, NEW b, NEW t, Good(sg, n, s, b, t), NEW pc \in Pcs
  PROVE  Good(sg, n, s, b, End(t, pc))
<1> DEFINE u == End(t, pc)
           f == [p \in DOMAIN t.fut |-> "none"]
<1>1. t \in Tasks(n) /\ DOMAIN t.fut = Peers(n)
  BY DEF Good, Tasks
<1>2. f \in [Peers(n) -> Futs] /\ \A p \in Peers(n) : f[p] = "none"
  BY <1>1 DEF Futs
<1>3. u = [t EXCEPT !.pc = pc, !.fut = f, !.result = {}, !.cancelled = FALSE]
  BY Zenon DEF End
<1> HIDE DEF f, u
<1>4. u \in Tasks(n) /\ u.slot = t.slot /\ u.fut = f /\ u.result = {}
  BY <1>1, <1>2, <1>3, Zenon DEF Tasks
<1> QED BY <1>2, <1>4 DEF Good, u

LEMMA FutGood ==
  ASSUME NEW sg, NEW n \in Nodes, NEW s, NEW b, NEW t, Good(sg, n, s, b, t), NEW p \in Peers(n),
         NEW f \in Futs, f # "none" => t.fut[p] # "none", f = "done" => Backed(sg, s, b, p)
  PROVE  Good(sg, n, s, b, [t EXCEPT !.fut[p] = f])
BY DEF Good, Tasks

\* add_signature fills a slot with a signature of a peer that has signed.
LEMMA FillGood ==
  ASSUME NEW sg, NEW n \in Nodes, NEW s, NEW b, NEW t, Good(sg, n, s, b, t), NEW p \in Peers(n),
         NEW sig \in Signatures, Backed(sg, s, b, p)
  PROVE  Good(sg, n, s, b, Fill(t, p, sig))
<1> DEFINE u == Fill(t, p, sig)
           r == [t.slot EXCEPT ![p] = sig]
           f == [t.fut EXCEPT ![p] = IF @ \in {"ask", "query"} THEN "done" ELSE @]
<1>1. t \in Tasks(n) /\ t.slot \in Slot(n) /\ t.fut \in [Peers(n) -> Futs]
  BY DEF Good, Tasks
<1>2. r \in Slot(n) /\ f \in [Peers(n) -> Futs]
  BY <1>1 DEF Slot, Futs
<1>3. \A q \in Peers(n) : q # p => r[q] = t.slot[q] /\ f[q] = t.fut[q]
  BY <1>1 DEF Slot
<1>4. f[p] # "none" => t.fut[p] # "none"
  BY <1>1
<1>5. u = [t EXCEPT !.slot = r, !.fut = f]
  BY <1>1 DEF Fill, Tasks
<1> HIDE DEF f, r, u
<1>6. u \in Tasks(n) /\ u.slot = r /\ u.fut = f /\ u.result = t.result
  BY <1>1, <1>2, <1>5, Zenon DEF Tasks
<1> QED BY <1>3, <1>4, <1>6 DEF Good, u

LEMMA AddFromGood ==
  ASSUME NEW sg, NEW n \in Nodes, NEW s, NEW b, NEW t, Good(sg, n, s, b, t), NEW p \in Peers(n),
         NEW sig \in Signatures, Backed(sg, s, sig[1], p)
  PROVE  Good(sg, n, s, b, AddFrom(n, t, p, sig, b))
BY FillGood DEF AddFrom, Verifies

LEMMA TakeGood ==
  ASSUME NEW sg, NEW n \in Nodes, NEW s, NEW b, NEW t, Good(sg, n, s, b, t), NEW p \in Peers(n),
         NEW sig \in Signatures, Backed(sg, s, sig[1], p), t.fut[p] = "query"
  PROVE  Good(sg, n, s, b, Take(t, p, sig, b))
<1>1. CASE Verifies(sig, b)
  BY <1>1, FillGood DEF Take, Verifies
<1>2. CASE ~Verifies(sig, b)
  <2> DEFINE u == [t EXCEPT !.fut[p] = "wrong"]
  <2>1. Good(sg, n, s, b, u)
    BY FutGood, Zenon DEF Futs
  <2>2. Take(t, p, sig, b) = u
    BY <1>2 DEF Take
  <2> HIDE DEF u
  <2> QED BY <2>1, <2>2
<1> QED BY <1>1, <1>2

\* Signatures of the cache that are over block b may be used for it.
LEMMA ReusedGood ==
  ASSUME NEW sg, NEW n \in Nodes, NEW s, NEW b, NEW c, SlotGood(sg, n, s, c)
  PROVE  /\ Reused(c, b) \in Slot(n)
         /\ \A p \in Peers(n) : Reused(c, b)[p] # None => Backed(sg, s, b, p)
BY DEF SlotGood, Reused, Slot, Verifies

LEMMA CachedForGood ==
  ASSUME CacheGood(signed, cached), NEW n \in Nodes, NEW s \in Seqnos
  PROVE  SlotGood(signed, n, s, CachedFor(n, s))
BY DEF CacheGood, CachedFor, Held, SlotGood, Empty, Slot

\* The slots of a block are filled from a slot of the cache.
LEMMA FilledGood ==
  ASSUME NEW sg, NEW n \in Nodes, NEW s, NEW b, NEW t, Good(sg, n, s, b, t), NEW c, SlotGood(sg, n, s, c)
  PROVE  /\ FilledFrom(t.slot, Reused(c, b)) \in Slot(n)
         /\ \A p \in Peers(n) : FilledFrom(t.slot, Reused(c, b))[p] # None => Backed(sg, s, b, p)
<1>1. /\ Reused(c, b) \in Slot(n)
      /\ \A p \in Peers(n) : Reused(c, b)[p] # None => Backed(sg, s, b, p)
  BY ReusedGood
<1>2. t.slot \in Slot(n) /\ \A p \in Peers(n) : t.slot[p] # None => Backed(sg, s, b, p)
  BY DEF Good, Tasks
<1> HIDE DEF Good, SlotGood, Backed
<1> QED BY <1>1, <1>2 DEF FilledFrom, Slot

\* One task changes.
LEMMA OneTask ==
  ASSUME NEW sg, NEW tk, TasksGood(sg, tk), NEW n \in Nodes, NEW s \in Seqnos, NEW b \in Blocks, NEW t,
         Good(sg, n, s, b, t)
  PROVE  TasksGood(sg, [tk EXCEPT ![n][<<s, b>>] = t])
BY DEF TasksGood, Keys

\* What nodes have signed grows.
Grows(sg, sh) == \A p \in Nodes : \A s \in Seqnos : sg[p][s] \subseteq sh[p][s]

LEMMA AllGrows ==
  ASSUME NEW sg, NEW sh, Grows(sg, sh), NEW tk, NEW c, NEW cs
  PROVE  /\ TasksGood(sg, tk) => TasksGood(sh, tk)
         /\ CacheGood(sg, c) => CacheGood(sh, c)
         /\ CompleteGood(sg, cs) => CompleteGood(sh, cs)
<1>1. TasksGood(sg, tk) => TasksGood(sh, tk)
  BY GoodGrows DEF TasksGood, Grows
<1>2. CacheGood(sg, c) => CacheGood(sh, c)
  BY DEF CacheGood, SlotGood, Backed, Grows
<1>3. CompleteGood(sg, cs) => CompleteGood(sh, cs)
  BY DEF CompleteGood, Backed, Grows
<1> QED BY <1>1, <1>2, <1>3

\* A block is complete with signatures of those who have signed it.
LEMMA CollectedGood ==
  ASSUME NEW sg, NEW n \in Nodes, NEW s \in Seqnos, NEW b \in Blocks, NEW t, Good(sg, n, s, b, t),
         TasksGood(sg, task), CompleteGood(sg, complete), CollectedBy(n, s, b, t)
  PROVE  TasksGood(sg, task') /\ CompleteGood(sg, complete')
<1>1. CASE Weight[t.result] >= weight_threshold
  <2>1. task' = [task EXCEPT ![n][<<s, b>>] = End(t, "Complete")]
    BY <1>1 DEF CollectedBy
  <2>2. Good(sg, n, s, b, End(t, "Complete"))
    BY EndGood DEF Pcs
  <2>3. TasksGood(sg, task')
    BY <2>1, <2>2, OneTask, Zenon
  <2>4. complete' = complete \cup {[seqno |-> s, block |-> b, signatures |-> t.result]}
    BY <1>1 DEF CollectedBy
  <2>5. CompleteGood(sg, complete')
    BY <1>1, <2>4 DEF CompleteGood, Good, Tasks
  <2> QED BY <2>3, <2>5
<1>2. CASE ~(Weight[t.result] >= weight_threshold)
  <2>1. task' = [task EXCEPT ![n][<<s, b>>] = t] /\ complete' = complete
    BY <1>2 DEF CollectedBy
  <2> QED BY <2>1, OneTask, Zenon
<1> QED BY <1>1, <1>2

\* Empty slots are added to the cache, old ones removed.
LEMMA CacheFromGood ==
  ASSUME CacheGood(signed, cached), NEW n \in Nodes, NEW i, NEW from, NEW to
  PROVE  CacheGood(signed, [cached EXCEPT ![n] = CacheFrom(n, i, from, to)])
<1>1. \A s : SlotGood(signed, n, s, Empty(n))
  BY DEF SlotGood, Empty, Slot
<1> QED BY <1>1 DEF CacheGood, CacheFrom

LEMMA WithoutGood ==
  ASSUME NEW sg, NEW c, CacheGood(sg, c), NEW n \in Nodes, NEW K
  PROVE  CacheGood(sg, [c EXCEPT ![n] = Without(@, K)])
BY DEF CacheGood, Without

\* What exchange_signatures does to the node that is asked.
LEMMA AskedGood ==
  ASSUME TasksGood(signed, task), CacheGood(signed, cached), TreeGood,
         NEW p \in Nodes, NEW n \in Peers(p), NEW s \in Seqnos, NEW sig \in Signatures,
         Backed(signed, s, sig[1], n), Stores(p, n, s, sig)
  PROVE  TasksGood(signed, AfterAsked(p, n, s, sig)) /\ CacheGood(signed, cached')
<1>1. TasksGood(signed, AfterAsked(p, n, s, sig))
  <2>1. CASE ~Known(p, s)
    BY <2>1 DEF AfterAsked
  <2>2. CASE Known(p, s)
    <3> DEFINE b == tree[p][s]
               t == AddFrom(p, task[p][<<s, b>>], n, sig, b)
    <3>1. b \in Blocks
      BY <2>2 DEF TreeGood, Known
    <3>2. Good(signed, p, s, b, task[p][<<s, b>>])
      BY <3>1 DEF TasksGood
    <3>3. Good(signed, p, s, b, t)
      BY <3>2, AddFromGood
    <3>4. AfterAsked(p, n, s, sig) = [task EXCEPT ![p][<<s, b>>] = t]
      BY <2>2 DEF AfterAsked
    <3> HIDE DEF b, t
    <3>5. TasksGood(signed, [task EXCEPT ![p][<<s, b>>] = t])
      BY <3>1, <3>3, OneTask
    <3> QED BY <3>4, <3>5, Zenon
  <2> QED BY <2>1, <2>2
<1>2. CacheGood(signed, cached')
  <2>1. CASE Known(p, s) \/ ~Held(p, s)
    BY <2>1 DEF Stores
  <2>2. CASE ~(Known(p, s) \/ ~Held(p, s))
    <3> DEFINE k == <<SessionOf(s), s>>
               c == [cached[p][k] EXCEPT ![n] = sig]
    <3>1. cached' = [cached EXCEPT ![p][k][n] = sig] /\ k \in DOMAIN cached[p]
      BY <2>2 DEF Stores, Held
    <3>2. SlotGood(signed, p, s, c)
      BY <3>1, SMTT(30) DEF CacheGood, SlotGood, Slot
    <3>3. cached' = [cached EXCEPT ![p][k] = c]
      BY <3>1
    <3> HIDE DEF c
    <3>4. ASSUME NEW m \in Nodes, NEW r \in Seqnos, NEW i, <<i, r>> \in DOMAIN cached'[m]
          PROVE  SlotGood(signed, m, r, cached'[m][<<i, r>>])
      <4>1. CASE m = p /\ <<i, r>> = k
        BY <3>1, <3>2, <3>3, <4>1 DEF CacheGood
      <4>2. CASE ~(m = p /\ <<i, r>> = k)
        BY <3>1, <3>3, <3>4, <4>2 DEF CacheGood
      <4> QED BY <4>1, <4>2
    <3>5. DOMAIN cached' = Nodes
      BY <3>3 DEF CacheGood
    <3> QED BY <3>4, <3>5 DEF CacheGood
  <2> QED BY <2>1, <2>2
<1> QED BY <1>1, <1>2
-----------------------------------------------------------------------------
LEMMA InitIInv == Init => IInv
<1> SUFFICES ASSUME Init PROVE IInv
  OBVIOUS
<1>1. TasksGood(signed, task)
  BY NewGood DEF Init, TasksGood, Keys
<1>2. CacheGood(signed, cached)
  BY DEF Init, CacheGood
<1>3. CompleteGood(signed, complete)
  BY DEF Init, CompleteGood
<1>4. TreeGood
  BY DEF Init, TreeGood
<1> QED BY <1>1, <1>2, <1>3, <1>4 DEF IInv

\* Most steps publish nothing and complete nothing.
LEMMA Quiet ==
  ASSUME IInv, UNCHANGED <<tree, signed, excused, complete>>, TasksGood(signed, task'), CacheGood(signed, cached')
  PROVE  IInv'
BY DEF IInv, TreeGood

LEMMA AddSessionStep ==
  ASSUME IInv, NEW n \in Nodes, NEW i \in Sessions, AddSession(n, i)
  PROVE  IInv'
<1>1. CacheGood(signed, cached')
  BY CacheFromGood, Zenon DEF IInv, AddSession
<1> QED BY <1>1, Quiet DEF IInv, AddSession, history

LEMMA ValidateBlockStep ==
  ASSUME IInv, NEW n \in Nodes, NEW s \in Seqnos, NEW b \in Blocks, ValidateBlock(n, s, b)
  PROVE  IInv'
<1> DEFINE t == task[n][<<s, b>>]
           r == Reused(CachedFor(n, s), b)
           u == [t EXCEPT !.pc = "prepared", !.cache = Held(n, s), !.slot = r]
<1>1. CacheGood(signed, cached')
  BY CacheFromGood, Zenon DEF IInv, ValidateBlock
<1>2. Good(signed, n, s, b, t)
  BY DEF IInv, TasksGood
<1>3. r \in Slot(n) /\ \A p \in Peers(n) : r[p] # None => Backed(signed, s, b, p)
  BY CachedForGood, ReusedGood DEF IInv
<1>4. Good(signed, n, s, b, u)
  <2>1. t \in Tasks(n)
    BY <1>2 DEF Good
  <2>2. Held(n, s) \in BOOLEAN
    BY DEF Held
  <2> HIDE DEF r, t
  <2>3. u \in Tasks(n) /\ u.slot = r /\ u.fut = t.fut /\ u.result = t.result
    BY <2>1, <2>2, <1>3, Zenon DEF Tasks, Pcs
  <2> HIDE DEF u
  <2> QED BY <1>2, <1>3, <2>3 DEF Good
<1>5. task' = [task EXCEPT ![n][<<s, b>>] = u]
  BY Zenon DEF ValidateBlock, IInv, TasksGood, Keys
<1>6. TasksGood(signed, task')
  <2> HIDE DEF u
  <2> QED BY <1>4, <1>5, OneTask, Zenon DEF IInv
<1> QED BY <1>1, <1>6, Quiet DEF ValidateBlock, history

LEMMA CollectStep ==
  ASSUME IInv, NEW n \in Nodes, NEW s \in Seqnos, NEW b \in Blocks, Collect(n, s, b)
  PROVE  IInv'
<1> DEFINE t == task[n][<<s, b>>]
<1>1. PICK p \in Peers(n) : t.fut[p] = "done" /\ CollectedBy(n, s, b, [t EXCEPT !.fut[p] = "none", !.result = @ \cup {p}])
  BY Zenon DEF Collect
<1> DEFINE u == [t EXCEPT !.fut[p] = "none", !.result = @ \cup {p}]
<1>2. Good(signed, n, s, b, t)
  BY DEF IInv, TasksGood
<1>3. Good(signed, n, s, b, u)
  <2> DEFINE f == [t.fut EXCEPT ![p] = "none"]
             r == t.result \cup {p}
  <2>1. t \in Tasks(n) /\ t.fut \in [Peers(n) -> Futs] /\ t.result \subseteq Validators
    BY <1>2 DEF Good, Tasks
  <2> HIDE DEF t
  <2>2. f \in [Peers(n) -> Futs] /\ f[p] = "none" /\ \A q \in Peers(n) : q # p => f[q] = t.fut[q]
    BY <2>1 DEF Futs
  <2>3. r \subseteq Validators /\ \A q \in r : Backed(signed, s, b, q)
    BY <1>1, <1>2, <2>1 DEF Good, Peers
  <2>4. u = [t EXCEPT !.fut = f, !.result = r]
    BY <2>1 DEF Tasks
  <2> HIDE DEF f, r, u
  <2>5. u \in Tasks(n) /\ u.slot = t.slot /\ u.fut = f /\ u.result = r
    BY <2>1, <2>2, <2>3, <2>4, Zenon DEF Tasks
  <2> QED BY <1>2, <2>2, <2>3, <2>5 DEF Good
<1>4. TasksGood(signed, task') /\ CompleteGood(signed, complete')
  BY <1>1, <1>3, CollectedGood DEF IInv
<1> QED BY <1>4 DEF IInv, TreeGood, Collect

LEMMA SkipStep ==
  ASSUME IInv, NEW n \in Nodes, NEW s \in Seqnos, NEW b \in Blocks, Skip(n, s, b)
  PROVE  IInv'
<1>1. Good(signed, n, s, b, End(task[n][<<s, b>>], "Skipped"))
  BY EndGood DEF IInv, TasksGood, Pcs
<1>2. task' = [task EXCEPT ![n][<<s, b>>] = End(task[n][<<s, b>>], "Skipped")]
  BY Zenon DEF Skip
<1>3. TasksGood(signed, task')
  BY <1>1, <1>2, OneTask, Zenon DEF IInv
<1> QED BY <1>3, Quiet DEF IInv, Skip, history

LEMMA FutStep ==
  ASSUME IInv, NEW n \in Nodes, NEW s \in Seqnos, NEW b \in Blocks, NEW p \in Peers(n),
         NEW from \in Futs, NEW to \in Futs, Fut(n, s, b, p, from, to), from # "none",
         to = "done" => task[n][<<s, b>>].slot[p] # None
  PROVE  IInv'
<1> DEFINE t == task[n][<<s, b>>]
<1>1. Good(signed, n, s, b, t)
  BY DEF IInv, TasksGood
<1>2. Good(signed, n, s, b, [t EXCEPT !.fut[p] = to])
  <2>1. to = "done" => Backed(signed, s, b, p)
    BY <1>1 DEF Good
  <2>2. t.fut[p] # "none"
    BY DEF Fut
  <2> HIDE DEF t
  <2> QED BY <1>1, <2>1, <2>2, FutGood
<1>3. task' = [task EXCEPT ![n][<<s, b>>] = [t EXCEPT !.fut[p] = to]]
  BY DEF Fut
<1>4. TasksGood(signed, task')
  BY <1>2, <1>3, OneTask, Zenon DEF IInv
<1> QED BY <1>4, Quiet DEF IInv, Fut, history

LEMMA InsertStep ==
  ASSUME IInv, NEW n \in Nodes, NEW s \in Seqnos, NEW b \in Blocks, Insert(n, s, b)
  PROVE  IInv'
<1> DEFINE t == task[n][<<s, b>>]
<1>1. CASE Known(n, s)
  <2> DEFINE u == [NewTask(n) EXCEPT !.pc = "Failed"]
  <2>1. Good(signed, n, s, b, u)
    <3>1. Good(signed, n, s, b, NewTask(n))
      BY NewGood
    <3> QED BY <3>1 DEF Good, Tasks, Pcs
  <2>2. task' = [task EXCEPT ![n][<<s, b>>] = u] /\ UNCHANGED <<cached, tree, signed, excused, complete>>
    BY <1>1 DEF Insert
  <2> HIDE DEF u
  <2>3. TasksGood(signed, task')
    BY <2>1, <2>2, OneTask, Zenon DEF IInv
  <2> QED BY <2>2, <2>3, Quiet DEF IInv
<1>2. CASE ~Known(n, s)
  <2> DEFINE slot == IF t.cache THEN FilledFrom(t.slot, Reused(CachedFor(n, s), b)) ELSE t.slot
             filled == Filled(t)
             fut == [p \in Peers(n) |-> IF t.slot[p] # None THEN "none"
                                       ELSE IF slot[p] # None THEN "done" ELSE "ask"]
             u == [t EXCEPT !.pc = "collect", !.cache = FALSE, !.slot = slot, !.result = {n} \cup filled,
                            !.fut = fut]
  <2>1. /\ tree' = [tree EXCEPT ![n] = [r \in DOMAIN @ \cup {s} |-> IF r = s THEN b ELSE @[r]]]
        /\ signed' = [signed EXCEPT ![n][s] = @ \cup {b}]
        /\ cached' = [cached EXCEPT ![n] = Without(@, {<<SessionOf(s), s>>})]
        /\ excused' = excused
    BY <1>2 DEF Insert
  <2>2. Grows(signed, signed') /\ Backed(signed', s, b, n)
    BY <2>1 DEF IInv, TreeGood, Grows, Backed
  <2>3. TasksGood(signed', task) /\ CacheGood(signed', cached) /\ CompleteGood(signed', complete)
    BY <2>2, AllGrows DEF IInv
  <2>4. Good(signed, n, s, b, t)
    BY DEF IInv, TasksGood
  <2>5. slot \in Slot(n) /\ \A p \in Peers(n) : slot[p] # None => Backed(signed, s, b, p)
    <3>1. SlotGood(signed, n, s, CachedFor(n, s))
      BY CachedForGood DEF IInv
    <3>2. CASE t.cache
      <4> HIDE DEF t
      <4> QED BY <2>4, <3>1, <3>2, FilledGood
    <3>3. CASE ~t.cache
      <4> HIDE DEF t
      <4> QED BY <2>4, <3>3 DEF Good, Tasks
    <3> QED BY <3>2, <3>3
  <2>6. \A p \in Peers(n) : Backed(signed, s, b, p) => Backed(signed', s, b, p)
    BY <2>2 DEF Grows, Backed
  <2>7. /\ filled \subseteq Peers(n) /\ filled \subseteq Validators
        /\ \A p \in filled : Backed(signed, s, b, p)
        /\ fut \in [Peers(n) -> Futs] /\ \A p \in Peers(n) : fut[p] = "done" => slot[p] # None
    <3>1. t.slot \in Slot(n) /\ \A p \in Peers(n) : t.slot[p] # None => Backed(signed, s, b, p)
      BY <2>4 DEF Good, Tasks
    <3> HIDE DEF t, slot
    <3> QED BY <3>1 DEF Peers, Futs, Filled, Slot
  <2>8. Good(signed', n, s, b, u)
    <3>1. t \in Tasks(n) /\ {n} \cup filled \subseteq Validators
      BY <2>4, <2>7, SMTT(30) DEF Good, Validators
    <3>2. \A p \in {n} \cup filled : Backed(signed', s, b, p)
      BY <2>2, <2>6, <2>7
    <3> HIDE DEF t, slot, filled, fut
    <3>3. u \in Tasks(n) /\ u.slot = slot /\ u.fut = fut /\ u.result = {n} \cup filled
      BY <2>5, <2>7, <3>1, Zenon DEF Tasks, Pcs
    <3> HIDE DEF u
    <3> QED BY <2>2, <2>5, <2>6, <2>7, <3>2, <3>3, SMTT(30) DEF Good
  <2>9. TasksGood(signed', task') /\ CompleteGood(signed', complete')
    <3>1. CASE SessionOf(s) \in cancelled[n]
      <4>1. task' = [task EXCEPT ![n][<<s, b>>] = End(u, "Skipped")] /\ complete' = complete
        BY <1>2, <3>1, Zenon DEF Insert, Started
      <4> HIDE DEF u
      <4>2. Good(signed', n, s, b, End(u, "Skipped"))
        BY <2>8, EndGood DEF Pcs
      <4> QED BY <2>3, <4>1, <4>2, OneTask, Zenon
    <3>2. CASE SessionOf(s) \notin cancelled[n]
      <4>1. CollectedBy(n, s, b, u)
        BY <1>2, <3>2, Zenon DEF Insert, Started
      <4> HIDE DEF u
      <4> QED BY <2>3, <2>8, <4>1, CollectedGood
    <3> QED BY <3>1, <3>2
  <2>10. CacheGood(signed', cached')
    BY <2>1, <2>3, WithoutGood, Zenon
  <2>11. TreeGood'
    BY <1>2, <2>1 DEF IInv, TreeGood, Known
  <2> QED BY <2>9, <2>10, <2>11 DEF IInv
<1> QED BY <1>1, <1>2

LEMMA ExchangeStep ==
  ASSUME IInv, NEW n \in Nodes, NEW s \in Seqnos, NEW b \in Blocks, NEW p \in Nodes \ {n},
         NEW delivered \in BOOLEAN, Exchange(n, s, b, p, delivered)
  PROVE  IInv'
<1> DEFINE A == AfterAsked(p, n, s, Sig(b))
           t == task[n][<<s, b>>]
<1>1. Good(signed, n, s, b, t) /\ t.fut[p] = "query" /\ p \in Peers(n) /\ n \in Peers(p)
  BY DEF IInv, TasksGood, Exchange, Peers, Validators
<1>2. Backed(signed, s, b, n)
  BY <1>1 DEF Good
<1>3. Sig(b) \in Signatures /\ Sig(b)[1] = b
  BY DEF Sig, Signatures
<1>4. TasksGood(signed, A) /\ CacheGood(signed, cached')
  BY <1>1, <1>2, <1>3, AskedGood DEF IInv, Exchange
<1>5. TasksGood(signed, task')
  <2>1. CASE ~delivered
    BY <1>4, <2>1 DEF Exchange
  <2>2. CASE delivered
    <3> DEFINE c == tree[p][s]
               u == Take(t, p, Sig(c), b)
    <3>1. Known(p, s) /\ c \in Blocks /\ Backed(signed, s, c, p)
      BY <2>2 DEF Exchange, Answered, IInv, TreeGood, Known, Backed
    <3>2. Sig(c) \in Signatures /\ Sig(c)[1] = c
      BY <3>1 DEF Sig, Signatures
    <3>3. Good(signed, n, s, b, u)
      <4> HIDE DEF c, t
      <4> QED BY <1>1, <3>1, <3>2, TakeGood
    <3>4. A[n][<<s, b>>] = t
      BY <1>1 DEF AfterAsked, IInv, TasksGood
    <3>5. task' = [A EXCEPT ![n][<<s, b>>] = Take(A[n][<<s, b>>], p, Sig(c), b)]
      <4>1. task' = [A EXCEPT ![n][<<s, b>>] = Take(@, p, Sig(c), b)]
        BY <2>2, Zenon DEF Exchange
      <4> QED BY <4>1
    <3>6. task' = [A EXCEPT ![n][<<s, b>>] = u]
      BY <3>4, <3>5, Zenon
    <3> HIDE DEF A, u
    <3> QED BY <1>4, <3>3, <3>6, OneTask, Zenon
  <2> QED BY <2>1, <2>2
<1> QED BY <1>4, <1>5, Quiet DEF Exchange, history

LEMMA FaultyAsksStep ==
  ASSUME IInv, NEW n \in Nodes, NEW s \in Seqnos, NEW p \in Faulty, NEW sig \in Signatures, FaultyAsks(p, n, s, sig)
  PROVE  IInv'
<1>1. p \in Peers(n) /\ Backed(signed, s, sig[1], p)
  BY SessionAssumption DEF Peers, Validators, Backed
<1>2. TasksGood(signed, task') /\ CacheGood(signed, cached')
  BY <1>1, AskedGood DEF IInv, FaultyAsks
<1> QED BY <1>2, Quiet DEF FaultyAsks, history

LEMMA FaultyAnswersStep ==
  ASSUME IInv, NEW n \in Nodes, NEW s \in Seqnos, NEW b \in Blocks, NEW p \in Faulty, NEW sig \in Signatures,
         FaultyAnswers(n, s, b, p, sig)
  PROVE  IInv'
<1> DEFINE u == Take(task[n][<<s, b>>], p, sig, b)
<1>1. p \in Peers(n) /\ Backed(signed, s, sig[1], p)
  BY SessionAssumption DEF Peers, Validators, Backed
<1>2. Good(signed, n, s, b, u)
  BY <1>1, TakeGood DEF IInv, TasksGood, FaultyAnswers
<1>3. task' = [task EXCEPT ![n][<<s, b>>] = u]
  BY DEF FaultyAnswers
<1>4. TasksGood(signed, task')
  <2> HIDE DEF u
  <2> QED BY <1>2, <1>3, OneTask, Zenon DEF IInv
<1> QED BY <1>4, Quiet DEF IInv, FaultyAnswers, history

LEMMA PruneStep == ASSUME IInv, Prune PROVE IInv'
<1>1. PICK q \in pruning :
        LET gone == {s \in DOMAIN tree[q.node] : SessionOf(s) = q.session /\ s <= q.until}
        IN  /\ tree' = [tree EXCEPT ![q.node] = Without(@, gone)]
            /\ excused' = [excused EXCEPT ![q.node] = @ \cup gone]
            /\ task' = [task EXCEPT ![q.node] =
                          [k \in Keys |-> IF k[1] \in gone THEN Dropped(q.node, @[k]) ELSE @[k]]]
            /\ UNCHANGED <<cached, signed, complete>>
  BY Zenon DEF Prune
<1> DEFINE m == q.node
           gone == {s \in DOMAIN tree[m] : SessionOf(s) = q.session /\ s <= q.until}
<1>2. TreeGood'
  BY <1>1 DEF IInv, TreeGood, Without
<1>3. ASSUME NEW n \in Nodes, NEW s \in Seqnos, NEW b \in Blocks, NEW t, Good(signed, n, s, b, t)
      PROVE  Good(signed, n, s, b, Dropped(n, t))
  <2> DEFINE u == [NewTask(n) EXCEPT !.pc = t.pc]
  <2>1. Good(signed, n, s, b, NewTask(n))
    BY NewGood
  <2>2. Good(signed, n, s, b, u)
    BY <1>3, <2>1 DEF Good, Tasks
  <2>3. Dropped(n, t) \in {t, u}
    BY DEF Dropped
  <2> HIDE DEF u
  <2> QED BY <1>3, <2>2, <2>3
<1>4. TasksGood(signed, task')
  <2>1. DOMAIN task' = Nodes /\ \A n \in Nodes : DOMAIN task'[n] = Keys
    BY <1>1, SMTT(30) DEF IInv, TasksGood
  <2>2. ASSUME NEW n \in Nodes, NEW s \in Seqnos, NEW b \in Blocks
        PROVE  Good(signed, n, s, b, task'[n][<<s, b>>])
    <3>1. Good(signed, n, s, b, task[n][<<s, b>>]) /\ <<s, b>> \in Keys
      BY SMTT(30) DEF IInv, TasksGood, Keys
    <3>2. task'[n][<<s, b>>] \in {task[n][<<s, b>>], Dropped(n, task[n][<<s, b>>])}
      BY <1>1, <3>1 DEF IInv, TasksGood
    <3> QED BY <1>3, <3>1, <3>2
  <2> QED BY <2>1, <2>2, SMTT(30) DEF TasksGood
<1> QED BY <1>1, <1>2, <1>4 DEF IInv

LEMMA RestartStep == ASSUME IInv, NEW n \in Nodes, Restart(n) PROVE IInv'
<1>1. TasksGood(signed, task')
  <2>1. task' = [task EXCEPT ![n] = [k \in Keys |-> NewTask(n)]]
    BY DEF Restart
  <2>2. \A s \in Seqnos, b \in Blocks : <<s, b>> \in Keys /\ Good(signed, n, s, b, NewTask(n))
    BY NewGood DEF Keys
  <2> QED BY <2>1, <2>2 DEF IInv, TasksGood
<1>2. CacheGood(signed, cached')
  BY SMTT(30) DEF IInv, CacheGood, Restart
<1>3. TreeGood'
  BY DEF IInv, TreeGood, Restart
<1> QED BY <1>1, <1>2, <1>3 DEF IInv, Restart

LEMMA CancelValidationStep ==
  ASSUME IInv, NEW n \in Nodes, NEW u, CancelValidation(n, u)
  PROVE  IInv'
<1>1. ASSUME NEW s \in Seqnos, NEW b \in Blocks, NEW t, Good(signed, n, s, b, t)
      PROVE  Good(signed, n, s, b, CutOff(n, <<s, b>>, t))
  <2> DEFINE c == t.cancelled \/ (Known(n, s) /\ tree[n][s] = b /\ t.pc = "collect")
             slot == IF t.cache THEN FilledFrom(t.slot, Reused(CachedFor(n, s), b)) ELSE t.slot
             v == [t EXCEPT !.cancelled = c, !.slot = slot, !.cache = FALSE]
  <2>1. t \in Tasks(n) /\ c \in BOOLEAN
    BY <1>1 DEF Good, Tasks
  <2>2. slot \in Slot(n) /\ \A p \in Peers(n) : slot[p] # None => Backed(signed, s, b, p)
    <3>1. SlotGood(signed, n, s, CachedFor(n, s))
      BY CachedForGood DEF IInv
    <3>2. CASE t.cache
      BY <1>1, <3>1, <3>2, FilledGood
    <3>3. CASE ~t.cache
      BY <1>1, <3>3 DEF Good, Tasks
    <3> QED BY <3>2, <3>3
  <2>3. CutOff(n, <<s, b>>, t) = v
    BY <2>1 DEF CutOff, Tasks
  <2> HIDE DEF c, slot
  <2>4. v \in Tasks(n) /\ v.slot = slot /\ v.fut = t.fut /\ v.result = t.result
    BY <2>1, <2>2, Zenon DEF Tasks
  <2> HIDE DEF v
  <2> QED BY <1>1, <2>2, <2>3, <2>4 DEF Good
<1>2. \A s \in Seqnos, b \in Blocks :
        /\ <<s, b>> \in Keys
        /\ Good(signed, n, s, b, task[n][<<s, b>>])
        /\ Good(signed, n, s, b, CutOff(n, <<s, b>>, task[n][<<s, b>>]))
  BY <1>1 DEF IInv, TasksGood, Keys
<1> DEFINE found == {i \in sessions[n] : Start[i] <= u}
           i == CHOOSE j \in found : \A k \in found : k <= j
           slots == {k \in DOMAIN cached[n] : k[1] = i /\ k[2] <= u}
           hit(k) == SessionOf(k[1]) = i /\ k[1] <= u
<1>3. CASE found = {}
  BY <1>3, Quiet DEF IInv, CancelValidation
<1>4. CASE found # {}
  <2>1. /\ cached' = [cached EXCEPT ![n] = Without(@, slots)]
        /\ task' = [task EXCEPT ![n] = [k \in Keys |-> IF hit(k) THEN CutOff(n, k, @[k]) ELSE @[k]]]
        /\ UNCHANGED <<tree, signed, excused, complete>>
    BY <1>4, Zenon DEF CancelValidation
  <2>2. CacheGood(signed, cached')
    <3> HIDE DEF slots
    <3> QED BY <2>1, WithoutGood, Zenon DEF IInv
  <2>3. TasksGood(signed, task')
    <3> HIDE DEF hit
    <3> QED BY <1>2, <2>1 DEF IInv, TasksGood
  <2> QED BY <2>1, <2>2, <2>3, Quiet
<1> QED BY <1>3, <1>4, SMTT(30)
-----------------------------------------------------------------------------
LEMMA NextIInv == IInv /\ [Next]_vars => IInv'
<1> SUFFICES ASSUME IInv, [Next]_vars PROVE IInv'
  OBVIOUS
<1>1. CASE UNCHANGED vars
  BY <1>1, Quiet DEF vars, history, IInv
<1>2. ASSUME NEW n \in Nodes, NEW i \in Sessions, AddSession(n, i) PROVE IInv'
  BY <1>2, AddSessionStep
<1>3. ASSUME NEW n \in Nodes, NEW u \in Received, CancelValidation(n, u) PROVE IInv'
  BY <1>3, CancelValidationStep
<1>4. ASSUME NEW n \in Nodes, Restart(n) PROVE IInv'
  BY <1>4, RestartStep
<1>5. ASSUME NEW n \in Nodes, NEW s \in Seqnos, NEW b \in Proposals[n], TaskStep(n, s, b) PROVE IInv'
  <2>1. b \in Blocks
    BY SessionAssumption
  <2> QED BY <1>5, <2>1, ValidateBlockStep, InsertStep, CollectStep, SkipStep DEF TaskStep
<1>6. ASSUME NEW n \in Nodes, NEW s \in Seqnos, NEW b \in Proposals[n], NEW p \in Peers(n), QueryStep(n, s, b, p)
      PROVE  IInv'
  <2>1. b \in Blocks
    BY SessionAssumption
  <2>2. CASE Ask(n, s, b, p)
    BY <2>1, <2>2, FutStep DEF Ask, Futs
  <2>3. CASE AskAgain(n, s, b, p)
    BY <2>1, <2>3, FutStep, Zenon DEF AskAgain, Futs
  <2>4. CASE Retry(n, s, b, p)
    <3>1. CASE task[n][<<s, b>>].slot[p] = None
      BY <2>1, <2>4, <3>1, FutStep DEF Retry, Futs
    <3>2. CASE task[n][<<s, b>>].slot[p] # None
      BY <2>1, <2>4, <3>2, FutStep DEF Retry, Futs
    <3> QED BY <3>1, <3>2
  <2> QED BY <1>6, <2>2, <2>3, <2>4 DEF QueryStep
<1>7. ASSUME NEW n \in Nodes, NEW s \in Seqnos, NEW b \in Proposals[n], NEW p \in Nodes \ {n},
             NEW delivered \in BOOLEAN, Exchange(n, s, b, p, delivered)
      PROVE  IInv'
  <2>1. b \in Blocks
    BY SessionAssumption
  <2> QED BY <1>7, <2>1, ExchangeStep
<1>8. ASSUME NEW p \in Faulty, FaultyStep(p) PROVE IInv'
  <2>0. PICK n \in Nodes : \E s \in Seqnos, sig \in FaultySigs[n] :
          FaultyAsks(p, n, s, sig) \/ \E b \in Proposals[n] : FaultyAnswers(n, s, b, p, sig)
    BY <1>8 DEF FaultyStep
  <2>1. PICK s \in Seqnos, sig \in FaultySigs[n] :
          FaultyAsks(p, n, s, sig) \/ \E b \in Proposals[n] : FaultyAnswers(n, s, b, p, sig)
    BY <2>0
  <2>2. sig \in Signatures /\ Proposals[n] \subseteq Blocks
    BY SessionAssumption
  <2> QED BY <2>1, <2>2, FaultyAsksStep, FaultyAnswersStep
<1>9. CASE Prune
  BY <1>9, PruneStep
<1> QED BY <1>1, <1>2, <1>3, <1>4, <1>5, <1>6, <1>7, <1>8, <1>9, Zenon DEF Next

(* Agreement of the validators of a session: validate_block never completes for two
   blocks of a seqno, whatever faulty validators send, as long as those and the nodes
   that forgot what they had signed have at most a third of the weight.         *)
THEOREM SessionAgreement == Spec => []OneBlock
<1>1. Init => IInv
  BY InitIInv
<1>2. IInv /\ [Next]_vars => IInv'
  BY NextIInv
<1>3. IInv => OneBlock
  BY Agreement
<1> QED BY <1>1, <1>2, <1>3, PTL DEF Spec
=============================================================================
