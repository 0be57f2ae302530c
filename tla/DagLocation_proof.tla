------------------------- MODULE DagLocation_proof -------------------------
(* Proofs about DagLocation for every set of versions, every set of verdicts and
   any number of restarts, resets of the stored statuses among them.  The inductive invariant says which version owns each
   of the two locks (Owner), that what a version owns is stored before anybody
   can rely on it (Stored), and how far the decision to sign has gone (Signing). *)
EXTENDS DagLocation, TLAPS

Held == {"store", "resolve", "count", "done"}

\* Flags of a version that passed acquire and ownership of the locks agree.
Owner ==
  \A d \in Versions :
    /\ status[d].first_resolved /\ future[d] \in Held => resolved.digest = d
    /\ resolved.digest = d => /\ status[d].first_resolved
                              /\ future[d] \in Held
                              /\ resolved.kind = IF status[d].kind = "Valid" THEN "Valid"
                                                                            ELSE "NotValid"
    /\ status[d].first_valid /\ future[d] \in Held => valid = d
    /\ valid = d => /\ status[d].first_valid /\ status[d].kind = "Valid"
                    /\ future[d] \in Held
    /\ status[d].first_resolved /\ status[d].kind = "Valid" /\ future[d] \in Held
          => status[d].first_valid
    /\ future[d] = "acquire_valid"
          => ~status[d].first_resolved /\ ~status[d].first_valid /\ status[d].kind = "Valid"
    /\ future[d] = "acquire_valid" => resolved.kind # "Unset"
    /\ future[d] = "count" => status[d].first_valid

\* Flags in the database belong to the owners; a task that has not come to its
\* SetStatus finds no flags there, one that has finds its own status.
Stored ==
  \A d \in Versions :
    /\ db[d].first_resolved => resolved.digest = d
    /\ db[d].first_valid => valid = d
    /\ future[d] \in {"none", "pending", "acquire_valid", "store"} => db[d] \in {NoStatus, Exists}
    /\ future[d] \in {"resolve", "count"} => db[d] = status[d]
    /\ future[d] = "done" => db[d] = status[d] \/ (db[d] = Exists /\ status[d] = NoStatus)
    /\ db[d].first_resolved /\ db[d].kind = "Valid" => db[d].first_valid
    /\ db[d].first_valid => db[d].kind = "Valid"

\* A point with status Exists can be read; else preload_points panics on every run,
\* and no flags are left to lose.
Readable ==
  \/ \A d \in Versions : db[d] = Exists => d \in points
  \/ \A d \in Versions : future[d] = "panic" /\ db[d] \in {NoStatus, Exists}

Digests ==
  /\ resolved.kind \in {"Unset", "Closed"} <=> resolved.digest = NoVersion
  /\ resolved.kind = "Valid" => valid = resolved.digest
  /\ counted \subseteq {valid} /\ \A d \in counted : db[d].first_valid
  /\ resets = 0 => included \subseteq {valid} /\ \A d \in included : db[d].first_valid

Signing ==
  /\ signable # "unset" => resolved.kind = "Valid"
  /\ signature # "unset" => signable = "resolved"
  /\ signable = "resolved" => /\ db[resolved.digest].first_resolved
                              /\ db[resolved.digest].kind = "Valid"
  /\ \A d \in handed : db[d].first_resolved /\ db[d].kind = "Valid"

\* No request is answered any more with a head older than a restart @ r+2.
Decided ==
  /\ since = 2 => signature # "signed"
  /\ 2 \in made => /\ at = 2
                   /\ \/ included # {} \/ since = 2
                      \/ resolved.kind \in {"NotValid", "Closed"}
                      \/ signable = "rejected" \/ signature = "rejected"
                      \/ signature = "signed" /\ witnessed = {resolved.digest}

\* Before the first restart `valid` is never initialised without `resolved`.
InOrder == restarts = 0 => /\ valid # NoVersion => resolved.kind # "Unset"
                           /\ NoPanic /\ resets = 0

IInv == TypeOK /\ Owner /\ Stored /\ Readable /\ Digests /\ Signing /\ Decided /\ InOrder
-----------------------------------------------------------------------------
(* A location with no versions satisfies the invariant.                        *)
LEMMA InitInv == Init => IInv
  BY NoVersionAssumption, RestartsAssumption
  DEF Init, IInv, TypeOK, Owner, Stored, Readable, Digests, Signing, Decided, InOrder, NoPanic, Unset, NoStatus, Exists, Kinds, Held

\* Nothing is flagged, nothing is signed.
Fresh ==
  /\ resolved = Unset /\ valid = NoVersion
  /\ signable = "unset" /\ signature = "unset" /\ counted = {} /\ handed = {}
  /\ restarts # 0 /\ resets # 0 /\ at = since /\ (2 \in made => at = 2)
  /\ \A d \in Versions : /\ db[d] \in {NoStatus, Exists} /\ status[d] = NoStatus
                         /\ future[d] = "done" => db[d] = Exists
                         /\ future[d] \in {"none", "pending", "done", "panic"}

(* A run that resets the statuses starts with open locks and nothing signed.    *)
LEMMA Recovered ==
  ASSUME TypeOK, NEW failed \in SUBSET Versions, Recover(failed)
  PROVE  Fresh' /\ UNCHANGED <<made, included, witnessed>>
<1> USE NoVersionAssumption, RestartsAssumption DEF Recover, PreRun, ResetStatuses, FlaggedFirst, FlaggedValid, TypeOK, Unset, NoStatus, Exists
<1>1. \A d \in Versions : /\ db'[d] \in {NoStatus, Exists} /\ status'[d] = NoStatus
                          /\ ~ResetStatuses[d].first_resolved /\ ~ResetStatuses[d].first_valid
  OBVIOUS
<1>2. \A d \in Versions : /\ future'[d] = "done" => db'[d] = Exists
                          /\ future'[d] \in {"none", "pending", "done", "panic"}
  BY <1>1
<1>3. FlaggedFirst(ResetStatuses) = {} /\ FlaggedValid(ResetStatuses) = {}
  BY <1>1
<1>4. /\ resolved' = Unset /\ valid' = NoVersion
      /\ signable' = "unset" /\ signature' = "unset" /\ counted' = {} /\ handed' = {}
      /\ restarts' # 0 /\ resets' # 0 /\ at' = since' /\ UNCHANGED <<made, included, witnessed>>
  BY <1>3
<1>5. 2 \in made' => at' = 2
  BY DEF StartRounds
<1> HIDE DEF Recover, PreRun, TypeOK, Unset, NoStatus, Exists
<1> QED BY <1>1, <1>2, <1>4, <1>5 DEF Fresh

(* Types are preserved by every step. *)
LEMMA TypeStep == ASSUME TypeOK, Digests, Signing, [Next]_vars PROVE TypeOK'
<1> USE NoVersionAssumption, VerdictsAssumption, RestartsAssumption DEF memory, tasks, disk, engine, past, TypeOK, Kinds, Digests, Signing, Unset, NoStatus, Exists
<1>1. ASSUME NEW d \in Versions, AddVersion(d) PROVE TypeOK'
  BY <1>1 DEF AddVersion, Goto
<1>2. ASSUME NEW d \in Versions, InsertPoint(d) PROVE TypeOK'
  <2>1. Exists \in [kind : Kinds, first_resolved : BOOLEAN, first_valid : BOOLEAN]
    OBVIOUS
  <2>2. db' = [db EXCEPT ![d] = Exists] /\ points' = points \cup {d}
    BY <1>2 DEF InsertPoint
  <2> HIDE DEF Exists, Kinds, Digests, Signing
  <2> QED BY <1>2, <2>1, <2>2 DEF InsertPoint
<1>3. ASSUME NEW d \in Versions, NEW kind \in Verdicts, Acquire(d, kind) PROVE TypeOK'
  <2>1. PICK r \in [kind : Kinds, first_resolved : BOOLEAN, first_valid : BOOLEAN] :
            status' = [status EXCEPT ![d] = r]
    <3>1. CASE resolved = Unset
      <4>1. [kind |-> kind, first_resolved |-> TRUE, first_valid |-> kind = "Valid" /\ valid = NoVersion]
               \in [kind : Kinds, first_resolved : BOOLEAN, first_valid : BOOLEAN]
        OBVIOUS
      <4> QED BY <1>3, <3>1, <4>1, Zenon DEF Acquire
    <3>2. CASE resolved # Unset
      <4>1. [NoStatus EXCEPT !.kind = kind]
               \in [kind : Kinds, first_resolved : BOOLEAN, first_valid : BOOLEAN]
        OBVIOUS
      <4> QED BY <1>3, <3>2, <4>1 DEF Acquire
    <3> QED BY <3>1, <3>2
  <2>2. status' \in [Versions -> [kind : Kinds, first_resolved : BOOLEAN, first_valid : BOOLEAN]]
    BY <2>1
  <2>3. /\ future' \in [Versions -> {"none", "pending", "acquire_valid", "store", "resolve",
                                    "count", "done", "panic"}]
        /\ valid' \in Versions \cup {NoVersion}
    <3> HIDE DEF Digests, Signing
    <3> QED BY <1>3 DEF Acquire, Goto
  <2>4. resolved' \in [kind : {"Unset", "Valid", "NotValid", "Closed"},
                       digest : Versions \cup {NoVersion}]
    BY <1>3 DEF Acquire
  <2>5. UNCHANGED <<signable, signature, counted, disk, engine, past>>
    BY <1>3 DEF Acquire
  <2> QED BY <2>2, <2>3, <2>4, <2>5
<1>4. ASSUME NEW d \in Versions, AcquireValid(d) PROVE TypeOK'
  <2>1. [kind |-> "Valid", first_resolved |-> FALSE, first_valid |-> TRUE]
            \in [kind : Kinds, first_resolved : BOOLEAN, first_valid : BOOLEAN]
    OBVIOUS
  <2>2. status' \in [Versions -> [kind : Kinds, first_resolved : BOOLEAN, first_valid : BOOLEAN]]
    <3>1. CASE valid = NoVersion
      <4>1. status' = [status EXCEPT ![d] = [kind |-> "Valid", first_resolved |-> FALSE,
                                             first_valid |-> TRUE]]
        BY <1>4, <3>1 DEF AcquireValid
      <4> QED BY <2>1, <4>1
    <3>2. CASE valid # NoVersion
      BY <1>4, <3>2 DEF AcquireValid
    <3> QED BY <3>1, <3>2
  <2>3. future' = [future EXCEPT ![d] = "store"] /\ valid' \in {valid, d}
    BY <1>4 DEF AcquireValid, Goto
  <2> QED BY <1>4, <2>2, <2>3 DEF AcquireValid
<1>5. ASSUME NEW d \in Versions, SetStatus(d) PROVE TypeOK'
  BY <1>5 DEF SetStatus, Goto
<1>6. ASSUME NEW d \in Versions, Resolve(d) PROVE TypeOK'
  BY <1>6 DEF Resolve, ResolvePanics, Goto
<1>7. ASSUME NEW d \in Versions, Count(d) PROVE TypeOK'
  BY <1>7 DEF Count, Goto
<1>8. ASSUME NEW a \in {0, 1}, NEW keyed \in BOOLEAN, Sign(a, keyed) PROVE TypeOK'
  BY <1>8 DEF Sign
<1>9. ASSUME AdvanceRound PROVE TypeOK'
  BY <1>9 DEF AdvanceRound
<1>10. ASSUME ProduceIncludes PROVE TypeOK'
  BY <1>10 DEF ProduceIncludes
<1>11. ASSUME ProduceWitness PROVE TypeOK'
  BY <1>11 DEF ProduceWitness, GetOrReject
<1>12. ASSUME NEW failed \in SUBSET Versions, Restart(failed) PROVE TypeOK'
  <2>1. at' \in 0..2 /\ since' \in 0..2
    BY <1>12 DEF Restart, PreRun, StartRounds
  <2>2. /\ resolved' \in [kind : {"Unset", "Valid", "NotValid", "Closed"},
                          digest : Versions \cup {NoVersion}]
        /\ valid' \in Versions \cup {NoVersion} /\ restarts' \in 0..MaxRestarts
        /\ signable' \in {"unset", "resolved"} /\ signature' = "unset"
    BY <1>12 DEF Restart, PreRun, FlaggedFirst, FlaggedValid
  <2>3. counted' \subseteq Versions /\ UNCHANGED <<disk, made, included, witnessed, handed, resets>>
    BY <1>12 DEF Restart, PreRun, FlaggedValid
  <2>4. status' \in [Versions -> [kind : Kinds, first_resolved : BOOLEAN, first_valid : BOOLEAN]]
    BY <1>12 DEF Restart, PreRun
  <2>5. future' \in [Versions -> {"none", "pending", "acquire_valid", "store", "resolve",
                                 "count", "done", "panic"}]
    BY <1>12 DEF Restart, PreRun
  <2> QED BY <2>1, <2>2, <2>3, <2>4, <2>5
<1>13. CASE UNCHANGED vars
  BY <1>13 DEF vars
<1>14. ASSUME NEW failed \in SUBSET Versions, Recover(failed) PROVE TypeOK'
  <2>1. at' \in 0..2 /\ since' \in 0..2
    BY <1>14 DEF Recover, PreRun, StartRounds
  <2>2. db' \in [Versions -> {NoStatus, Exists}]
    BY <1>14 DEF Recover, PreRun, ResetStatuses
  <2>3. /\ resolved' = Unset /\ valid' = NoVersion /\ restarts' \in 0..MaxRestarts
        /\ signable' = "unset" /\ signature' = "unset" /\ counted' = {}
        /\ handed' = {} /\ resets' = resets + 1 /\ UNCHANGED <<points, made, included, witnessed>>
    BY <1>14 DEF Recover, PreRun, ResetStatuses, FlaggedFirst, FlaggedValid
  <2>4. status' = [d \in Versions |-> NoStatus]
    BY <1>14 DEF Recover, PreRun, ResetStatuses
  <2>5. future' \in [Versions -> {"none", "pending", "done", "panic"}]
    BY <1>14 DEF Recover, PreRun
  <2>6. /\ NoStatus \in [kind : Kinds, first_resolved : BOOLEAN, first_valid : BOOLEAN]
        /\ Exists \in [kind : Kinds, first_resolved : BOOLEAN, first_valid : BOOLEAN]
    OBVIOUS
  <2>7. /\ status' \in [Versions -> [kind : Kinds, first_resolved : BOOLEAN, first_valid : BOOLEAN]]
        /\ db' \in [Versions -> [kind : Kinds, first_resolved : BOOLEAN, first_valid : BOOLEAN]]
    <3> HIDE DEF Kinds, NoStatus, Exists
    <3> QED BY <2>2, <2>4, <2>6
  <2>8. /\ resolved' \in [kind : {"Unset", "Valid", "NotValid", "Closed"},
                          digest : Versions \cup {NoVersion}]
        /\ future' \in [Versions -> {"none", "pending", "acquire_valid", "store", "resolve",
                                    "count", "done", "panic"}]
    BY <2>3, <2>5
  <2> QED BY <2>1, <2>3, <2>7, <2>8
<1> HIDE DEF TypeOK, Kinds, Digests, Signing, Unset, NoStatus, Exists
<1> QED BY <1>1, <1>2, <1>3, <1>4, <1>5, <1>6, <1>7, <1>8, <1>9, <1>10, <1>11, <1>12, <1>13, <1>14 DEF Next

(* Only the version that initialises a lock gets its flag. *)
LEMMA OwnerStep == ASSUME TypeOK, TypeOK', Owner, Stored, Readable, Digests, [Next]_vars PROVE Owner'
<1>0. ASSUME NEW failed \in SUBSET Versions, Recover(failed)
      PROVE  Fresh' /\ UNCHANGED <<made, included, witnessed>>
  BY <1>0, Recovered
<1> USE NoVersionAssumption, VerdictsAssumption, RestartsAssumption DEF memory, tasks, disk, engine, past, Owner, TypeOK, Kinds, Held, Unset, NoStatus, Exists
<1>1. ASSUME NEW d \in Versions, AddVersion(d) PROVE Owner'
  BY <1>1 DEF AddVersion, Goto
<1>2. ASSUME NEW d \in Versions, InsertPoint(d) PROVE Owner'
  BY <1>2 DEF InsertPoint
<1>3. ASSUME NEW d \in Versions, NEW kind \in Verdicts, Acquire(d, kind) PROVE Owner'
  <2>1. CASE resolved = Unset /\ kind = "Valid"
    BY <1>3, <2>1 DEF Acquire, Goto
  <2>2. CASE resolved = Unset /\ kind # "Valid"
    BY <1>3, <2>2 DEF Acquire, Goto
  <2>3. CASE resolved # Unset
    BY <1>3, <2>3, SMTT(30) DEF Acquire, Goto
  <2> QED BY <2>1, <2>2, <2>3
<1>4. ASSUME NEW d \in Versions, AcquireValid(d) PROVE Owner'
  BY <1>4 DEF AcquireValid, Goto
<1>5. ASSUME NEW d \in Versions, SetStatus(d) PROVE Owner'
  BY <1>5 DEF SetStatus, Goto
<1>6. ASSUME NEW d \in Versions, Resolve(d) PROVE Owner'
  BY <1>6 DEF Resolve, ResolvePanics, Goto
<1>7. ASSUME NEW d \in Versions, Count(d) PROVE Owner'
  BY <1>7 DEF Count, Goto
<1>8. ASSUME NEW a \in {0, 1}, NEW keyed \in BOOLEAN, Sign(a, keyed) PROVE Owner'
  BY <1>8 DEF Sign
<1>9. ASSUME AdvanceRound PROVE Owner'
  BY <1>9 DEF AdvanceRound
<1>10. ASSUME ProduceIncludes PROVE Owner'
  BY <1>10 DEF ProduceIncludes
<1>11. ASSUME ProduceWitness PROVE Owner'
  BY <1>11 DEF ProduceWitness, GetOrReject
<1>12. ASSUME NEW failed \in SUBSET Versions, Restart(failed) PROVE Owner'
  <2>1. \A d \in Versions : status'[d] = IF db[d] = Exists THEN NoStatus ELSE db[d]
    BY <1>12 DEF Restart, PreRun
  <2>2. \A d \in Versions : /\ resolved'.digest = d <=> db[d].first_resolved
                            /\ valid' = d <=> db[d].first_valid
    BY <1>12 DEF Restart, PreRun, StartRounds, FlaggedFirst, FlaggedValid, Stored
  <2>3. \A d \in Versions : future'[d] \in {"none", "pending", "done", "panic"}
    BY <1>12, <2>2 DEF Restart, PreRun
  <2>4. \A d \in Versions : db[d].first_resolved \/ db[d].first_valid => future'[d] = "done"
    BY <1>12, <2>2 DEF Restart, PreRun, Readable
  <2>5. \A d \in Versions : resolved'.digest = d
            => resolved'.kind = IF db[d].kind = "Valid" THEN "Valid" ELSE "NotValid"
    BY <1>12 DEF Restart, PreRun, StartRounds, FlaggedFirst
  <2>6. \A d \in Versions : db[d] = Exists => ~db[d].first_resolved /\ ~db[d].first_valid
    OBVIOUS
  <2>7. \A d \in Versions : /\ status'[d].first_resolved <=> db[d].first_resolved
                            /\ status'[d].first_valid <=> db[d].first_valid
                            /\ db[d].first_resolved \/ db[d].first_valid
                                  => status'[d].kind = db[d].kind
    <3> TAKE d \in Versions
    <3>1. CASE db[d] = Exists
      BY <2>1, <2>6, <3>1
    <3>2. CASE db[d] # Exists
      <4>1. status'[d] = db[d] BY <2>1, <3>2
      <4> QED BY <4>1
    <3> QED BY <3>1, <3>2
  <2>8. \A d \in Versions : /\ db[d].first_resolved /\ db[d].kind = "Valid" => db[d].first_valid
                            /\ db[d].first_valid => db[d].kind = "Valid"
    BY DEF Stored
  <2> HIDE DEF TypeOK, Unset, NoStatus, Exists, Kinds
  <2> QED BY <2>2, <2>3, <2>4, <2>5, <2>7, <2>8
<1>13. CASE UNCHANGED vars
  BY <1>13 DEF vars
<1>14. ASSUME NEW failed \in SUBSET Versions, Recover(failed) PROVE Owner'
  <2>1. Fresh' /\ UNCHANGED <<made, included, witnessed>>
    BY <1>14, <1>0
  <2> QED BY <2>1, SMTT(30) DEF Fresh
<1> HIDE DEF Owner, TypeOK, Kinds, Held, Unset, NoStatus, Exists
<1> QED BY <1>1, <1>2, <1>3, <1>4, <1>5, <1>6, <1>7, <1>8, <1>9, <1>10, <1>11, <1>12, <1>13, <1>14 DEF Next

(* Flags reach the database from their owner alone, and stay there. *)
LEMMA StoredStep == ASSUME TypeOK, TypeOK', Owner, Stored, Readable, Digests, InOrder, [Next]_vars PROVE Stored'
<1>0. ASSUME NEW failed \in SUBSET Versions, Recover(failed)
      PROVE  Fresh' /\ UNCHANGED <<made, included, witnessed>>
  BY <1>0, Recovered
<1> USE NoVersionAssumption, VerdictsAssumption, RestartsAssumption DEF memory, tasks, disk, engine, past, Stored, Owner, TypeOK, Kinds, Held, Unset, NoStatus, Exists
<1>1. ASSUME NEW d \in Versions, AddVersion(d) PROVE Stored'
  BY <1>1 DEF AddVersion, Goto
<1>2. ASSUME NEW d \in Versions, InsertPoint(d) PROVE Stored'
  BY <1>2 DEF InsertPoint
<1>3. ASSUME NEW d \in Versions, NEW kind \in Verdicts, Acquire(d, kind) PROVE Stored'
  BY <1>3 DEF Acquire, Goto, Outcomes
<1>4. ASSUME NEW d \in Versions, AcquireValid(d) PROVE Stored'
  BY <1>4 DEF AcquireValid, Goto
<1>5. ASSUME NEW d \in Versions, SetStatus(d) PROVE Stored'
  BY <1>5 DEF SetStatus, Goto
<1>6. ASSUME NEW d \in Versions, Resolve(d) PROVE Stored'
  BY <1>6 DEF Resolve, ResolvePanics, Goto
<1>7. ASSUME NEW d \in Versions, Count(d) PROVE Stored'
  BY <1>7 DEF Count, Goto
<1>8. ASSUME NEW a \in {0, 1}, NEW keyed \in BOOLEAN, Sign(a, keyed) PROVE Stored'
  BY <1>8 DEF Sign
<1>9. ASSUME AdvanceRound PROVE Stored'
  BY <1>9 DEF AdvanceRound
<1>10. ASSUME ProduceIncludes PROVE Stored'
  BY <1>10 DEF ProduceIncludes
<1>11. ASSUME ProduceWitness PROVE Stored'
  BY <1>11 DEF ProduceWitness, GetOrReject
<1>12. ASSUME NEW failed \in SUBSET Versions, Restart(failed) PROVE Stored'
  BY <1>12 DEF Restart, PreRun, StartRounds, FlaggedFirst, FlaggedValid
<1>13. CASE UNCHANGED vars
  BY <1>13 DEF vars
<1>14. ASSUME NEW failed \in SUBSET Versions, Recover(failed) PROVE Stored'
  <2>1. Fresh' /\ UNCHANGED <<made, included, witnessed>>
    BY <1>14, <1>0
  <2>2. \A d \in Versions : /\ ~db'[d].first_resolved /\ ~db'[d].first_valid
                            /\ db'[d] \in {NoStatus, Exists} /\ status'[d] = NoStatus
                            /\ future'[d] = "done" => db'[d] = Exists
                            /\ future'[d] \in {"none", "pending", "done", "panic"}
    BY <2>1, SMTT(30) DEF Fresh
  <2> HIDE DEF Owner, TypeOK, Kinds, NoStatus, Exists
  <2> QED BY <2>2
<1> HIDE DEF Stored, Owner, TypeOK, Kinds, Held, Unset, NoStatus, Exists
<1> QED BY <1>1, <1>2, <1>3, <1>4, <1>5, <1>6, <1>7, <1>8, <1>9, <1>10, <1>11, <1>12, <1>13, <1>14 DEF Next

(* Only a reset leaves a status Exists without a point, and then nothing runs.   *)
LEMMA ReadableStep == ASSUME TypeOK, TypeOK', Stored, Readable, [Next]_vars PROVE Readable'
<1>0. ASSUME NEW failed \in SUBSET Versions, Recover(failed)
      PROVE  Fresh' /\ UNCHANGED <<made, included, witnessed>>
  BY <1>0, Recovered
<1> USE DEF memory, tasks, disk, engine, past, Readable, TypeOK
<1>1. ASSUME NEW d \in Versions, AddVersion(d) PROVE Readable'
  BY <1>1 DEF AddVersion, Goto
<1>2. ASSUME NEW d \in Versions, InsertPoint(d) PROVE Readable'
  BY <1>2 DEF InsertPoint
<1>3. ASSUME NEW d \in Versions, NEW kind \in Verdicts, Acquire(d, kind) PROVE Readable'
  BY <1>3 DEF Acquire, Goto
<1>4. ASSUME NEW d \in Versions, AcquireValid(d) PROVE Readable'
  BY <1>4 DEF AcquireValid, Goto
<1>5. ASSUME NEW d \in Versions, SetStatus(d) PROVE Readable'
  BY <1>5 DEF SetStatus, Goto, Exists, NoStatus
<1>6. ASSUME NEW d \in Versions, Resolve(d) \/ Count(d) PROVE Readable'
  BY <1>6 DEF Resolve, Count, Goto
<1>7. ASSUME NEW a \in {0, 1}, NEW keyed \in BOOLEAN, Sign(a, keyed) PROVE Readable'
  BY <1>7 DEF Sign
<1>8. ASSUME AdvanceRound \/ ProduceIncludes \/ ProduceWitness PROVE Readable'
  BY <1>8 DEF AdvanceRound, ProduceIncludes, ProduceWitness
<1>9. ASSUME NEW failed \in SUBSET Versions, Restart(failed) PROVE Readable'
  BY <1>9 DEF Restart, PreRun
<1>10. ASSUME NEW failed \in SUBSET Versions, Recover(failed) PROVE Readable'
  <2>1. \A d \in Versions : db'[d] \in {NoStatus, Exists}
    <3>1. Fresh'
      BY <1>10, <1>0
    <3> QED BY <3>1 DEF Fresh
  <2>2. db' = ResetStatuses /\ points' = points
    BY <1>10 DEF Recover, PreRun
  <2>3. {d \in Versions : ResetStatuses[d] = Exists} \ points # {}
           => \A d \in Versions : future'[d] = "panic"
    BY <1>10 DEF Recover, PreRun
  <2> QED BY <2>1, <2>2, <2>3
<1>11. CASE UNCHANGED vars
  BY <1>11 DEF vars
<1> HIDE DEF Readable, TypeOK
<1> QED BY <1>1, <1>2, <1>3, <1>4, <1>5, <1>6, <1>7, <1>8, <1>9, <1>10, <1>11 DEF Next

(* A valid first resolved version stays the first valid one. *)
LEMMA DigestsStep == ASSUME TypeOK, TypeOK', Owner, Stored, Digests, [Next]_vars PROVE Digests'
<1>0. ASSUME NEW failed \in SUBSET Versions, Recover(failed)
      PROVE  Fresh' /\ UNCHANGED <<made, included, witnessed>>
  BY <1>0, Recovered
<1> USE NoVersionAssumption, VerdictsAssumption, RestartsAssumption DEF memory, tasks, disk, engine, past, Digests, Owner, Stored, TypeOK, Kinds, Held, Unset, NoStatus, Exists
<1>1. ASSUME NEW d \in Versions, AddVersion(d) PROVE Digests'
  BY <1>1 DEF AddVersion, Goto
<1>2. ASSUME NEW d \in Versions, InsertPoint(d) PROVE Digests'
  BY <1>2 DEF InsertPoint
<1>3. ASSUME NEW d \in Versions, NEW kind \in Verdicts, Acquire(d, kind) PROVE Digests'
  BY <1>3 DEF Acquire, Goto, Outcomes
<1>4. ASSUME NEW d \in Versions, AcquireValid(d) PROVE Digests'
  BY <1>4 DEF AcquireValid, Goto
<1>5. ASSUME NEW d \in Versions, SetStatus(d) PROVE Digests'
  BY <1>5 DEF SetStatus, Goto
<1>6. ASSUME NEW d \in Versions, Resolve(d) PROVE Digests'
  BY <1>6 DEF Resolve, ResolvePanics, Goto
<1>7. ASSUME NEW d \in Versions, Count(d) PROVE Digests'
  BY <1>7 DEF Count, Goto
<1>8. ASSUME NEW a \in {0, 1}, NEW keyed \in BOOLEAN, Sign(a, keyed) PROVE Digests'
  BY <1>8 DEF Sign
<1>9. ASSUME AdvanceRound PROVE Digests'
  BY <1>9 DEF AdvanceRound
<1>10. ASSUME ProduceIncludes PROVE Digests'
  BY <1>10 DEF ProduceIncludes
<1>11. ASSUME ProduceWitness PROVE Digests'
  BY <1>11 DEF ProduceWitness, GetOrReject
<1>12. ASSUME NEW failed \in SUBSET Versions, Restart(failed) PROVE Digests'
  BY <1>12 DEF Restart, PreRun, StartRounds, FlaggedFirst, FlaggedValid
<1>13. CASE UNCHANGED vars
  BY <1>13 DEF vars
<1>14. ASSUME NEW failed \in SUBSET Versions, Recover(failed) PROVE Digests'
  <2>1. Fresh' /\ UNCHANGED <<made, included, witnessed>>
    BY <1>14, <1>0
  <2> QED BY <2>1 DEF Fresh
<1> HIDE DEF Digests, Owner, Stored, TypeOK, Kinds, Held, Unset, NoStatus, Exists
<1> QED BY <1>1, <1>2, <1>3, <1>4, <1>5, <1>6, <1>7, <1>8, <1>9, <1>10, <1>11, <1>12, <1>13, <1>14 DEF Next

(* What is signed was stored as the first resolved version. *)
LEMMA SigningStep == ASSUME TypeOK, TypeOK', Owner, Stored, Digests, Signing, [Next]_vars PROVE Signing'
<1>0. ASSUME NEW failed \in SUBSET Versions, Recover(failed)
      PROVE  Fresh' /\ UNCHANGED <<made, included, witnessed>>
  BY <1>0, Recovered
<1> USE NoVersionAssumption, VerdictsAssumption, RestartsAssumption DEF memory, tasks, disk, engine, past, Signing, Digests, Owner, Stored, TypeOK, Kinds, Held, Unset, NoStatus, Exists
<1>1. ASSUME NEW d \in Versions, AddVersion(d) PROVE Signing'
  BY <1>1 DEF AddVersion, Goto
<1>2. ASSUME NEW d \in Versions, InsertPoint(d) PROVE Signing'
  BY <1>2 DEF InsertPoint
<1>3. ASSUME NEW d \in Versions, NEW kind \in Verdicts, Acquire(d, kind) PROVE Signing'
  BY <1>3 DEF Acquire, Goto, Outcomes
<1>4. ASSUME NEW d \in Versions, AcquireValid(d) PROVE Signing'
  BY <1>4 DEF AcquireValid, Goto
<1>5. ASSUME NEW d \in Versions, SetStatus(d) PROVE Signing'
  BY <1>5 DEF SetStatus, Goto
<1>6. ASSUME NEW d \in Versions, Resolve(d) PROVE Signing'
  BY <1>6 DEF Resolve, ResolvePanics, Goto
<1>7. ASSUME NEW d \in Versions, Count(d) PROVE Signing'
  BY <1>7 DEF Count, Goto
<1>8. ASSUME NEW a \in {0, 1}, NEW keyed \in BOOLEAN, Sign(a, keyed) PROVE Signing'
  BY <1>8 DEF Sign
<1>9. ASSUME AdvanceRound PROVE Signing'
  BY <1>9 DEF AdvanceRound
<1>10. ASSUME ProduceIncludes PROVE Signing'
  BY <1>10 DEF ProduceIncludes
<1>11. ASSUME ProduceWitness PROVE Signing'
  BY <1>11 DEF ProduceWitness, GetOrReject
<1>12. ASSUME NEW failed \in SUBSET Versions, Restart(failed) PROVE Signing'
  BY <1>12 DEF Restart, PreRun, StartRounds, FlaggedFirst, FlaggedValid
<1>13. CASE UNCHANGED vars
  BY <1>13 DEF vars
<1>14. ASSUME NEW failed \in SUBSET Versions, Recover(failed) PROVE Signing'
  <2>1. Fresh' /\ UNCHANGED <<made, included, witnessed>>
    BY <1>14, <1>0
  <2> QED BY <2>1 DEF Fresh
<1> HIDE DEF Signing, Digests, Owner, Stored, TypeOK, Kinds, Held, Unset, NoStatus, Exists
<1> QED BY <1>1, <1>2, <1>3, <1>4, <1>5, <1>6, <1>7, <1>8, <1>9, <1>10, <1>11, <1>12, <1>13, <1>14 DEF Next

(* The own point of round r+2 settles the signature for good. *)
LEMMA DecidedStep == ASSUME TypeOK, TypeOK', Owner, Digests, Signing, Decided, [Next]_vars PROVE Decided'
<1>0. ASSUME NEW failed \in SUBSET Versions, Recover(failed)
      PROVE  Fresh' /\ UNCHANGED <<made, included, witnessed>>
  BY <1>0, Recovered
<1> USE NoVersionAssumption, VerdictsAssumption, RestartsAssumption DEF memory, tasks, disk, engine, past, Decided, Digests, Signing, Owner, TypeOK, Held, Unset, NoStatus, Exists
<1>1. ASSUME NEW d \in Versions, AddVersion(d) PROVE Decided'
  BY <1>1 DEF AddVersion, Goto
<1>2. ASSUME NEW d \in Versions, InsertPoint(d) PROVE Decided'
  BY <1>2 DEF InsertPoint
<1>3. ASSUME NEW d \in Versions, NEW kind \in Verdicts, Acquire(d, kind) PROVE Decided'
  BY <1>3 DEF Acquire, Goto, Outcomes
<1>4. ASSUME NEW d \in Versions, AcquireValid(d) PROVE Decided'
  BY <1>4 DEF AcquireValid, Goto
<1>5. ASSUME NEW d \in Versions, SetStatus(d) PROVE Decided'
  BY <1>5 DEF SetStatus, Goto
<1>6. ASSUME NEW d \in Versions, Resolve(d) PROVE Decided'
  BY <1>6 DEF Resolve, ResolvePanics, Goto
<1>7. ASSUME NEW d \in Versions, Count(d) PROVE Decided'
  BY <1>7 DEF Count, Goto
<1>8. ASSUME NEW a \in {0, 1}, NEW keyed \in BOOLEAN, Sign(a, keyed) PROVE Decided'
  BY <1>8 DEF Sign
<1>9. ASSUME AdvanceRound PROVE Decided'
  BY <1>9 DEF AdvanceRound
<1>10. ASSUME ProduceIncludes PROVE Decided'
  BY <1>10 DEF ProduceIncludes
<1>11. ASSUME ProduceWitness PROVE Decided'
  BY <1>11 DEF ProduceWitness, GetOrReject
<1>12. ASSUME NEW failed \in SUBSET Versions, Restart(failed) PROVE Decided'
  BY <1>12 DEF Restart, PreRun, StartRounds, FlaggedFirst, FlaggedValid
<1>13. CASE UNCHANGED vars
  BY <1>13 DEF vars
<1>14. ASSUME NEW failed \in SUBSET Versions, Recover(failed) PROVE Decided'
  <2>1. Fresh' /\ UNCHANGED <<made, included, witnessed>>
    BY <1>14, <1>0
  <2> QED BY <2>1 DEF Fresh
<1> HIDE DEF Decided, Digests, Signing, Owner, TypeOK, Held, Unset, NoStatus, Exists
<1> QED BY <1>1, <1>2, <1>3, <1>4, <1>5, <1>6, <1>7, <1>8, <1>9, <1>10, <1>11, <1>12, <1>13, <1>14 DEF Next

(* Without restarts the locks are initialised in order and resolve finds what it expects. *)
LEMMA InOrderStep == ASSUME TypeOK, TypeOK', Owner, Stored, Digests, InOrder, [Next]_vars PROVE InOrder'
<1>0. ASSUME NEW failed \in SUBSET Versions, Recover(failed)
      PROVE  Fresh' /\ UNCHANGED <<made, included, witnessed>>
  BY <1>0, Recovered
<1> USE NoVersionAssumption, VerdictsAssumption, RestartsAssumption DEF memory, tasks, disk, engine, past, InOrder, NoPanic, Digests, Owner, Stored, TypeOK, Held, Unset, NoStatus, Exists
<1>1. ASSUME NEW d \in Versions, AddVersion(d) PROVE InOrder'
  BY <1>1 DEF AddVersion, Goto
<1>2. ASSUME NEW d \in Versions, InsertPoint(d) PROVE InOrder'
  BY <1>2 DEF InsertPoint
<1>3. ASSUME NEW d \in Versions, NEW kind \in Verdicts, Acquire(d, kind) PROVE InOrder'
  BY <1>3 DEF Acquire, Goto, Outcomes
<1>4. ASSUME NEW d \in Versions, AcquireValid(d) PROVE InOrder'
  BY <1>4 DEF AcquireValid, Goto
<1>5. ASSUME NEW d \in Versions, SetStatus(d) PROVE InOrder'
  BY <1>5 DEF SetStatus, Goto
<1>6. ASSUME NEW d \in Versions, Resolve(d) PROVE InOrder'
  BY <1>6 DEF Resolve, ResolvePanics, Goto
<1>7. ASSUME NEW d \in Versions, Count(d) PROVE InOrder'
  BY <1>7 DEF Count, Goto
<1>8. ASSUME NEW a \in {0, 1}, NEW keyed \in BOOLEAN, Sign(a, keyed) PROVE InOrder'
  BY <1>8 DEF Sign
<1>9. ASSUME AdvanceRound PROVE InOrder'
  BY <1>9 DEF AdvanceRound
<1>10. ASSUME ProduceIncludes PROVE InOrder'
  BY <1>10 DEF ProduceIncludes
<1>11. ASSUME ProduceWitness PROVE InOrder'
  BY <1>11 DEF ProduceWitness, GetOrReject
<1>12. ASSUME NEW failed \in SUBSET Versions, Restart(failed) PROVE InOrder'
  BY <1>12 DEF Restart, PreRun, StartRounds, FlaggedFirst, FlaggedValid
<1>13. CASE UNCHANGED vars
  BY <1>13 DEF vars
<1>14. ASSUME NEW failed \in SUBSET Versions, Recover(failed) PROVE InOrder'
  <2>1. Fresh' /\ UNCHANGED <<made, included, witnessed>>
    BY <1>14, <1>0
  <2> QED BY <2>1 DEF Fresh
<1> HIDE DEF InOrder, NoPanic, Digests, Owner, Stored, TypeOK, Held, Unset, NoStatus, Exists
<1> QED BY <1>1, <1>2, <1>3, <1>4, <1>5, <1>6, <1>7, <1>8, <1>9, <1>10, <1>11, <1>12, <1>13, <1>14 DEF Next

(* The invariant holds in every reachable state.                               *)
LEMMA Invariance == Spec => []IInv
<1>1. Init => IInv BY InitInv
<1>2. IInv /\ [Next]_vars => IInv'
  BY TypeStep, OwnerStep, StoredStep, ReadableStep, DigestsStep, SigningStep, DecidedStep, InOrderStep DEF IInv
<1> QED BY <1>1, <1>2, PTL DEF Spec

(* The location is well-typed throughout.                                      *)
THEOREM TypeCorrect == Spec => []TypeOK
<1>1. IInv => TypeOK BY DEF IInv
<1> QED BY <1>1, Invariance, PTL

(* At most one version of a location is signed between two resets of the stored
   statuses, however many versions the author makes and however often the node
   crashes and restarts: the version that may be signed is stored as the first
   resolved one before Signable is set, and acquire_restore puts it back.      *)
THEOREM SignsOnce == Spec => []SignOnce
<1>1. IInv => SignOnce
  BY DEF IInv, Signing, Stored, Digests, TypeOK, SignOnce
<1> QED BY <1>1, Invariance, PTL

(* InclusionState::resolve adds one version to the Threshold, the one that can
   be signed if there is such.                                                 *)
THEOREM CountsOneVersion == Spec => []OneVersionCounts
<1>1. IInv => OneVersionCounts
  BY DEF IInv, Digests, OneVersionCounts
<1> QED BY <1>1, Invariance, PTL

(* Producer::witness closes the location: what is signed afterwards is a version
   that one of the two own points refers to, unless the statuses were reset.   *)
THEOREM ReferencesWhatItSigned == Spec => []SignedIsReferenced
<1>1. IInv => SignedIsReferenced
  BY DEF IInv, Digests, Signing, Decided, SignedIsReferenced, TypeOK
<1> QED BY <1>1, Invariance, PTL

(* The assertions of acquire and resolve hold as long as nothing was restored
   from the database.                                                          *)
THEOREM PanicsOnlyAfterRestart == Spec => []NoPanicBeforeRestart
<1>1. IInv => NoPanicBeforeRestart
  BY DEF IInv, InOrder, NoPanicBeforeRestart
<1> QED BY <1>1, Invariance, PTL
-----------------------------------------------------------------------------
\* Before the first restart a signature that was given is still known.
Sent == restarts = 0 /\ handed # {} => signature = "signed"

(* Only a restart makes the location forget that it signed.                     *)
LEMMA SentStep == ASSUME TypeOK, Signing, Sent, [Next]_vars PROVE Sent'
<1> USE DEF memory, tasks, disk, engine, past, Sent
<1>1. ASSUME NEW d \in Versions,
             \/ AddVersion(d) \/ InsertPoint(d) \/ \E kind \in Verdicts : Acquire(d, kind)
             \/ AcquireValid(d) \/ SetStatus(d) \/ Resolve(d) \/ Count(d)
      PROVE  Sent'
  BY <1>1 DEF AddVersion, InsertPoint, Acquire, AcquireValid, SetStatus, Resolve, Count
<1>2. ASSUME NEW a \in {0, 1}, NEW keyed \in BOOLEAN, Sign(a, keyed) PROVE Sent'
  BY <1>2 DEF Sign
<1>3. ASSUME AdvanceRound \/ ProduceIncludes PROVE Sent'
  BY <1>3 DEF AdvanceRound, ProduceIncludes
<1>4. ASSUME ProduceWitness PROVE Sent'
  BY <1>4 DEF ProduceWitness, GetOrReject
<1>5. ASSUME NEW failed \in SUBSET Versions, Restart(failed) PROVE Sent'
  BY <1>5, RestartsAssumption DEF Restart, PreRun, TypeOK
<1>7. ASSUME NEW failed \in SUBSET Versions, Recover(failed) PROVE Sent'
  BY <1>7, Recovered DEF Fresh
<1>6. CASE UNCHANGED vars
  BY <1>6 DEF vars
<1> QED BY <1>1, <1>2, <1>3, <1>4, <1>5, <1>6, <1>7 DEF Next

(* A step of the location is one of Promise, or does not show.                  *)
LEMMA PromiseStep ==
  ASSUME IInv, IInv', Sent, restarts = 0, restarts' = 0, [Next]_vars
  PROVE  P!Next \/ Public' = Public
<1> USE DEF memory, tasks, disk, engine, past, Public
<1>1. handed \subseteq {resolved.digest}
  BY DEF IInv, Signing, Stored, TypeOK
<1>2. ASSUME NEW d \in Versions,
             \/ AddVersion(d) \/ InsertPoint(d) \/ \E kind \in Verdicts : Acquire(d, kind)
             \/ AcquireValid(d) \/ SetStatus(d) \/ Resolve(d) \/ Count(d)
      PROVE  Public' = Public
  BY <1>2 DEF AddVersion, InsertPoint, Acquire, AcquireValid, SetStatus, Resolve, Count
<1>3. ASSUME NEW a \in {0, 1}, NEW keyed \in BOOLEAN, Sign(a, keyed)
      PROVE  P!Next \/ Public' = Public
  <2> DEFINE v == resolved.digest
  <2>1. CASE handed' = handed
    BY <1>3, <2>1, SMTT(30) DEF Sign
  <2>2. CASE handed' # handed
    <3>1. handed' = handed \cup {v} /\ signature' = "signed" /\ UNCHANGED <<resolved, engine>>
      BY <1>3, <2>2 DEF Sign
    <3>2. v \in Versions
      BY <1>3 DEF Sign, IInv, Digests, TypeOK
    <3>3. 2 \in made => v \in included \cup witnessed
      BY <1>3, <3>1 DEF IInv, InOrder, Decided, Digests, Signing, Sign, TypeOK
    <3>4. P!MaySign(Public, v) /\ Public' = P!Signed(Public, v)
      BY <1>1, <3>1, <3>3 DEF P!MaySign, P!Signed, P!Referenced
    <3> QED BY <3>2, <3>4 DEF P!Next
  <2> QED BY <2>1, <2>2
<1>4. ASSUME AdvanceRound PROVE Public' = Public
  BY <1>4 DEF AdvanceRound
<1>5. ASSUME ProduceIncludes PROVE P!Next
  <2>1. made = {} /\ included' \in SUBSET Versions
    BY <1>5 DEF ProduceIncludes, IInv, Decided, TypeOK
  <2>2. P!MayInclude(Public) /\ Public' = P!Included(Public, included')
    BY <1>5, <2>1 DEF ProduceIncludes, P!MayInclude, P!Included
  <2> QED BY <2>1, <2>2 DEF P!Next
<1>6. ASSUME ProduceWitness PROVE P!Next
  <2>1. witnessed' \in SUBSET Versions
    BY DEF IInv, TypeOK
  <2>2. handed \subseteq included \cup witnessed'
    <3>1. CASE included = {}
      BY <1>1, <1>6, <3>1 DEF ProduceWitness, GetOrReject, Sent
    <3>2. CASE included # {}
      BY <1>1, <3>2 DEF IInv, InOrder, Digests, Signing, Sent, TypeOK
    <3> QED BY <3>1, <3>2
  <2>3. P!MayWitness(Public, witnessed') /\ Public' = P!Witnessed(Public, witnessed')
    BY <1>6, <2>2 DEF ProduceWitness, P!MayWitness, P!Witnessed
  <2> QED BY <2>1, <2>3 DEF P!Next
<1>7. ASSUME NEW failed \in SUBSET Versions, Restart(failed) \/ Recover(failed) PROVE FALSE
  BY <1>7 DEF Restart, Recover, PreRun
<1>8. CASE UNCHANGED vars
  BY <1>8 DEF vars
<1> QED BY <1>2, <1>3, <1>4, <1>5, <1>6, <1>7, <1>8 DEF Next

(* Until it restarts, a node implements Promise: of all versions it signs one at most,
   and its own points refer to that one.                                       *)
THEOREM PromiseIsKept == Spec => KeepsPromise
<1>1. Init => Sent /\ P!Init
  BY DEF Init, Sent, P!Init, P!Untouched, Public
<1>2. IInv /\ Sent /\ [Next]_vars => Sent'
  BY SentStep DEF IInv
<1>3. ASSUME IInv, IInv', Sent, [Next]_vars PROVE [restarts' = 0 => P!Next]_Public
  <2>1. CASE restarts' # 0
    BY <2>1
  <2>2. CASE restarts' = 0
    <3>1. restarts = 0
      <4>1. restarts \in Nat /\ (restarts' = restarts \/ restarts' = restarts + 1)
        <5>1. restarts \in Nat
          BY <1>3, RestartsAssumption DEF IInv, TypeOK
        <5>2. ASSUME NEW failed \in SUBSET Versions, Restart(failed) \/ Recover(failed)
              PROVE  restarts' = restarts + 1
          BY <5>2 DEF Restart, Recover, PreRun
        <5>3. ASSUME NEW d \in Versions,
                     \/ AddVersion(d) \/ InsertPoint(d) \/ \E kind \in Verdicts : Acquire(d, kind)
                     \/ AcquireValid(d) \/ SetStatus(d) \/ Resolve(d) \/ Count(d)
              PROVE  restarts' = restarts
          BY <5>3 DEF AddVersion, InsertPoint, Acquire, AcquireValid, SetStatus, Resolve, Count, past
        <5>4. ASSUME \/ \E a \in {0, 1}, keyed \in BOOLEAN : Sign(a, keyed)
                     \/ AdvanceRound \/ ProduceIncludes \/ ProduceWitness \/ UNCHANGED vars
              PROVE  restarts' = restarts
          BY <5>4 DEF Sign, AdvanceRound, ProduceIncludes, ProduceWitness, past, vars
        <5> QED BY <1>3, <5>1, <5>2, <5>3, <5>4 DEF Next
      <4> QED BY <2>2, <4>1
    <3>2. P!Next \/ Public' = Public
      BY <1>3, <2>2, <3>1, PromiseStep
    <3> QED BY <3>2
  <2> QED BY <2>1, <2>2
<1> QED BY <1>1, <1>2, <1>3, Invariance, PTL DEF Spec, KeepsPromise
=============================================================================
