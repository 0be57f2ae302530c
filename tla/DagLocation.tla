---------------------------- MODULE DagLocation ----------------------------
(* One location of the DAG, the slot of one author in one round r:
   consensus/src/dag/{dag_location,dag_point_future,producer}.rs,
   consensus/src/intercom/broadcast/signer.rs, the restore of
   consensus/src/engine/impl_.rs and what it reads of consensus/src/effects/store.rs.

   A location may get several versions of a point: by broadcast, as a dependency
   of other points, or from the database after a restart.  The task of every
   version acquires the location, stores the status of the version and resolves
   it.  Meanwhile peers ask the node to sign the point, and the engine goes on to
   the rounds r+1 and r+2, whose own points refer to the version that was signed.

   The location belongs to another peer.  Whether a version turns out valid
   depends on the rest of the DAG and is left open.  A crash loses everything but
   the database and what was already sent.  After a conflict in the history of the
   commits the engine is run anew as well, and that run starts with a database
   whose statuses are reset.                                                   *)
EXTENDS Naturals, FiniteSets

CONSTANTS Versions,      \* digests of the versions of the point
          NoVersion,     \* "no digest"
          Verdicts,      \* results of a download or validation to consider
          MaxRestarts    \* bound: how often the engine may be run anew

ASSUME NoVersionAssumption == NoVersion \notin Versions

ASSUME VerdictsAssumption == Verdicts \subseteq {"Valid", "Invalid", "IllFormed", "NotFound"}

ASSUME RestartsAssumption == MaxRestarts \in Nat

VARIABLES resolved,    \* InclusionState: OnceLock<FirstResolved>
          valid,       \* InclusionState: FirstValid
          signable,    \* OnceLock<Result<Signable>> of FirstResolved::Valid
          signature,   \* OnceLock<Result<Signature>> of Signable
          future,      \* progress of the DagPointFuture of each version
          status,      \* PointStatus local to the task of each version
          counted,     \* versions added to the Threshold of the round
          db,          \* stored status of each version
          points,      \* versions whose point is stored
          at,          \* current round of the engine, relative to r
          made,        \* which own points were made: 1 for r+1, 2 for r+2
          included,    \* own point @ r+1: its include from this location
          witnessed,   \* own point @ r+2: its witness from this location
          since,       \* the lowest current round that requests are answered with
          handed,      \* versions whose signature was sent since the last reset
          resets,      \* how many of the restarts reset the stored statuses
          restarts     \* number of restarts so far

memory   == <<resolved, valid, signable, signature, counted>>
tasks    == <<future, status>>
engine   == <<at, made, included, witnessed, since>>
disk     == <<db, points>>
past     == <<handed, resets, restarts>>
vars     == <<memory, tasks, disk, engine, past>>

Unset == [kind |-> "Unset", digest |-> NoVersion]

NoStatus == [kind |-> "None", first_resolved |-> FALSE, first_valid |-> FALSE]
Exists   == [NoStatus EXCEPT !.kind = "Exists"]

Init == /\ resolved = Unset /\ valid = NoVersion
        /\ signable = "unset" /\ signature = "unset" /\ counted = {}
        /\ future = [d \in Versions |-> "none"]
        /\ status = [d \in Versions |-> NoStatus]
        /\ db = [d \in Versions |-> NoStatus] /\ points = {}
        /\ at = 0 /\ made = {} /\ included = {} /\ witnessed = {} /\ since = 0
        /\ handed = {} /\ resets = 0 /\ restarts = 0

Goto(d, label) == future' = [future EXCEPT ![d] = label]
-----------------------------------------------------------------------------
(* DagRound: add_broadcast, add_pruned_broadcast, add_ill_formed_broadcast and
   add_dependency start one task for a version, whoever comes first.          *)
AddVersion(d) ==
  /\ future[d] = "none"
  /\ Goto(d, "pending")
  /\ UNCHANGED <<memory, status, disk, engine, past>>

(* The point is stored with status Exists while it is being validated.        *)
InsertPoint(d) ==
  /\ future[d] = "pending" /\ db[d] = NoStatus
  /\ db' = [db EXCEPT ![d] = Exists] /\ points' = points \cup {d}
  /\ UNCHANGED <<memory, tasks, engine, past>>

\* A validated point was stored before; a point that was not found is not stored.
Outcomes(d) == Verdicts \cap IF d \in points THEN {"Valid", "Invalid", "IllFormed"}
                                            ELSE {"IllFormed", "NotFound"}

(* InclusionState::acquire: initialisation of `resolved`, with the nested one
   of `valid`.  A version that is not the first one goes on to `valid` alone. *)
Acquire(d, kind) ==
  /\ future[d] = "pending" /\ kind \in Outcomes(d)
  /\ IF resolved = Unset
       THEN /\ status' = [status EXCEPT ![d] =
                 [kind |-> kind, first_resolved |-> TRUE,
                  first_valid |-> kind = "Valid" /\ valid = NoVersion]]
            /\ IF kind = "Valid"
                 THEN IF valid \in {NoVersion, d}
                        THEN /\ resolved' = [kind |-> "Valid", digest |-> d]
                             /\ valid' = d
                             /\ Goto(d, "store")
                        ELSE Goto(d, "panic") /\ UNCHANGED <<resolved, valid>>
                 ELSE /\ resolved' = [kind |-> "NotValid", digest |-> d]
                      /\ Goto(d, "store")
                      /\ UNCHANGED valid
       ELSE /\ status' = [status EXCEPT ![d] = [NoStatus EXCEPT !.kind = kind]]
            /\ Goto(d, IF kind = "Valid" THEN "acquire_valid" ELSE "store")
            /\ UNCHANGED <<resolved, valid>>
  /\ UNCHANGED <<signable, signature, counted, disk, engine, past>>

\* Mutant: `valid` is overwritten by every valid version.
AcquireValidOverwrites(d) ==
  /\ future[d] = "acquire_valid"
  /\ valid' = d /\ status' = [status EXCEPT ![d].first_valid = TRUE]
  /\ Goto(d, "store")
  /\ UNCHANGED <<resolved, signable, signature, counted, disk, engine, past>>

\* Mutant: the version becomes the first valid one, but its status does not tell.
AcquireValidUnflagged(d) ==
  /\ future[d] = "acquire_valid"
  /\ valid' = IF valid = NoVersion THEN d ELSE valid
  /\ Goto(d, "store")
  /\ UNCHANGED <<resolved, signable, signature, counted, status, disk, engine, past>>

(* InclusionState::acquire: `valid` of a version that is valid but not first.  *)
AcquireValid(d) ==
  /\ future[d] = "acquire_valid"
  /\ IF valid = NoVersion
       THEN /\ valid' = d
            /\ status' = [status EXCEPT ![d] = [kind |-> "Valid", first_resolved |-> FALSE,
                                               first_valid |-> TRUE]]
       ELSE UNCHANGED <<valid, status>>
  /\ Goto(d, "store")
  /\ UNCHANGED <<resolved, signable, signature, counted, disk, engine, past>>

\* Mutant: the version is resolved before its status is stored.
SetStatusLater(d) ==
  /\ future[d] = "store"
  /\ Goto(d, "resolve")
  /\ UNCHANGED <<memory, status, disk, engine, past>>

(* The status is stored before the version is resolved, and with it an ill-formed
   point that was not stored yet.                                              *)
SetStatus(d) ==
  /\ future[d] = "store"
  /\ db' = [db EXCEPT ![d] = status[d]]
  /\ points' = IF status[d].kind = "NotFound" THEN points ELSE points \cup {d}
  /\ Goto(d, "resolve")
  /\ UNCHANGED <<memory, status, engine, past>>

\* The checks of InclusionState::resolve on both locks.
ResolvePanics(d) ==
  \/ /\ status[d].first_resolved
     /\ \/ resolved = Unset
        \/ resolved.kind \in {"Valid", "NotValid"} /\ resolved.digest # d
        \/ resolved.kind # "Closed" /\ (resolved.kind = "Valid") # (status[d].kind = "Valid")
  \/ ~status[d].first_resolved /\ resolved.digest = d
  \/ status[d].first_valid # (valid = d)

(* InclusionState::resolve: the version becomes signable if it is the first.   *)
Resolve(d) ==
  /\ future[d] = "resolve"
  /\ IF ResolvePanics(d)
       THEN Goto(d, "panic") /\ UNCHANGED signable
       ELSE /\ signable' = IF /\ status[d].first_resolved
                              /\ resolved = [kind |-> "Valid", digest |-> d]
                              /\ signable = "unset"
                             THEN "resolved" ELSE signable
            /\ Goto(d, IF status[d].first_valid THEN "count" ELSE "done")
  /\ UNCHANGED <<resolved, valid, signature, counted, status, disk, engine, past>>

(* InclusionState::resolve: the first valid version goes to the Threshold.     *)
Count(d) ==
  /\ future[d] = "count"
  /\ counted' = counted \cup {d}
  /\ Goto(d, "done")
  /\ UNCHANGED <<resolved, valid, signable, signature, status, disk, engine, past>>
-----------------------------------------------------------------------------
(* Signer and InclusionState::sign: a request is answered with the head of
   round `a`, which the engine may have left meanwhile.  Without a key the
   decision waits for the next round; with one, a point from the future waits
   (no step).  The answer is irreversible.                                     *)
Sign(a, keyed) ==
  /\ a \in {0, 1} /\ a \in since..at              \* r is current or previous
  /\ \E d \in Versions : future[d] # "none"
  /\ resolved.kind = "Valid" /\ signable = "resolved"
  /\ \/ signature = "unset" /\ keyed
     \/ signature = "unset" /\ ~keyed /\ a = 1
     \/ signature = "signed"
  /\ signature' = CASE signature # "unset" -> signature
                    [] keyed -> "signed"
                    [] OTHER -> "rejected"
  /\ handed' = IF signature' = "signed" THEN handed \cup {resolved.digest} ELSE handed
  /\ UNCHANGED <<resolved, valid, signable, counted, tasks, disk, engine, resets, restarts>>

(* The engine moves to the next round.                                         *)
AdvanceRound ==
  /\ at < 2
  /\ at' = at + 1
  /\ UNCHANGED <<memory, tasks, disk, made, included, witnessed, since, past>>

(* Producer::includes @ r+1: what the Threshold of round r holds, less the
   points it delays.                                                           *)
ProduceIncludes ==
  /\ at = 1 /\ 1 \notin made /\ made' = made \cup {1}
  /\ included' \in SUBSET counted
  /\ UNCHANGED <<memory, tasks, disk, at, witnessed, since, past>>

\* Mutant: a version that is already signed is rejected as well.
GetOrRejectSigned ==
  /\ resolved' = IF resolved = Unset THEN [Unset EXCEPT !.kind = "Closed"] ELSE resolved
  /\ signable' = IF resolved.kind = "Valid" /\ signable = "unset" THEN "rejected" ELSE signable
  /\ signature' = IF resolved.kind = "Valid" THEN "rejected" ELSE signature
  /\ witnessed' = {}

\* InclusionState::get_or_reject: what is not signed by now never will be.
GetOrReject ==
  /\ resolved' = IF resolved = Unset THEN [Unset EXCEPT !.kind = "Closed"] ELSE resolved
  /\ signable' = IF resolved.kind = "Valid" /\ signable = "unset" THEN "rejected" ELSE signable
  /\ signature' = IF resolved.kind = "Valid" /\ signable = "resolved" /\ signature = "unset"
                    THEN "rejected" ELSE signature
  /\ witnessed' = IF signature = "signed" THEN {resolved.digest} ELSE {}

(* Producer::witness @ r+2: the signed version, unless the previous own point
   already refers to this location.                                            *)
ProduceWitness ==
  /\ at = 2 /\ 2 \notin made /\ made' = made \cup {2}
  /\ IF included = {}
       THEN GetOrReject
       ELSE witnessed' = {} /\ UNCHANGED <<resolved, signable, signature>>
  /\ UNCHANGED <<valid, counted, tasks, disk, at, included, since, past>>
-----------------------------------------------------------------------------
\* Engine::pre_run: the round of the last own point, that is broadcast again, else a
\* round near the last one in the database.
StartRounds == IF 2 \in made THEN {2} ELSE IF 1 \in made THEN {1} ELSE 0..at

FlaggedFirst(stored) == {d \in Versions : stored[d].first_resolved}
FlaggedValid(stored) == {d \in Versions : stored[d].first_valid}

(* Engine::pre_run after a crash or a stop: preload_points restores every stored
   version in the order of PointRestore::restore_order_asc and InclusionState::
   acquire_restore puts the flags back.  A version with status Exists is
   verified (it may fail by now) and validated anew; multi_get_info panics, and
   nothing is restored, if its point is not there.  Own points are stored before
   they are broadcast, but the signatures given to others are not stored.      *)
PreRun(stored, failed) ==
  LET unread == {d \in Versions : stored[d] = Exists} \ points IN
  /\ restarts < MaxRestarts /\ restarts' = restarts + 1
  /\ failed \subseteq {d \in Versions : stored[d] = Exists}
  /\ resolved' \in IF FlaggedFirst(stored) = {} THEN {Unset}
                   ELSE {[kind |-> IF stored[d].kind = "Valid" THEN "Valid" ELSE "NotValid",
                          digest |-> d] : d \in FlaggedFirst(stored)}
  /\ valid' \in IF FlaggedValid(stored) = {} THEN {NoVersion} ELSE FlaggedValid(stored)
  /\ signable' = IF resolved'.kind = "Valid" THEN "resolved" ELSE "unset"
  /\ signature' = "unset"
  /\ counted' = FlaggedValid(stored)
  /\ status' = [d \in Versions |-> IF stored[d] = Exists THEN NoStatus ELSE stored[d]]
  /\ future' = [d \in Versions |->
       CASE unread # {} -> "panic"
         [] unread = {} /\ stored[d] = NoStatus -> "none"
         [] unread = {} /\ stored[d] = Exists -> IF d \in failed THEN "done" ELSE "pending"
         [] \/ stored[d].first_resolved /\ resolved'.digest # d
            \/ stored[d].first_valid /\ valid' # d -> "panic"
         [] OTHER -> "done"]
  /\ at' \in StartRounds /\ since' = at'
  /\ db' = stored
  /\ UNCHANGED <<points, made, included, witnessed>>

(* The node crashes and starts again.                                          *)
Restart(failed) == PreRun(db, failed) /\ UNCHANGED <<handed, resets>>

\* MempoolStore::reset_statuses: every status, flags and all, becomes Exists.
ResetStatuses == [d \in Versions |-> IF db[d] = NoStatus THEN NoStatus ELSE Exists]

(* EngineRecoverLoop after a HistoryConflict: the tasks are stopped, and the new
   run of the engine resets the statuses before it restores the points.        *)
Recover(failed) ==
  /\ PreRun(ResetStatuses, failed)
  /\ handed' = {} /\ resets' = resets + 1

Next == \/ \E d \in Versions : \/ AddVersion(d) \/ InsertPoint(d)
                               \/ \E kind \in Verdicts : Acquire(d, kind)
                               \/ AcquireValid(d) \/ SetStatus(d) \/ Resolve(d) \/ Count(d)
        \/ \E a \in {0, 1}, keyed \in BOOLEAN : Sign(a, keyed)
        \/ AdvanceRound \/ ProduceIncludes \/ ProduceWitness
        \/ \E failed \in SUBSET Versions : Restart(failed) \/ Recover(failed)

Spec == Init /\ [][Next]_vars
-----------------------------------------------------------------------------
Kinds == {"None", "Exists", "Valid", "Invalid", "IllFormed", "NotFound"}

(* The values the location, its tasks and the database range over.             *)
TypeOK ==
  /\ resolved \in [kind : {"Unset", "Valid", "NotValid", "Closed"},
                   digest : Versions \cup {NoVersion}]
  /\ valid \in Versions \cup {NoVersion}
  /\ signable \in {"unset", "resolved", "rejected"}
  /\ signature \in {"unset", "signed", "rejected"}
  /\ future \in [Versions -> {"none", "pending", "acquire_valid", "store", "resolve",
                              "count", "done", "panic"}]
  /\ status \in [Versions -> [kind : Kinds, first_resolved : BOOLEAN, first_valid : BOOLEAN]]
  /\ db \in [Versions -> [kind : Kinds, first_resolved : BOOLEAN, first_valid : BOOLEAN]]
  /\ counted \subseteq Versions /\ handed \subseteq Versions
  /\ points \subseteq Versions /\ resets \in Nat
  /\ at \in 0..2 /\ since \in 0..2 /\ restarts \in 0..MaxRestarts
  /\ made \subseteq {1, 2}
  /\ included \subseteq Versions /\ witnessed \subseteq Versions

(* No assertion of acquire, acquire_restore and resolve ever fails.            *)
NoPanic == \A d \in Versions : future[d] # "panic"

(* However the tasks of the versions, the Signer and the Producer interleave, no
   assertion of acquire and resolve fails until the node restarts.             *)
NoPanicBeforeRestart == restarts = 0 => NoPanic

(* "We can sign or reject just a single point at the current location": the node
   never sends out signatures of two versions, across crashes and restarts as well.
   It forgets what it has signed only with a reset of the stored statuses, so the
   signatures since the last reset count.                                      *)
SignOnce == \A d, e \in handed : d = e

(* Once the own point @ r+2 is made, no signature exists for a version that
   neither of the own points refers to: peers cannot prove a point by a local
   signature that the local node does not account for.  After a reset of the stored
   statuses another version may be the one that gets signed.                   *)
SignedIsReferenced ==
  resets = 0 /\ 2 \in made /\ signature = "signed" => resolved.digest \in included \cup witnessed

(* "if the first resolved is valid, then it is also the first valid", so that
   the signed version is the one counted for the round; the Threshold never gets
   a second point of the same author, which would be a panic.                  *)
OneVersionCounts ==
  /\ resolved.kind = "Valid" => valid = resolved.digest
  /\ \A d \in counted : d = valid
-----------------------------------------------------------------------------
\* The location as others see it.
Public == [handed |-> handed, made |-> made, included |-> included, witnessed |-> witnessed]

P == INSTANCE Promise WITH loc <- Public

(* Until the node crashes, the tasks of all versions, the Signer and the Producer
   together do what Promise says: one version is signed, and by the time the own
   point @ r+2 is made, the own points refer to it.                             *)
KeepsPromise == P!Init /\ [][restarts' = 0 => P!Next]_Public
=============================================================================
