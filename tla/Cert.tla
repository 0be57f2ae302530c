-------------------------------- MODULE Cert --------------------------------
(* Lock-free certification of DAG points: consensus/src/models/cert.rs.

   Every point version owns a cell (CertInner): the flag is_certified, the flag
   has_deps and the mutex-guarded life cycle of its direct dependencies.  Any
   number of threads run `Cert::set_deps` (at most once per cell) and
   `Cert::certify`; both may continue with `Cert::traverse_certify`.  One action
   is one atomic access of the code: a load, a compare-exchange, a store, or a
   critical section of the mutex.

   CertInner::set_deps ends with a Release store of has_deps, and Cert::set_deps
   goes on with an Acquire load of is_certified.  Neither the language nor
   x86-64 orders a store before a later load of another location, so the load
   may be performed first (LoadOvertakesStore); AArch64's stlr/ldar pair does
   order them.  overtaken records the cells where this made a difference.     *)

CONSTANTS Certs,             \* certificate cells, one per point version
          Includes,          \* Includes[c]: cells of the points @ r-1 named by c
          Witness,           \* Witness[c]:  cells of the points @ r-2 named by c
          Roots,             \* points with delivery proven by the author's next
          Threads,           \* threads of the runtime that run the operations
          NoCert             \* "no cell", the value of cell[t] of an idle thread

ASSUME DepsAssumption == /\ Includes \in [Certs -> SUBSET Certs]
                         /\ Witness \in [Certs -> SUBSET Certs]
                         /\ Roots \subseteq Certs

ASSUME NoCertAssumption == NoCert \notin Certs

VARIABLES is_certified,  \* AtomicBool of each cell
          has_deps,      \* AtomicBool of each cell
          direct_deps,   \* DepsLifeCycle of each cell: "Unset", "Set", "Taken"
          known,         \* cells for which set_deps was called
          dropped,       \* cells freed together with their DAG round
          overtaken,     \* cells whose set_deps returned on a load ahead of its store
          pc,            \* next atomic access of each thread
          cell,          \* the cell whose operation the thread is inside of
          deps           \* the three rotating maps of traverse_certify

cellVars   == <<is_certified, has_deps, direct_deps>>
threadVars == <<pc, cell, deps>>
vars       == <<is_certified, has_deps, direct_deps, known, dropped, overtaken,
                pc, cell, deps>>

DepMaps == [current : SUBSET Certs, includes : SUBSET Certs, witness : SUBSET Certs]

NoDeps == [current |-> {}, includes |-> {}, witness |-> {}]

\* Both callers add the dependencies of a cell after the map being drained:
\* the first loop turn of a fresh traversal then rotates them into place.
AddDeps(t, c) == [deps EXCEPT ![t].includes = @ \cup Includes[c],
                              ![t].witness  = @ \cup Witness[c]]

Init == /\ is_certified = [c \in Certs |-> FALSE]
        /\ has_deps     = [c \in Certs |-> FALSE]
        /\ direct_deps  = [c \in Certs |-> "Unset"]
        /\ known = {} /\ dropped = {} /\ overtaken = {}
        /\ pc   = [t \in Threads |-> "idle"]
        /\ cell = [t \in Threads |-> NoCert]
        /\ deps = [t \in Threads |-> NoDeps]

Goto(t, label) == pc' = [pc EXCEPT ![t] = label]

\* Mutant: set_deps traverses without asking whether the cell is certified.
SetDepsUnchecked(t, c) ==
  /\ pc[t] = "idle" /\ c \notin known \cup dropped
  /\ known' = known \cup {c}
  /\ cell' = [cell EXCEPT ![t] = c]
  /\ Goto(t, "traverse") /\ deps' = AddDeps(t, c)
  /\ UNCHANGED <<cellVars, dropped, overtaken>>

(* Cert::set_deps: the first check of is_certified.  If it already holds, the
   dependencies are traversed at once and the cell stays "Unset".             *)
SetDeps(t, c) ==
  /\ pc[t] = "idle" /\ c \notin known \cup dropped
  /\ known' = known \cup {c}
  /\ cell' = [cell EXCEPT ![t] = c]
  /\ IF is_certified[c] THEN Goto(t, "traverse") /\ deps' = AddDeps(t, c)
                        ELSE Goto(t, "store") /\ UNCHANGED deps
  /\ UNCHANGED <<cellVars, dropped, overtaken>>

(* CertInner::set_deps: the critical section, a panic unless it was "Unset".  *)
StoreDeps(t) ==
  /\ pc[t] = "store"
  /\ direct_deps' = [direct_deps EXCEPT ![cell[t]] = "Set"]
  /\ Goto(t, IF direct_deps[cell[t]] = "Unset" THEN "publish" ELSE "panic")
  /\ UNCHANGED <<is_certified, has_deps, known, dropped, overtaken, cell, deps>>

(* CertInner::set_deps: the Release store of has_deps after the unlock.       *)
PublishDeps(t) ==
  /\ \/ pc[t] = "publish" /\ Goto(t, "recheck")
     \/ pc[t] = "publish_take" /\ Goto(t, "take")
     \/ pc[t] = "publish_return" /\ Goto(t, "traverse")
  /\ has_deps' = [has_deps EXCEPT ![cell[t]] = TRUE]
  /\ UNCHANGED <<is_certified, direct_deps, known, dropped, overtaken, cell, deps>>

\* Mutant: set_deps returns right after publishing.
RecheckSkipped(t) ==
  /\ pc[t] = "recheck"
  /\ Goto(t, "traverse")
  /\ UNCHANGED <<cellVars, known, dropped, overtaken, cell, deps>>

(* Cert::set_deps: the second check, for a certify() that missed has_deps.    *)
RecheckCertified(t) ==
  /\ pc[t] = "recheck"
  /\ Goto(t, IF is_certified[cell[t]] THEN "take" ELSE "traverse")
  /\ UNCHANGED <<cellVars, known, dropped, overtaken, cell, deps>>

(* The same load performed while the store is still in the store buffer; the
   next locked instruction of the thread (a compare-exchange or the release of
   its reference to the cell) waits for the store.                            *)
LoadOvertakesStore(t) ==
  /\ pc[t] = "publish"
  /\ IF is_certified[cell[t]]
       THEN Goto(t, "publish_take") /\ UNCHANGED overtaken
       ELSE Goto(t, "publish_return") /\ overtaken' = overtaken \cup {cell[t]}
  /\ UNCHANGED <<cellVars, known, dropped, cell, deps>>

(* Cert::certify: CertInner::try_certify on a cell with proven delivery.      *)
Certify(t, c) ==
  /\ pc[t] = "idle" /\ c \in Roots \ dropped
  /\ is_certified' = [is_certified EXCEPT ![c] = TRUE]
  /\ cell' = [cell EXCEPT ![t] = c]
  /\ Goto(t, "take")
  /\ UNCHANGED <<has_deps, direct_deps, known, dropped, overtaken, deps>>

\* Mutant: has_deps is only loaded, so that two threads may both win it.
TakeFlagLoaded(t) ==
  /\ pc[t] = "take"
  /\ Goto(t, IF has_deps[cell[t]] THEN "lock" ELSE "traverse")
  /\ UNCHANGED <<cellVars, known, dropped, overtaken, cell, deps>>

(* CertInner::try_take_deps: the compare-exchange that elects the taker.      *)
TakeFlag(t) ==
  /\ pc[t] = "take"
  /\ has_deps' = [has_deps EXCEPT ![cell[t]] = FALSE]
  /\ Goto(t, IF has_deps[cell[t]] THEN "lock" ELSE "traverse")
  /\ UNCHANGED <<is_certified, direct_deps, known, dropped, overtaken, cell, deps>>

(* CertInner::try_take_deps: the critical section, a panic unless "Set".      *)
TakeDeps(t) ==
  /\ pc[t] = "lock"
  /\ direct_deps' = [direct_deps EXCEPT ![cell[t]] = "Taken"]
  /\ IF direct_deps[cell[t]] = "Set"
       THEN Goto(t, "traverse") /\ deps' = AddDeps(t, cell[t])
       ELSE Goto(t, "panic") /\ UNCHANGED deps
  /\ UNCHANGED <<is_certified, has_deps, known, dropped, overtaken, cell>>

\* Mutant: an entry that does not upgrade is looked at again and again.
CertifyAsDepStuck(t, d) ==
  /\ pc[t] = "traverse" /\ d \in deps[t].current \ dropped
  /\ deps' = [deps EXCEPT ![t].current = @ \ {d}]
  /\ is_certified' = [is_certified EXCEPT ![d] = TRUE]
  /\ cell' = [cell EXCEPT ![t] = d]
  /\ Goto(t, "take")
  /\ UNCHANGED <<has_deps, direct_deps, known, dropped, overtaken>>

(* Cert::traverse_certify: drain one entry; certify_as_dep if it upgrades.    *)
CertifyAsDep(t, d) ==
  /\ pc[t] = "traverse" /\ d \in deps[t].current
  /\ deps' = [deps EXCEPT ![t].current = @ \ {d}]
  /\ IF d \in dropped
       THEN UNCHANGED <<is_certified, pc, cell>>
       ELSE /\ is_certified' = [is_certified EXCEPT ![d] = TRUE]
            /\ cell' = [cell EXCEPT ![t] = d]
            /\ Goto(t, "take")
  /\ UNCHANGED <<has_deps, direct_deps, known, dropped, overtaken>>

(* Cert::traverse_certify: rotate_left once the current map is drained.       *)
RotateDeps(t) ==
  /\ pc[t] = "traverse" /\ deps[t].current = {} /\ deps[t] # NoDeps
  /\ deps' = [deps EXCEPT ![t] = [current  |-> deps[t].includes,
                                  includes |-> deps[t].witness,
                                  witness  |-> {}]]
  /\ UNCHANGED <<cellVars, known, dropped, overtaken, pc, cell>>

(* The operation returns when all three maps are empty.                       *)
Return(t) ==
  /\ pc[t] = "traverse" /\ deps[t] = NoDeps
  /\ Goto(t, "idle")
  /\ cell' = [cell EXCEPT ![t] = NoCert]
  /\ UNCHANGED <<cellVars, known, dropped, overtaken, deps>>

(* The last strong reference goes away with its DAG round.  A thread inside an
   operation of the cell holds one (upgrade() or &self), so it cannot be then. *)
DropCert(c) ==
  /\ c \notin dropped
  /\ \A t \in Threads : cell[t] = c => pc[t] \in {"traverse", "panic"}
  /\ dropped' = dropped \cup {c}
  /\ UNCHANGED <<cellVars, known, overtaken, threadVars>>

Step(t) == \/ StoreDeps(t) \/ PublishDeps(t) \/ RecheckCertified(t)
           \/ LoadOvertakesStore(t)
           \/ TakeFlag(t) \/ TakeDeps(t)
           \/ \E d \in Certs : CertifyAsDep(t, d)
           \/ RotateDeps(t) \/ Return(t)

Next == \/ \E t \in Threads : Step(t)
        \/ \E t \in Threads, c \in Certs : SetDeps(t, c) \/ Certify(t, c)
        \/ \E c \in Certs : DropCert(c)

Spec == Init /\ [][Next]_vars

(* A thread that entered an operation is eventually scheduled until it returns:
   no step of the code waits for another thread except for the two short
   critical sections.  Nobody is obliged to call the operations.              *)
FairSpec == Spec /\ \A t \in Threads : WF_vars(Step(t))
-----------------------------------------------------------------------------
Labels == {"idle", "store", "publish", "publish_take", "publish_return",
           "recheck", "take", "lock", "traverse", "panic"}

(* The values the cells and the threads range over.                           *)
TypeOK == /\ is_certified \in [Certs -> BOOLEAN]
          /\ has_deps \in [Certs -> BOOLEAN]
          /\ direct_deps \in [Certs -> {"Unset", "Set", "Taken"}]
          /\ known \subseteq Certs /\ dropped \subseteq Certs /\ overtaken \subseteq Certs
          /\ pc \in [Threads -> Labels]
          /\ cell \in [Threads -> Certs \cup {NoCert}]
          /\ deps \in [Threads -> DepMaps]

(* No interleaving of set_deps, certify and traversals reaches one of the
   panics "cert synchronisation is broken" and "cert deps must be set only
   once": the flag elects one taker, and only after the deps were stored.      *)
NoPanic == \A t \in Threads : pc[t] # "panic"

(* "taken at most once only if certified": the dependencies of a cell leave the
   mutex only for a certified cell, and a cell is never set again after that. *)
TakenOnlyIfCertified ==
  [][\A c \in Certs : direct_deps[c] # "Unset" /\ direct_deps'[c] # direct_deps[c]
        => direct_deps[c] = "Set" /\ direct_deps'[c] = "Taken" /\ is_certified[c]]_vars

Deps(c) == Includes[c] \cup Witness[c]

Quiet == \A t \in Threads : pc[t] = "idle"

(* The re-check in set_deps makes up for a certify() that missed has_deps: once
   every operation has returned, each dependency of a certified cell with known
   dependencies is certified as well, unless its memory is gone.  Only a cell
   whose re-check was performed ahead of the store it follows may be missed.  *)
NothingMissed ==
  Quiet => \A c \in known \ overtaken : is_certified[c] =>
              \A d \in Deps(c) \ dropped : is_certified[d]

(* The rotation of the three maps terminates and visits everything: a known
   dependency of a certified cell is eventually certified or freed.           *)
CertificationSpreads ==
  \A c \in Certs : \A d \in Deps(c) :
    (is_certified[c] /\ c \in known)
      ~> (is_certified[d] \/ d \in dropped \/ c \in overtaken)

Abs == INSTANCE Certification WITH certified <- {c \in Certs : is_certified[c]}

(* A cell becomes certified only as a root or through a certified depender.   *)
CertifiesNothingElse == Abs!AbsSafety
=============================================================================
