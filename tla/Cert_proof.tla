----------------------------- MODULE Cert_proof -----------------------------
(* Proofs about Cert for every set of cells and threads and every dependency
   graph.  The inductive invariant says who owns the right to the dependencies
   of a cell (Sync), that traversals only carry dependencies of certified cells
   (Sound) and that the dependencies of a certified cell are never left without
   somebody in charge (Charge), unless a load of its set_deps overtook the store. *)
EXTENDS Cert, TLAPS

Pending(t) == deps[t].current \cup deps[t].includes \cup deps[t].witness

\* Thread t is between storing the deps of c and publishing them, or between
\* winning has_deps and taking them: the dependencies are in its hands alone.
Holder(t, c) ==
  cell[t] = c /\ pc[t] \in {"store", "publish", "publish_take", "publish_return", "lock"}

\* What the label of a thread says about the cell it is working on.
AtLabel ==
  \A t \in Threads : /\ pc[t] # "idle" => cell[t] \in Certs
                     /\ pc[t] = "idle" => deps[t] = NoDeps
                     /\ pc[t] = "store" => direct_deps[cell[t]] = "Unset"
                     /\ pc[t] \in {"publish", "publish_take", "publish_return", "lock"}
                           => direct_deps[cell[t]] = "Set"
                     /\ pc[t] \in {"take", "lock", "publish_take"}
                           => is_certified[cell[t]]

OneHolder == \A t, u \in Threads : \A c \in Certs : Holder(t, c) /\ Holder(u, c) => t = u

CellState ==
  \A c \in Certs : /\ has_deps[c] => direct_deps[c] = "Set"
                   /\ c \notin known => direct_deps[c] = "Unset"
                   /\ \A t \in Threads : Holder(t, c) => ~has_deps[c] /\ c \in known

Sync == AtLabel /\ OneHolder /\ CellState

Safe == TypeOK /\ NoPanic /\ Sync

(* Only dependencies of certified cells are ever queued for certification.    *)
Sound == \A t \in Threads : \A d \in Pending(t) :
           \E c \in known : is_certified[c] /\ d \in Includes[c] \cup Witness[c]

Covered(c) == \A d \in Includes[c] \cup Witness[c] :
                is_certified[d] \/ d \in dropped \/ \E t \in Threads : d \in Pending(t)

WillTake(c) == \E t \in Threads :
                 /\ cell[t] = c
                 /\ \/ pc[t] \in {"store", "publish", "publish_take", "lock"}
                    \/ pc[t] \in {"take", "recheck"} /\ has_deps[c]

ChargeOf(c) ==
  IF is_certified[c]
    THEN Covered(c) \/ WillTake(c)
    ELSE has_deps[c] \/ \E t \in Threads : cell[t] = c /\ pc[t] \in {"store", "publish"}

Charge == \A c \in known \ overtaken : ChargeOf(c)

\* A thread that is to return with its store still buffered is recorded.
Recorded == \A t \in Threads : pc[t] = "publish_return" => cell[t] \in overtaken

InCharge == Recorded /\ Charge
-----------------------------------------------------------------------------
(* The initial state of the cells and threads satisfies the invariant.        *)
LEMMA SafeInit == Init => Safe
  BY DepsAssumption, NoCertAssumption
  DEF Init, Safe, TypeOK, DepMaps, Labels, NoPanic, Sync, AtLabel, OneHolder, CellState, Holder, NoDeps

(* Queueing the dependencies of a cell keeps the three maps well-typed.       *)
LEMMA AddDepsType ==
  ASSUME TypeOK, NEW t \in Threads, NEW c \in Certs
  PROVE  /\ AddDeps(t, c) \in [Threads -> DepMaps]
         /\ \A u \in Threads \ {t} : AddDeps(t, c)[u] = deps[u]
         /\ AddDeps(t, c)[t].current = deps[t].current
         /\ AddDeps(t, c)[t].includes = deps[t].includes \cup Includes[c]
         /\ AddDeps(t, c)[t].witness = deps[t].witness \cup Witness[c]
<1>1. deps[t] \in DepMaps /\ deps \in [Threads -> DepMaps]
  BY DEF TypeOK
<1>2. Includes[c] \subseteq Certs /\ Witness[c] \subseteq Certs
  BY DepsAssumption
<1> QED BY <1>1, <1>2, Zenon DEF AddDeps, DepMaps

(* Types are preserved by every atomic access of cert.rs.                     *)
LEMMA TypeStep == ASSUME TypeOK, AtLabel, [Next]_vars PROVE TypeOK'
<1> USE DEF TypeOK, Labels, Goto, cellVars, threadVars
<1>1. ASSUME NEW t \in Threads, NEW c \in Certs, SetDeps(t, c) PROVE TypeOK'
  <2>1. deps' \in [Threads -> DepMaps] BY <1>1, AddDepsType DEF SetDeps
  <2> QED BY <1>1, <2>1, Zenon DEF SetDeps
<1>2. ASSUME NEW t \in Threads, StoreDeps(t) PROVE TypeOK'
  BY <1>2, Zenon DEF StoreDeps
<1>3. ASSUME NEW t \in Threads, PublishDeps(t) PROVE TypeOK'
  BY <1>3, Zenon DEF PublishDeps
<1>4. ASSUME NEW t \in Threads, RecheckCertified(t) PROVE TypeOK'
  BY <1>4 DEF RecheckCertified
<1>5. ASSUME NEW t \in Threads, LoadOvertakesStore(t) PROVE TypeOK'
  <2>1. cell[t] \in Certs
    <3>1. pc[t] # "idle" BY <1>5 DEF LoadOvertakesStore
    <3> QED BY <3>1, Zenon DEF AtLabel
  <2>2. overtaken' \subseteq Certs BY <1>5, <2>1 DEF LoadOvertakesStore
  <2> QED BY <1>5, <2>2 DEF LoadOvertakesStore
<1>6. ASSUME NEW t \in Threads, NEW c \in Certs, Certify(t, c) PROVE TypeOK'
  BY <1>6 DEF Certify
<1>7. ASSUME NEW t \in Threads, TakeFlag(t) PROVE TypeOK'
  BY <1>7, Zenon DEF TakeFlag
<1>8. ASSUME NEW t \in Threads, TakeDeps(t) PROVE TypeOK'
  <2>0. cell[t] \in Certs
    <3>1. pc[t] # "idle" BY <1>8 DEF TakeDeps
    <3> QED BY <3>1, Zenon DEF AtLabel
  <2>1. deps' \in [Threads -> DepMaps] BY <1>8, <2>0, AddDepsType DEF TakeDeps
  <2> QED BY <1>8, <2>1, Zenon DEF TakeDeps
<1>9. ASSUME NEW t \in Threads, NEW d \in Certs, CertifyAsDep(t, d) PROVE TypeOK'
  <2>1. deps' \in [Threads -> DepMaps]
    <3>1. deps \in [Threads -> DepMaps] OBVIOUS
    <3>2. deps' = [deps EXCEPT ![t].current = @ \ {d}] BY <1>9 DEF CertifyAsDep
    <3> HIDE DEF TypeOK
    <3> QED BY <3>1, <3>2 DEF DepMaps
  <2>2. is_certified' \in [Certs -> BOOLEAN] BY <1>9, Zenon DEF CertifyAsDep
  <2>3. cell' \in [Threads -> Certs \cup {NoCert}] BY <1>9 DEF CertifyAsDep
  <2>4. pc' \in [Threads -> Labels] BY <1>9 DEF CertifyAsDep
  <2> QED BY <1>9, <2>1, <2>2, <2>3, <2>4 DEF CertifyAsDep
<1>10. ASSUME NEW t \in Threads, RotateDeps(t) PROVE TypeOK'
  <2>1. deps' \in [Threads -> DepMaps] BY <1>10 DEF RotateDeps, DepMaps
  <2> QED BY <1>10, <2>1 DEF RotateDeps
<1>11. ASSUME NEW t \in Threads, Return(t) PROVE TypeOK'
  BY <1>11 DEF Return
<1>12. ASSUME NEW c \in Certs, DropCert(c) PROVE TypeOK'
  BY <1>12 DEF DropCert
<1>13. CASE UNCHANGED vars
  BY <1>13 DEF vars
<1> QED
  BY <1>1, <1>2, <1>3, <1>4, <1>5, <1>6, <1>7, <1>8, <1>9, <1>10, <1>11, <1>12, <1>13
  DEF Next, Step
(* The ownership discipline is preserved by every atomic access of cert.rs.   *)
LEMMA SyncStep == ASSUME Safe, [Next]_vars PROVE NoPanic' /\ Sync'
<1> USE DEF Safe, TypeOK, NoPanic, Sync, AtLabel, OneHolder, CellState, Holder, Goto,
            cellVars, threadVars
<1>1. ASSUME NEW t \in Threads, NEW c \in Certs, SetDeps(t, c) PROVE NoPanic' /\ Sync'
  <2>1. \A u \in Threads \ {t} : deps'[u] = deps[u] BY <1>1, AddDepsType DEF SetDeps
  <2>2. NoPanic' BY <1>1 DEF SetDeps
  <2>3. AtLabel' BY <1>1, <2>1 DEF SetDeps
  <2>4. OneHolder' BY <1>1 DEF SetDeps
  <2>5. CellState' BY <1>1 DEF SetDeps
  <2> QED BY <2>2, <2>3, <2>4, <2>5
<1>2. ASSUME NEW t \in Threads, StoreDeps(t) PROVE NoPanic' /\ Sync'
  BY <1>2 DEF StoreDeps
<1>3. ASSUME NEW t \in Threads, PublishDeps(t) PROVE NoPanic' /\ Sync'
  BY <1>3 DEF PublishDeps
<1>4. ASSUME NEW t \in Threads, RecheckCertified(t) PROVE NoPanic' /\ Sync'
  BY <1>4 DEF RecheckCertified
<1>5. ASSUME NEW t \in Threads, LoadOvertakesStore(t) PROVE NoPanic' /\ Sync'
  BY <1>5 DEF LoadOvertakesStore
<1>6. ASSUME NEW t \in Threads, NEW c \in Certs, Certify(t, c) PROVE NoPanic' /\ Sync'
  BY <1>6 DEF Certify
<1>7. ASSUME NEW t \in Threads, TakeFlag(t) PROVE NoPanic' /\ Sync'
  BY <1>7 DEF TakeFlag
<1>8. ASSUME NEW t \in Threads, TakeDeps(t) PROVE NoPanic' /\ Sync'
  <2>1. cell[t] \in Certs /\ direct_deps[cell[t]] = "Set" BY <1>8 DEF TakeDeps
  <2>2. \A u \in Threads \ {t} : deps'[u] = deps[u]
    <3>1. deps' = AddDeps(t, cell[t]) BY <1>8, <2>1, Zenon DEF TakeDeps
    <3>2. TypeOK OBVIOUS
    <3> HIDE DEF Safe, TypeOK
    <3> QED BY <2>1, <3>1, <3>2, AddDepsType
  <2> QED BY <1>8, <2>1, <2>2 DEF TakeDeps
<1>9. ASSUME NEW t \in Threads, NEW d \in Certs, CertifyAsDep(t, d) PROVE NoPanic' /\ Sync'
  BY <1>9 DEF CertifyAsDep
<1>10. ASSUME NEW t \in Threads, RotateDeps(t) PROVE NoPanic' /\ Sync'
  BY <1>10 DEF RotateDeps
<1>11. ASSUME NEW t \in Threads, Return(t) PROVE NoPanic' /\ Sync'
  BY <1>11 DEF Return
<1>12. ASSUME NEW c \in Certs, DropCert(c) PROVE NoPanic' /\ Sync'
  BY <1>12 DEF DropCert
<1>13. CASE UNCHANGED vars
  BY <1>13 DEF vars
<1> QED
  BY <1>1, <1>2, <1>3, <1>4, <1>5, <1>6, <1>7, <1>8, <1>9, <1>10, <1>11, <1>12, <1>13, Zenon
  DEF Next, Step
(* The panics of cert.rs are unreachable on every target, whatever the number
   of threads and the shape of the dependency graph.                          *)
THEOREM NeverPanics == Spec => [](TypeOK /\ NoPanic)
<1>1. Safe /\ [Next]_vars => Safe'
  BY TypeStep, SyncStep DEF Safe, Sync
<1>2. Safe => TypeOK /\ NoPanic
  BY DEF Safe
<1> QED BY SafeInit, <1>1, <1>2, PTL DEF Spec

(* The dependencies of a cell leave its mutex once, and only once certified.  *)
THEOREM DepsAreTakenOnce == Spec => TakenOnlyIfCertified
<1> DEFINE Act == \A c \in Certs : direct_deps[c] # "Unset" /\ direct_deps'[c] # direct_deps[c]
                     => direct_deps[c] = "Set" /\ direct_deps'[c] = "Taken" /\ is_certified[c]
<1>1. Safe /\ [Next]_vars => Safe'
  BY TypeStep, SyncStep DEF Safe, Sync
<1>2. ASSUME Safe, Next PROVE Act
  <2> USE DEF Safe, TypeOK, Sync, AtLabel
  <2>1. ASSUME NEW t \in Threads, StoreDeps(t) PROVE Act BY <1>2, <2>1 DEF StoreDeps
  <2>2. ASSUME NEW t \in Threads, TakeDeps(t) PROVE Act BY <1>2, <2>2 DEF TakeDeps
  <2>3. CASE UNCHANGED direct_deps BY <2>3
  <2> QED BY <1>2, <2>1, <2>2, <2>3 DEF Next, Step, SetDeps, PublishDeps, RecheckCertified,
             LoadOvertakesStore, Certify, TakeFlag, CertifyAsDep, RotateDeps, Return, DropCert,
             cellVars
<1>3. Safe /\ [Next]_vars => [Act]_vars
  BY <1>2, SMTT(30)
<1> QED BY SafeInit, <1>1, <1>3, PTL DEF Spec, TakenOnlyIfCertified
-----------------------------------------------------------------------------
(* How one step changes what the traversals still have to certify.            *)
LEMMA PendingStep ==
  ASSUME Safe, Next
  PROVE  \/ \A u \in Threads : Pending(u)' = Pending(u)
         \/ \E t \in Threads, c \in Certs :
              /\ c \in known' /\ is_certified[c]
              /\ SetDeps(t, c) \/ (TakeDeps(t) /\ cell[t] = c)
              /\ Pending(t)' = Pending(t) \cup Includes[c] \cup Witness[c]
              /\ \A u \in Threads \ {t} : Pending(u)' = Pending(u)
         \/ \E t \in Threads, d \in Certs :
              /\ CertifyAsDep(t, d) /\ d \in Pending(t)
              /\ Pending(t)' \subseteq Pending(t) /\ Pending(t) \subseteq Pending(t)' \cup {d}
              /\ \A u \in Threads \ {t} : Pending(u)' = Pending(u)
<1>0. TypeOK /\ AtLabel /\ CellState
  BY SMTT(30) DEF Safe, Sync
<1>1. ASSUME NEW t \in Threads, NEW c \in Certs, deps' = AddDeps(t, c)
      PROVE  /\ Pending(t)' = Pending(t) \cup Includes[c] \cup Witness[c]
             /\ \A u \in Threads \ {t} : Pending(u)' = Pending(u)
  BY <1>0, <1>1, AddDepsType DEF Pending
<1>2. CASE UNCHANGED deps
  BY <1>2 DEF Pending
<1>3. ASSUME NEW t \in Threads, NEW c \in Certs, SetDeps(t, c), deps' = AddDeps(t, c),
             is_certified[c]
      PROVE  /\ c \in known' /\ is_certified[c]
             /\ Pending(t)' = Pending(t) \cup Includes[c] \cup Witness[c]
             /\ \A u \in Threads \ {t} : Pending(u)' = Pending(u)
  BY <1>3, <1>1 DEF SetDeps
<1>4. ASSUME NEW t \in Threads, TakeDeps(t), ~ UNCHANGED deps
      PROVE  /\ cell[t] \in Certs /\ cell[t] \in known' /\ is_certified[cell[t]]
             /\ Pending(t)' = Pending(t) \cup Includes[cell[t]] \cup Witness[cell[t]]
             /\ \A u \in Threads \ {t} : Pending(u)' = Pending(u)
  <2>1. cell[t] \in Certs /\ is_certified[cell[t]] BY <1>4, <1>0 DEF TakeDeps, AtLabel
  <2>2. cell[t] \in known' BY <1>4, <1>0, <2>1 DEF TakeDeps, CellState, Holder
  <2>3. deps' = AddDeps(t, cell[t]) BY <1>4 DEF TakeDeps
  <2> QED BY <2>1, <2>2, <2>3, <1>1
<1>5. ASSUME NEW t \in Threads, NEW d \in Certs, CertifyAsDep(t, d)
      PROVE  /\ d \in Pending(t)
             /\ Pending(t)' \subseteq Pending(t) /\ Pending(t) \subseteq Pending(t)' \cup {d}
             /\ \A u \in Threads \ {t} : Pending(u)' = Pending(u)
  <2>1. deps \in [Threads -> DepMaps] BY <1>0 DEF TypeOK
  <2>2. d \in deps[t].current /\ deps' = [deps EXCEPT ![t].current = @ \ {d}]
    BY <1>5 DEF CertifyAsDep
  <2> QED BY <2>1, <2>2 DEF Pending, DepMaps
<1>6. ASSUME NEW t \in Threads, RotateDeps(t)
      PROVE  \A u \in Threads : Pending(u)' = Pending(u)
  <2>1. deps \in [Threads -> DepMaps] BY <1>0 DEF TypeOK
  <2> QED BY <1>6, <2>1 DEF RotateDeps, Pending, DepMaps
<1>7. ASSUME NEW t \in Threads, NEW c \in Certs, SetDeps(t, c), ~ UNCHANGED deps
      PROVE deps' = AddDeps(t, c) /\ is_certified[c]
  BY <1>7, SMTT(30) DEF SetDeps
<1>8. \/ UNCHANGED deps
      \/ \E t \in Threads, c \in Certs : SetDeps(t, c)
      \/ \E t \in Threads : TakeDeps(t)
      \/ \E t \in Threads, d \in Certs : CertifyAsDep(t, d)
      \/ \E t \in Threads : RotateDeps(t)
  BY DEF Next, Step, StoreDeps, PublishDeps, RecheckCertified, LoadOvertakesStore, Certify,
         TakeFlag, Return, DropCert, threadVars
<1>9. CASE ~ UNCHANGED deps /\ \E t \in Threads, c \in Certs : SetDeps(t, c)
  <2>1. PICK t \in Threads, c \in Certs : SetDeps(t, c) BY <1>9
  <2>2. deps' = AddDeps(t, c) /\ is_certified[c] BY <1>9, <2>1, <1>7
  <2>3. /\ c \in known' /\ is_certified[c]
        /\ Pending(t)' = Pending(t) \cup Includes[c] \cup Witness[c]
        /\ \A u \in Threads \ {t} : Pending(u)' = Pending(u)
    BY <2>1, <2>2, <1>3
  <2> QED BY <2>1, <2>3
<1>10. CASE ~ UNCHANGED deps /\ \E t \in Threads : TakeDeps(t)
  <2>1. PICK t \in Threads : TakeDeps(t) BY <1>10
  <2>2. /\ cell[t] \in Certs /\ cell[t] \in known' /\ is_certified[cell[t]]
        /\ Pending(t)' = Pending(t) \cup Includes[cell[t]] \cup Witness[cell[t]]
        /\ \A u \in Threads \ {t} : Pending(u)' = Pending(u)
    BY <1>4, <1>10, <2>1
  <2> QED BY <2>1, <2>2
<1>11. CASE \E t \in Threads, d \in Certs : CertifyAsDep(t, d)
  <2>1. PICK t \in Threads, d \in Certs : CertifyAsDep(t, d) BY <1>11
  <2> QED BY <2>1, <1>5
<1>12. CASE \E t \in Threads : RotateDeps(t)
  BY <1>6, <1>12
<1> QED BY <1>2, <1>8, <1>9, <1>10, <1>11, <1>12

(* Certification, knowledge and freed memory only grow.                       *)
LEMMA Monotone ==
  ASSUME Safe, Next
  PROVE  /\ known \subseteq known' /\ dropped \subseteq dropped' /\ overtaken \subseteq overtaken'
         /\ \A c \in Certs : is_certified[c] => is_certified'[c]
  BY DEF Safe, TypeOK, Next, Step, SetDeps, StoreDeps, PublishDeps, RecheckCertified,
         LoadOvertakesStore, Certify, TakeFlag, TakeDeps, CertifyAsDep, RotateDeps, Return,
         DropCert, cellVars

(* Traversals never come to carry a cell that no certified cell depends on.   *)
LEMMA SoundStep == ASSUME Safe, Sound, [Next]_vars PROVE Sound'
<1>1. CASE UNCHANGED vars
  BY <1>1 DEF vars, Sound, Pending
<1>2. CASE Next
  <2> SUFFICES ASSUME NEW u \in Threads, NEW e \in Pending(u)'
               PROVE  \E c \in known' : is_certified'[c] /\ e \in Includes[c] \cup Witness[c]
    BY DEF Sound
  <2>1. known \subseteq known' /\ known' \subseteq Certs /\ known \subseteq Certs
    BY <1>2, Monotone, TypeStep DEF Safe, Sync, TypeOK
  <2>2. \A c \in known : is_certified[c] => is_certified'[c]
    BY <1>2, <2>1, Monotone
  <2>3. CASE e \in Pending(u)
    BY <2>1, <2>2, <2>3 DEF Sound
  <2>4. CASE e \notin Pending(u)
    <3>1. PICK c \in Certs : /\ c \in known' /\ is_certified[c]
                             /\ e \in Includes[c] \cup Witness[c]
      BY <1>2, <2>4, PendingStep
    <3>2. is_certified'[c] BY <1>2, <3>1, Monotone
    <3> QED BY <3>1, <3>2
  <2> QED BY <2>3, <2>4
<1> QED BY <1>1, <1>2

(* Every step of the threads is a step of the abstract specification: nothing
   is certified but roots and dependencies of certified cells.                *)
THEOREM Refinement == Spec => CertifiesNothingElse
<1> DEFINE cs == {c \in Certs : is_certified[c]}
<1>1. Init => Safe /\ Sound
  BY SafeInit DEF Init, Sound, Pending, NoDeps
<1>2. Safe /\ Sound /\ [Next]_vars => (Safe /\ Sound)'
  BY TypeStep, SyncStep, SoundStep DEF Safe, Sync
<1>3. Init => Abs!AbsInit
  BY DEF Init, Abs!AbsInit
<1>4. ASSUME Safe, Sound, Next PROVE [Abs!AbsNext]_<<cs, known, dropped>>
  <2> USE <1>4 DEF Abs!AbsNext, Abs!Learn, Abs!ProveDelivery, Abs!Propagate, Abs!Free,
          Abs!DirectDeps
  <2>0. TypeOK BY DEF Safe
  <2>1. ASSUME NEW t \in Threads, NEW c \in Certs, SetDeps(t, c) PROVE Abs!Learn(c)
    BY <2>1 DEF SetDeps, cellVars
  <2>2. ASSUME NEW t \in Threads, NEW c \in Certs, Certify(t, c), ~is_certified[c]
        PROVE  Abs!ProveDelivery(c)
    BY <2>0, <2>2 DEF Certify, TypeOK
  <2>3. ASSUME NEW t \in Threads, NEW d \in Certs, CertifyAsDep(t, d), ~is_certified[d],
               d \notin dropped
        PROVE  Abs!Propagate(d)
    <3>1. d \in Pending(t) BY <2>3 DEF CertifyAsDep, Pending
    <3>2. PICK c \in known : is_certified[c] /\ d \in Includes[c] \cup Witness[c]
      BY <3>1 DEF Sound
    <3>3. c \in cs \cap known BY <2>0, <3>2 DEF TypeOK
    <3>4. is_certified' = [is_certified EXCEPT ![d] = TRUE] /\ UNCHANGED <<known, dropped>>
      BY <2>3 DEF CertifyAsDep
    <3>5. cs' = cs \cup {d} BY <2>0, <3>4 DEF TypeOK
    <3> QED BY <2>3, <3>2, <3>3, <3>4, <3>5
  <2>4. ASSUME NEW c \in Certs, DropCert(c) PROVE Abs!Free(c)
    BY <2>4 DEF DropCert, cellVars
  <2>5. CASE UNCHANGED <<is_certified, known, dropped>>
    BY <2>5
  <2>6. ASSUME NEW c \in Certs, is_certified[c], is_certified' = [is_certified EXCEPT ![c] = TRUE]
        PROVE  UNCHANGED is_certified
    BY <2>0, <2>6 DEF TypeOK
  <2>7. \/ \E t \in Threads, c \in Certs : SetDeps(t, c)
        \/ \E t \in Threads, c \in Certs : Certify(t, c) /\ ~is_certified[c]
        \/ \E t \in Threads, d \in Certs : CertifyAsDep(t, d) /\ ~is_certified[d] /\ d \notin dropped
        \/ \E c \in Certs : DropCert(c)
        \/ UNCHANGED <<is_certified, known, dropped>>
    BY <2>6 DEF Next, Step, StoreDeps, PublishDeps, RecheckCertified, LoadOvertakesStore, Certify,
           TakeFlag, TakeDeps, CertifyAsDep, RotateDeps, Return, cellVars
  <2> HIDE DEF Abs!Learn, Abs!ProveDelivery, Abs!Propagate, Abs!Free
  <2> QED BY <2>1, <2>2, <2>3, <2>4, <2>5, <2>7
<1>5. UNCHANGED vars => UNCHANGED <<cs, known, dropped>>
  BY DEF vars
<1>6. Safe /\ Sound /\ [Next]_vars => [Abs!AbsNext]_<<cs, known, dropped>>
  BY <1>4, <1>5
<1> QED BY <1>1, <1>2, <1>3, <1>6, PTL DEF Spec, CertifiesNothingElse, Abs!AbsSafety, Abs!absVars
-----------------------------------------------------------------------------
(* Every early look of set_deps that finds the cell uncertified is recorded.  *)
LEMMA RecordedStep ==
  ASSUME Safe, Recorded, [Next]_vars PROVE Recorded'
  BY DEF Recorded, Safe, Sync, AtLabel, TypeOK, Next, Step, SetDeps, StoreDeps, PublishDeps,
         RecheckCertified, LoadOvertakesStore, Certify, TakeFlag, TakeDeps, CertifyAsDep,
         RotateDeps, Return, DropCert, Goto, cellVars, threadVars, vars

(* What one cell still needs stays covered while traversals go on.            *)
LEMMA CoveredStep ==
  ASSUME Safe, Next, NEW c \in Certs, Covered(c) PROVE Covered(c)'
<1> SUFFICES ASSUME NEW d \in Includes[c] \cup Witness[c]
             PROVE  is_certified'[d] \/ d \in dropped' \/ \E t \in Threads : d \in Pending(t)'
  BY DEF Covered
<1>0. d \in Certs BY DepsAssumption
<1>1. CASE is_certified[d] \/ d \in dropped
  BY <1>0, <1>1, Monotone
<1>2. ASSUME NEW t \in Threads, d \in Pending(t), d \notin Pending(t)'
      PROVE  is_certified'[d] \/ d \in dropped'
  <2>1. CertifyAsDep(t, d) BY <1>2, PendingStep
  <2> QED BY <1>0, <2>1 DEF CertifyAsDep, Safe, TypeOK
<1> QED BY <1>1, <1>2 DEF Covered

(* Nobody leaves the dependencies of a certified cell without someone in
   charge: set_deps re-checks after publishing, certify looks after marking.   *)
LEMMA ChargeStep ==
  ASSUME Safe, InCharge, Next PROVE Charge'
<1>0. /\ TypeOK /\ NoPanic /\ AtLabel /\ OneHolder /\ CellState /\ Recorded /\ Charge
      /\ TypeOK'
  BY TypeStep DEF Safe, Sync, InCharge
<1> SUFFICES ASSUME NEW e \in known' \ overtaken' PROVE ChargeOf(e)'
  BY DEF Charge
<1>e. e \in Certs
  BY <1>0 DEF TypeOK
<1>c. Covered(e) => Covered(e)'
  BY <1>e, CoveredStep
<1>1. ASSUME NEW t \in Threads, NEW c \in Certs, SetDeps(t, c) PROVE ChargeOf(e)'
  <2>1. CASE e = c /\ is_certified[c]
    <3>1. deps' = AddDeps(t, c) /\ is_certified' = is_certified BY <1>1, <2>1 DEF SetDeps, cellVars
    <3>2. Includes[c] \cup Witness[c] \subseteq Pending(t)'
      BY <1>0, <3>1, AddDepsType DEF Pending
    <3> QED BY <2>1, <3>1, <3>2 DEF ChargeOf, Covered
  <2>2. CASE e = c /\ ~is_certified[c]
    BY <1>0, <1>1, <2>2 DEF SetDeps, TypeOK, ChargeOf, Goto, cellVars
  <2>3. CASE e # c
    <3>1. e \in known BY <1>1, <2>3 DEF SetDeps
    <3>2. WillTake(e) => WillTake(e)'
      BY <1>0, <1>1 DEF SetDeps, TypeOK, WillTake, Goto, cellVars
    <3> QED BY <1>0, <1>1, <1>c, <3>1, <3>2 DEF SetDeps, Charge, ChargeOf, TypeOK, Goto, cellVars
  <2> QED BY <2>1, <2>2, <2>3
<1>2. ASSUME NEW t \in Threads, TakeDeps(t) PROVE ChargeOf(e)'
  <2>1. cell[t] \in Certs /\ direct_deps[cell[t]] = "Set" BY <1>0, <1>2 DEF TakeDeps, AtLabel
  <2>2. CASE e = cell[t]
    <3>1. deps' = AddDeps(t, e) /\ is_certified' = is_certified /\ is_certified[e]
      BY <1>0, <1>2, <2>1, <2>2 DEF TakeDeps, AtLabel
    <3>2. Includes[e] \cup Witness[e] \subseteq Pending(t)'
      BY <1>0, <1>e, <3>1, AddDepsType DEF Pending
    <3> QED BY <3>1, <3>2, SMTT(30) DEF ChargeOf, Covered
  <2>3. CASE e # cell[t]
    <3>1. WillTake(e) => WillTake(e)'
      BY <1>0, <1>2, <2>3 DEF TakeDeps, TypeOK, WillTake, Goto
    <3> QED BY <1>0, <1>2, <1>c, <2>3, <3>1 DEF TakeDeps, Charge, ChargeOf, TypeOK, Goto
  <2> QED BY <2>2, <2>3
<1>k. ASSUME UNCHANGED known PROVE ChargeOf(e)
  BY <1>0, <1>k, Monotone, SMTT(30) DEF Charge
<1>3. ASSUME NEW t \in Threads, StoreDeps(t) PROVE ChargeOf(e)'
  BY <1>0, <1>e, <1>c, <1>k, <1>3
  DEF StoreDeps, ChargeOf, WillTake, TypeOK, AtLabel, Recorded, Goto, cellVars
<1>4. ASSUME NEW t \in Threads, PublishDeps(t) PROVE ChargeOf(e)'
  <2>1. /\ \/ pc[t] = "publish" /\ pc' = [pc EXCEPT ![t] = "recheck"]
           \/ pc[t] = "publish_take" /\ pc' = [pc EXCEPT ![t] = "take"]
           \/ pc[t] = "publish_return" /\ pc' = [pc EXCEPT ![t] = "traverse"]
        /\ has_deps' = [has_deps EXCEPT ![cell[t]] = TRUE]
        /\ UNCHANGED <<is_certified, cell, known>> /\ cell[t] \in Certs
    BY <1>0, <1>4 DEF PublishDeps, AtLabel, Goto
  <2>2. has_deps[e] => has_deps'[e] BY <1>0, <1>e, <2>1 DEF TypeOK
  <2>3. WillTake(e) => WillTake(e)' BY <1>0, <1>e, <2>1, <2>2 DEF TypeOK, WillTake
  <2> QED BY <1>0, <1>e, <1>c, <1>k, <2>1, <2>2, <2>3 DEF ChargeOf, TypeOK
<1>5. ASSUME NEW t \in Threads, RecheckCertified(t) PROVE ChargeOf(e)'
  BY <1>0, <1>e, <1>c, <1>k, <1>5, SMTT(30)
  DEF RecheckCertified, ChargeOf, WillTake, TypeOK, AtLabel, Recorded, Goto, cellVars
<1>6. ASSUME NEW t \in Threads, NEW c \in Certs, Certify(t, c) PROVE ChargeOf(e)'
  BY <1>0, <1>e, <1>c, <1>k, <1>6
  DEF Certify, ChargeOf, WillTake, TypeOK, AtLabel, Recorded, Goto, cellVars
<1>7. ASSUME NEW t \in Threads, TakeFlag(t) PROVE ChargeOf(e)'
  BY <1>0, <1>e, <1>c, <1>k, <1>7
  DEF TakeFlag, ChargeOf, WillTake, TypeOK, AtLabel, Recorded, Goto, cellVars
<1>8. ASSUME NEW t \in Threads, NEW d \in Certs, CertifyAsDep(t, d) PROVE ChargeOf(e)'
  BY <1>0, <1>e, <1>c, <1>k, <1>8
  DEF CertifyAsDep, ChargeOf, WillTake, TypeOK, AtLabel, Recorded, Goto, cellVars
<1>9. ASSUME NEW t \in Threads, RotateDeps(t) PROVE ChargeOf(e)'
  BY <1>0, <1>e, <1>c, <1>k, <1>9, SMTT(30)
  DEF RotateDeps, ChargeOf, WillTake, TypeOK, AtLabel, Recorded, Goto, cellVars
<1>10. ASSUME NEW t \in Threads, Return(t) PROVE ChargeOf(e)'
  BY <1>0, <1>e, <1>c, <1>k, <1>10, SMTT(30)
  DEF Return, ChargeOf, WillTake, TypeOK, AtLabel, Recorded, Goto, cellVars
<1>11. ASSUME NEW c \in Certs, DropCert(c) PROVE ChargeOf(e)'
  BY <1>0, <1>c, <1>k, <1>11 DEF DropCert, ChargeOf, WillTake, cellVars, threadVars
<1>12. ASSUME NEW t \in Threads, LoadOvertakesStore(t) PROVE ChargeOf(e)'
  BY <1>0, <1>e, <1>c, <1>k, <1>12
  DEF LoadOvertakesStore, ChargeOf, WillTake, TypeOK, AtLabel, Recorded, Goto, cellVars
<1> QED
  BY <1>1, <1>2, <1>3, <1>4, <1>5, <1>6, <1>7, <1>8, <1>9, <1>10, <1>11, <1>12 DEF Next, Step

(* No dependency of a certified cell is forgotten once all operations of set_deps
   and certify have returned, unless its re-check overtook the store.          *)
THEOREM NothingIsMissed == Spec => []NothingMissed
<1>1. Init => Safe /\ InCharge
  BY SafeInit DEF Init, InCharge, Recorded, Charge
<1>2. Safe /\ InCharge /\ [Next]_vars => (Safe /\ InCharge)'
  <2> SUFFICES ASSUME Safe, InCharge, [Next]_vars PROVE (Safe /\ InCharge)'
    OBVIOUS
  <2>1. Safe' BY TypeStep, SyncStep DEF Safe, Sync
  <2>2. Recorded' BY RecordedStep DEF InCharge
  <2>3. CASE UNCHANGED vars
    BY <2>1, <2>3 DEF vars, InCharge, Recorded, Charge, ChargeOf, Covered, WillTake, Pending
  <2>4. CASE Next BY <2>1, <2>2, <2>4, ChargeStep DEF InCharge
  <2> QED BY <2>3, <2>4
<1>3. Safe /\ InCharge => NothingMissed
  <2> SUFFICES ASSUME Safe, InCharge, \A t \in Threads : pc[t] = "idle",
                      NEW c \in known \ overtaken, is_certified[c],
                      NEW d \in Deps(c) \ dropped
               PROVE  is_certified[d]
    BY DEF NothingMissed, Quiet
  <2>1. \A t \in Threads : Pending(t) = {} BY DEF Safe, Sync, AtLabel, NoDeps, Pending
  <2>2. ~WillTake(c) BY DEF WillTake
  <2>3. ChargeOf(c) BY DEF InCharge, Charge
  <2> QED BY <2>1, <2>2, <2>3 DEF ChargeOf, Covered, Deps
<1> QED BY <1>1, <1>2, <1>3, PTL DEF Spec
=============================================================================
