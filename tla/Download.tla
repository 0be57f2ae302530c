------------------------------ MODULE Download ------------------------------
(* One download task and the peers it asks for a point @ r:
   consensus/src/intercom/dependency/{downloader,uploader}.rs.

   The task asks the peers scheduled for r+1, the signers of the point among them, and
   gives up when 2F of them have not got the point.  This node is scheduled for
   r+1 too.                                                                     *)
EXTENDS Naturals, FiniteSets, FiniteSetsExt

CONSTANTS Peers,          \* the others scheduled for r+1
          Author,         \* of the point
          Faulty,         \* peers that do not follow the protocol
          Query,          \* DownloadType: "exponential" to validate, "linear" to sync
          DownloadPeers,  \* ConsensusConfig.download_peers
          Attempts,       \* values of the counter of attempts: 256 in the code
          MaxFailed,      \* the greatest value of failed_queries: usize::MAX in the code
          Moving,         \* bound: peers whose state in the schedule changes meanwhile
          LateDependers,  \* bound: peers that refer to the point meanwhile
          Advancing       \* bound: peers that leave the round behind meanwhile

\* PeerCount::try_from, this node included, and PeerCount::majority_of_others.
OneF             == (Cardinality(Peers) + 2) \div 3
MajorityOfOthers == 2 * OneF

ASSUME DownloadAssumption ==
  /\ IsFiniteSet(Peers) /\ Cardinality(Peers) >= 2
  /\ Cardinality((Peers \cup {Author}) \cap Faulty) <= OneF
  /\ Query \in {"exponential", "linear"}
  /\ DownloadPeers \in Nat \ {0} /\ Attempts \in Nat \ {0} /\ MaxFailed \in Nat

VARIABLES result,     \* of the task
          undone,     \* DownloadTask.undone_peers
          resolved,   \* peers with PeerState::Resolved, as the task knows them
          failed,     \* PeerStatus.failed_queries
          depender,   \* peers with PeerStatus.is_depender
          inFlight,   \* peers with PeerStatus.is_in_flight
          notFound,   \* DownloadTask.not_found
          attempt,    \* DownloadTask.attempt
          inbox,      \* dependers that are sent to the task
          illFormed,  \* what Verifier::verify says of the point
          status,     \* of the point in the store of each peer
          kept,       \* peers whose last_back_bottom is not above r
          signed      \* peers that signed the point

taskVars == <<result, undone, failed, depender, inFlight, notFound, attempt>>
peerVars == <<illFormed, status, kept, signed>>
downloadVars == <<taskVars, resolved, inbox, peerVars>>

Asked  == Peers \cup {Author}
Honest == Asked \ Faulty

Statuses == {"unknown",     \* PointStatusStored::Exists or none
             "valid",       \* Validated, valid
             "proven",      \* Validated, certified
             "rejected",    \* any other status that is not certified
             "provenBad"}   \* IllFormed or NotFound, certified

\* The author's next point carries 2F signatures of others.
Signers   == (signed \cup Faulty) \cap (Peers \ {Author})
Certified == Cardinality(Signers) >= MajorityOfOthers

(* Downloader::run_task.  An honest author has its own point.                   *)
DownloadInit ==
  /\ result = "queued"
  /\ undone = Asked /\ resolved \in {R \in SUBSET Asked : Asked \ Moving \subseteq R}
  /\ failed = [p \in Asked |-> 0] /\ depender = {} /\ inFlight = {}
  /\ notFound = 0 /\ attempt = 0
  /\ inbox \in {{Author}} \cup {{Author, p} : p \in LateDependers}
  /\ illFormed \in {b \in BOOLEAN : b => Author \in Faulty}
  /\ status = [p \in Asked |-> IF p = Author /\ p \in Honest THEN "valid" ELSE "unknown"]
  /\ kept = Asked /\ signed = {}
-----------------------------------------------------------------------------
(* The limiter lets the task in.                                                *)
Start ==
  /\ result = "queued" /\ result' = "running"
  /\ UNCHANGED <<undone, failed, depender, inFlight, notFound, attempt, resolved, inbox, peerVars>>

\* The loop is left: queries and receivers are dropped.
End(res) ==
  /\ result' = res /\ inFlight' = {} /\ depender' = {} /\ inbox' = {}
  /\ failed' = [p \in Asked |-> 0] /\ attempt' = 0
  /\ UNCHANGED <<resolved, peerVars>>

Verdict == IF illFormed THEN "illFormed" ELSE "verified"

(* DownloadTask::run, the first arm: the point comes by broadcast.              *)
Broadcast == result = "running" /\ End(Verdict) /\ UNCHANGED <<undone, notFound>>

(* The second arm: DownloadTask::add_depender.                                  *)
AddDepender(p) ==
  /\ result = "running" /\ p \in inbox
  /\ depender' = depender \cup ({p} \cap undone)
  /\ inbox' = inbox \ {p}
  /\ UNCHANGED <<result, undone, failed, inFlight, notFound, attempt, resolved, peerVars>>

(* The third arm: DownloadTask::match_peer_updates; a lagging receiver loses updates. *)
PeerUpdate(p) ==
  /\ result = "running" /\ inbox = {} /\ p \in Moving
  /\ resolved' = IF p \in resolved THEN resolved \ {p} ELSE resolved \cup {p}
  /\ UNCHANGED <<taskVars, inbox, peerVars>>

\* A failed query removes the peer.
RetryNever(p) ==
  /\ undone' = undone \ {p} /\ inFlight' = inFlight \ {p}
  /\ UNCHANGED <<result, failed, depender, notFound, attempt, resolved, inbox, peerVars>>

(* DownloadTask::verify: no answer yet, the peer will be asked again.           *)
Retry(p) ==
  /\ inFlight' = inFlight \ {p}
  /\ failed' = [failed EXCEPT ![p] = IF @ < MaxFailed THEN @ + 1 ELSE @]
  /\ UNCHANGED <<result, undone, depender, notFound, attempt, resolved, inbox, peerVars>>

\* The peer is counted and stays in the map.
CountNoneAgain(p) ==
  /\ notFound' = notFound + 1
  /\ IF notFound' >= MajorityOfOthers
     THEN End("notFound") /\ UNCHANGED undone
     ELSE inFlight' = inFlight \ {p} /\ UNCHANGED <<result, undone, depender, failed, attempt, resolved, inbox, peerVars>>

(* DownloadTask::verify: the peer has nothing, or not this point; one of 2F.    *)
CountNone(p) ==
  /\ undone' = undone \ {p} /\ notFound' = notFound + 1
  /\ IF notFound' >= MajorityOfOthers
     THEN End("notFound")
     ELSE /\ inFlight' = inFlight \ {p} /\ depender' = depender \ {p}
          /\ failed' = [failed EXCEPT ![p] = 0]
          /\ UNCHANGED <<result, attempt, resolved, inbox, peerVars>>

Found(p) == End(Verdict) /\ undone' = undone \ {p} /\ UNCHANGED notFound

(* Uploader::find of an honest peer: `later` also when the round of the peer is
   behind or too many uploads run.                                              *)
Stored(p) ==
  CASE status[p] \in {"valid", "proven"} -> IF p \in kept THEN {"defined"} ELSE {"defined", "none"}
    [] status[p] = "unknown"             -> IF p \in kept THEN {"later"} ELSE {"none"}
    [] status[p] = "rejected"            -> {"none"}
    [] status[p] = "provenBad"           -> {"later"}

Answers(p) == {"later", "error"} \cup IF p \in Faulty THEN {"defined", "none", "wrong"} ELSE Stored(p)

(* The fourth arm.                                                              *)
Answer(p, a) ==
  /\ result = "running" /\ inbox = {} /\ p \in inFlight /\ a \in Answers(p)
  /\ CASE a \in {"later", "error"} -> Retry(p)
       [] a \in {"none", "wrong"}  -> CountNone(p)
       [] a = "defined"            -> Found(p)

(* The last arm, DownloadTask::download_random: peers that failed less are asked first,
   then dependers, and others at random.                                        *)
Free == (undone \cap resolved) \ inFlight

Before(p, q) == \/ failed[p] < failed[q]
                \/ failed[p] = failed[q] /\ p \in depender /\ q \notin depender

NextPeers ==
  LET n == IF Query = "exponential" THEN DownloadPeers ^ (attempt + 1) ELSE DownloadPeers * (attempt + 1)
  IN  Min({n, Cardinality(Free)})

Tick(S) ==
  /\ result = "running" /\ inbox = {}
  /\ S \subseteq Free /\ Cardinality(S) = NextPeers
  /\ \A p \in S, q \in Free \ S : ~Before(q, p)
  /\ inFlight' = inFlight \cup S
  /\ attempt' = (attempt + 1) % Attempts
  /\ UNCHANGED <<result, undone, failed, depender, notFound, resolved, inbox, peerVars>>

(* The DagPointFuture that owns the task is dropped.                            *)
Abort == result \in {"queued", "running"} /\ End("aborted") /\ UNCHANGED <<undone, notFound>>
-----------------------------------------------------------------------------
(* DagPointFuture::add_depender: another point refers to this one.  The message changes
   nothing if it comes again or its sender has been done with.                  *)
Depend(p) ==
  /\ result \in {"queued", "running"} /\ p \in (LateDependers \cap undone) \ depender
  /\ inbox' = inbox \cup {p} /\ UNCHANGED <<taskVars, resolved, peerVars>>

SetStatus(p, s) == status' = [status EXCEPT ![p] = s] /\ UNCHANGED <<taskVars, resolved, inbox, illFormed>>

(* What peers do with the point, external: one validates or rejects it, ...     *)
Validate(p, s) ==
  /\ p \in (Honest \cap kept) \ {Author} /\ status[p] = "unknown"
  /\ s \in {"valid", "rejected"} /\ (s = "valid" => ~illFormed)
  /\ SetStatus(p, s) /\ UNCHANGED <<kept, signed>>

(* ... signs it, ...                                                            *)
Sign(p) ==
  /\ p \in (Peers \cap Honest \cap kept) \ {Author} /\ status[p] = "valid"
  /\ signed' = signed \cup {p} /\ UNCHANGED <<taskVars, resolved, inbox, illFormed, status, kept>>

(* ... learns of its proof, ...                                                 *)
Prove(p, s) ==
  /\ p \in Honest /\ Certified /\ status[p] = "rejected"
  /\ s \in {"proven", "provenBad"} /\ SetStatus(p, s) /\ UNCHANGED <<kept, signed>>

(* ... and leaves the round behind: its store may be cleaned.                   *)
Forget(p) ==
  /\ p \in Honest \cap Advancing \cap kept /\ kept' = kept \ {p}
  /\ UNCHANGED <<taskVars, resolved, inbox, illFormed, status, signed>>

PeerNext ==
  /\ result \in {"queued", "running", "notFound"}
  /\ \E p \in Asked : \/ Depend(p) \/ Sign(p) \/ Forget(p)
                      \/ \E s \in Statuses : Validate(p, s) \/ Prove(p, s)

TaskNext ==
  \/ \E p \in Asked : AddDepender(p) \/ PeerUpdate(p)
  \/ \E S \in SUBSET Asked : Tick(S)
-----------------------------------------------------------------------------
DownloadTypeOK ==
  /\ result \in {"queued", "running", "verified", "illFormed", "notFound", "aborted"}
  /\ undone \subseteq Asked /\ resolved \subseteq Asked
  /\ failed \in [Asked -> 0..MaxFailed]
  /\ depender \subseteq Asked /\ inFlight \subseteq undone /\ inbox \subseteq Asked
  /\ notFound \in 0..Cardinality(Asked) /\ attempt \in 0..(Attempts - 1)
  /\ illFormed \in BOOLEAN /\ status \in [Asked -> Statuses]
  /\ kept \subseteq Asked /\ signed \subseteq Peers

(* NotFoundIsUnproven: when the task gives up, its point has no proof and will never
   have one, so that "invalidation of all referencing points" touches no point that
   the network relies on.  This takes an author that is scheduled for r+1, and signers
   that have not deleted the round.                                             *)
NotFoundIsUnproven ==
  (result = "notFound" /\ Author \in Peers /\ ((signed \cup {Author}) \cap Honest) \subseteq kept)
    => ~Certified
=============================================================================
