--------------------------- MODULE EvidenceProofs ---------------------------
(***************************************************************************)
(* Proofs that evidence is accepted once, for good and with a quorum, for  *)
(* every set of workers, validators, task hashes and values, and for every *)
(* threshold.                                                              *)
(*                                                                         *)
(* The argument: whoever stands between an INSERT and its commit holds the *)
(* write lock (Locked), so what the insert found is still so at the commit *)
(* (ClaimsOK, BatchesOK); and what passed the checks of Attestations stays *)
(* backed, because the validators only change when everybody starts again  *)
(* (Backing). One lemma below says for each part that every step keeps it. *)
(***************************************************************************)
EXTENDS Evidence, FiniteSetTheorems, TLAPS

-----------------------------------------------------------------------------
(* The quorum. *)

(* Rounding up: the ceiling of a / d, taken d times, is at least a.        *)
LEMMA Ceiling ==
    ASSUME NEW a \in Nat, NEW d \in Nat \ {0}
    PROVE  /\ (a + d - 1) \div d \in Nat
           /\ ((a + d - 1) \div d) * d >= a
<1>. DEFINE b == a + d - 1
            q == b \div d
            r == b % d
<1>1. b \in Nat
  OBVIOUS
<1>2. q \in Int /\ r \in 0..(d - 1) /\ b = d * q + r
  BY <1>1
<1>3. q >= 0
  BY <1>1, <1>2
<1>4. q * d = d * q
  BY <1>2
<1>. QED  BY <1>1, <1>2, <1>3, <1>4

(* A bundle of distinct validators has as many signers as attestations.    *)
LEMMA DistinctSigners ==
    ASSUME NEW bundle, bundle \in Seq(Attestation), DistinctIds(bundle),
           NEW S \in SUBSET Validators,
           \A i \in DOMAIN bundle : bundle[i].validator \in S
    PROVE  IsFiniteSet(S) /\ Cardinality(S) \in Nat /\ Len(bundle) <= Cardinality(S)
<1>1. IsFiniteSet(S) /\ Cardinality(S) \in Nat
  BY ValidatorsAssumption, FS_Subset, FS_CardinalityType
<1>. DEFINE f == [i \in 1..Len(bundle) |-> bundle[i].validator]
<1>2. f \in [1..Len(bundle) -> S]
  OBVIOUS
<1>3. \A i, j \in 1..Len(bundle) : f[i] = f[j] => i = j
  BY DEF DistinctIds
<1>4. f \in Injection(1..Len(bundle), S)
  BY <1>2, <1>3 DEF Injection, IsInjective
<1>5. Cardinality(1..Len(bundle)) <= Cardinality(S)
  BY <1>1, <1>4, FS_Injection
<1>6. Cardinality(1..Len(bundle)) = Len(bundle)
  <2>1. Len(bundle) \in Nat
    OBVIOUS
  <2>2. Cardinality(1..Len(bundle))
          = IF 1 > Len(bundle) THEN 0 ELSE Len(bundle) - 1 + 1
    BY <2>1, FS_Interval
  <2>. QED  BY <2>1, <2>2
<1>. QED  BY <1>1, <1>5, <1>6

(* What verify_validator_attestation_quorum accepts has the signatures of  *)
(* at least the threshold share of the active validators, each once, on    *)
(* one content that says both checks were done.                            *)
THEOREM QuorumIsTheShare ==
    ASSUME NEW bundle \in SentBundles, NEW active \in SUBSET Validators,
           QuorumVerified(bundle, active)
    PROVE  Backed(bundle, bundle[1].content.claim.task, active)
<1>. DEFINE content == bundle[1].content
            signers == SignersOf(bundle, content, active)
            n == Cardinality(active)
<1>1. bundle \in Seq(Attestation) /\ bundle # <<>> /\ 1 \in DOMAIN bundle
  BY SentAssumption DEF QuorumVerified
<1>2. \A i \in DOMAIN bundle :
        /\ bundle[i].validator \in active
        /\ bundle[i].content = content
        /\ bundle[i].sig.by = bundle[i].validator
        /\ bundle[i].sig.over = content
  BY DEF QuorumVerified, SignatureValid
<1>3. \A i \in DOMAIN bundle :
        bundle[i].sig = [by |-> bundle[i].validator, over |-> content]
  <2>. SUFFICES ASSUME NEW i \in DOMAIN bundle
                PROVE  bundle[i].sig = [by |-> bundle[i].validator, over |-> content]
    OBVIOUS
  <2>1. bundle[i] \in Attestation
    BY <1>1
  <2>. QED  BY <1>2, <2>1 DEF Attestation
<1>4. signers \in SUBSET Validators
  BY DEF SignersOf
<1>5. \A i \in DOMAIN bundle : bundle[i].validator \in signers
  BY <1>2, <1>3 DEF SignersOf
<1>6. Cardinality(signers) \in Nat /\ Len(bundle) <= Cardinality(signers)
  BY <1>1, <1>4, <1>5, DistinctSigners DEF QuorumVerified
<1>7. n \in Nat
  BY ValidatorsAssumption, FS_Subset, FS_CardinalityType
<1>8. Len(bundle) >= (n * Num + Den - 1) \div Den
  <2>1. Len(bundle) >= Quorum(n)
    BY DEF QuorumVerified
  <2>2. (n * Num + Den - 1) \div Den \in Nat
    BY <1>7, ThresholdAssumption, Ceiling
  <2>. QED  BY <1>1, <2>1, <2>2 DEF Quorum
<1>9. Cardinality(signers) * Den >= n * Num
  <2>. DEFINE q == (n * Num + Den - 1) \div Den
  <2>1. q \in Nat /\ q * Den >= n * Num
    BY <1>7, ThresholdAssumption, Ceiling
  <2>2. Cardinality(signers) >= q
    BY <1>1, <1>6, <1>8, <2>1
  <2>. HIDE DEF q, signers, n
  <2>3. Cardinality(signers) * Den >= q * Den
    BY <1>6, <2>1, <2>2, ThresholdAssumption
  <2>. QED  BY <1>6, <1>7, <2>1, <2>3, ThresholdAssumption
<1>. QED
  <2>1. content \in {bundle[i].content : i \in DOMAIN bundle}
    BY <1>1
  <2>2. content.quote /\ content.log
    BY <1>1 DEF QuorumVerified
  <2>3. signers # {}
    BY <1>1, <1>5
  <2>. QED  BY <1>9, <2>1, <2>2, <2>3 DEF Backed

-----------------------------------------------------------------------------
(* The inductive invariant. *)

ProofLabels == {"verified", "inserted", "ignored", "claimed"}
LocalLabels == {"unprocessed", "unmarked", "marked"}
BatchLabels == {"absent", "flushed", "kept"}

(* Who stands where serves what.                                           *)
Serving ==
    \A w \in Workers :
        /\ at[w] \in ProofLabels => work[w] \in ProofRequests
        /\ at[w] \in LocalLabels => work[w] \in LocalRequests
        /\ at[w] \in BatchLabels =>
              work[w] \in BatchRequests /\ work[w].task = work[w].batch.key.task

Locked ==
    \A w \in Workers : at[w] \in {"inserted", "ignored", "flushed"} => wlock = w

ClaimsOK ==
    /\ \A w \in Workers :
        /\ at[w] = "inserted" => work[w].task \notin claimed
        /\ at[w] = "claimed" => work[w].task \in claimed
    /\ granted \subseteq claimed
    /\ TaskAcceptedOnce

RowOf(batch) == [gn |-> batch.gn, latency |-> batch.latency]
KeyOf(task)  == [task |-> task, spelled |-> "lower"]

BatchesOK ==
    /\ \A w \in Workers :
        /\ at[w] = "flushed" => pending[KeyOf(work[w].task)] = NoRow
        /\ at[w] = "kept" => pending[KeyOf(work[w].task)] = RowOf(work[w].batch)
    /\ \A t \in Tasks : acked[t] # NoRow => pending[KeyOf(t)] = acked[t]
    /\ \A k \in Keys : pending[k] # NoRow => k.spelled = "lower"

BackedWork(request, active) ==
    /\ Backed(request.bundle, request.task, active)
    /\ request.op \in {"proof", "result"} => Possible(request.bundle)

Backing ==
    \A w \in Workers : at[w] \in ProofLabels \cup LocalLabels =>
        BackedWork(work[w], registry)

EInv == EvidenceTypeOK /\ Serving /\ Locked /\ ClaimsOK /\ BatchesOK /\ Backing

-----------------------------------------------------------------------------
(* Facts about the requests. *)

(* The task of a bundle that was sent is a task hash.                      *)
LEMMA BundleTask ==
    ASSUME NEW bundle \in SentBundles, bundle # <<>>
    PROVE  bundle[1].content.claim.task \in Tasks
<1>1. bundle \in Seq(Attestation) /\ 1 \in DOMAIN bundle
  BY SentAssumption
<1>2. bundle[1] \in Attestation
  BY <1>1
<1>. QED  BY <1>2 DEF Attestation, Signable, Claim

(* Each op of the functions in memory needs a quorum.                      *)
LEMMA LocalQuorum ==
    ASSUME NEW op, NEW bundle, NEW result, NEW report,
           LocallyVerified(op, bundle, result, report)
    PROVE  /\ op \in {"result", "bundle", "single", "quorum"}
           /\ QuorumVerified(bundle, registry)
  BY DEF LocallyVerified, BundleVerified, PlainBundleVerified, SingleVerified

(* What is possible in time: a weight of at most 2000 per millisecond.     *)
LEMMA PossibleClaim ==
    ASSUME NEW bundle \in SentBundles, NEW result \in SentResults, NEW report,
           NEW active, result # NoResult,
           BundleVerified(bundle, result, report, active)
    PROVE  Possible(bundle)
<1>1. 1 \in DOMAIN bundle /\ bundle[1].content.claim = result
  BY SentAssumption DEF BundleVerified, MatchesResult
<1>2. result.gn \in Nat /\ result.latency \in Nat
  BY SentAssumption, NumbersAssumption DEF Claim
<1>3. result.latency > 0 /\ result.gn * 1000 <= 2000000 * result.latency
  BY DEF BundleVerified, Plausible, ThroughputTripwire
<1>4. result.gn <= 2000 * result.latency
  BY <1>2, <1>3
<1>. QED  BY <1>1, <1>3, <1>4 DEF Possible

(* A batch is kept under the lower-case spelling of its hash.              *)
LEMMA BatchKeys ==
    ASSUME NEW b \in Batch
    PROVE  /\ b.key.task \in Tasks
           /\ Lower(b.key) = KeyOf(b.key.task) /\ Lower(b.key) \in Keys
           /\ RowOf(b) \in Row
  BY EvidenceNulls, WidthAssumption DEF Batch, Keys, Lower, KeyOf, RowOf, Row

-----------------------------------------------------------------------------
(* Every step keeps each part of the invariant. *)

(* Only who begins a transaction takes the lock, and a free one only.      *)
LEMMA LockedStep ==
    ASSUME EInv, [EvidenceNext]_evars
    PROVE  Locked'
<1>0. EvidenceTypeOK /\ Locked /\ NoWorker \notin Workers
  BY EvidenceNulls DEF EInv
<1>1. CASE Restart
  BY <1>1 DEF Restart, EInv, tables, history, Locked, EvidenceTypeOK
<1>2. ASSUME NEW w \in Workers, WorkerNext(w) PROVE Locked'
  <2>1. ASSUME NEW b \in WithQuorum, NEW report \in SentReports,
                NEW result \in SentResults, PostProofBundle(w, b, result, report)
        PROVE  Locked'
    BY <2>1, <1>0
    DEF PostProofBundle, Take, Move, tables, history, Locked,
        EvidenceTypeOK
  <2>2. ASSUME NEW op, NEW b \in WithQuorum, NEW report \in SentReports,
                NEW result \in SentResults \cup {NoResult},
                PostLocalBundle(w, op, b, result, report)
        PROVE  Locked'
    BY <2>2, <1>0
    DEF PostLocalBundle, Take, Move, tables, history, Locked,
        EvidenceTypeOK
  <2>3. ASSUME NEW batch \in SentBatches, PostBatch(w, batch)
        PROVE  Locked'
    BY <2>3, <1>0
    DEF PostBatch, Take, Move, tables, history, Locked, EvidenceTypeOK
  <2>4. CASE InsertClaim(w)
    BY <2>4, <1>0
    DEF InsertClaim, Move, tables, history, Locked, EvidenceTypeOK
  <2>5. CASE CommitClaim(w)
    BY <2>5, <1>0
    DEF CommitClaim, Move, Unlock, tables, history, Locked, EvidenceTypeOK
  <2>6. CASE AcceptClaim(w)
    BY <2>6, <1>0
    DEF AcceptClaim, Finish, Move, tables, history, Locked, EvidenceTypeOK
  <2>7. CASE RefuseClaim(w)
    BY <2>7, <1>0
    DEF RefuseClaim, Finish, Move, Unlock, tables, history, Locked,
        EvidenceTypeOK
  <2>8. CASE MarkTest(w)
    BY <2>8, <1>0
    DEF MarkTest, Finish, Move, tables, history, Locked, EvidenceTypeOK
  <2>9. CASE MarkAdd(w)
    BY <2>9, <1>0 DEF MarkAdd, Move, tables, history, Locked, EvidenceTypeOK
  <2>10. CASE AcceptLocal(w)
    BY <2>10, <1>0
    DEF AcceptLocal, Finish, Move, tables, history, Locked, EvidenceTypeOK
  <2>11. CASE BatchTooWide(w)
    BY <2>11, <1>0
    DEF BatchTooWide, Finish, Move, tables, history, Locked, EvidenceTypeOK
  <2>12. CASE FlushBatch(w)
    BY <2>12, <1>0
    DEF FlushBatch, Finish, Move, tables, history, Locked, EvidenceTypeOK
  <2>13. CASE CommitBatch(w)
    BY <2>13, <1>0
    DEF CommitBatch, Move, Unlock, tables, history, Locked, EvidenceTypeOK
  <2>14. CASE AcceptBatch(w)
    BY <2>14, <1>0
    DEF AcceptBatch, Finish, Move, tables, history, Locked, EvidenceTypeOK
  <2>15. CASE LockTimeout(w)
    BY <2>15, <1>0
    DEF LockTimeout, Finish, Move, tables, history, Locked, EvidenceTypeOK
  <2>16. CASE TransactionFails(w)
    BY <2>16, <1>0
    DEF TransactionFails, Finish, Move, Unlock, tables, history, Locked,
        EvidenceTypeOK
  <2>. QED
    BY <1>2, <2>1, <2>2, <2>3, <2>4, <2>5, <2>6, <2>7, <2>8, <2>9, <2>10, <2>11, <2>12, <2>13, <2>14, <2>15, <2>16
    DEF WorkerNext
<1>3. CASE UNCHANGED evars
  BY <1>3, <1>0 DEF evars, tables, history, Locked, EvidenceTypeOK
<1>. QED  BY <1>1, <1>2, <1>3 DEF EvidenceNext

(* A worker serves one request until it is idle again.                     *)
LEMMA ServingStep ==
    ASSUME EInv, [EvidenceNext]_evars
    PROVE  Serving'
<1>0. EvidenceTypeOK /\ Serving
  BY DEF EInv
<1>1. CASE Restart
  BY <1>1
  DEF Restart, EInv, tables, history, Serving, EvidenceTypeOK, ProofLabels,
      LocalLabels, BatchLabels
<1>2. ASSUME NEW w \in Workers, WorkerNext(w) PROVE Serving'
  <2>1. ASSUME NEW b \in WithQuorum, NEW report \in SentReports,
                NEW result \in SentResults, PostProofBundle(w, b, result, report)
        PROVE  Serving'
    <3>1. b \in SentBundles /\ b # <<>>
      BY DEF WithQuorum, QuorumVerified
    <3>2. b[1].content.claim.task \in Tasks
      BY <3>1, BundleTask
    <3>. QED
      BY <2>1, <1>0, <3>1, <3>2
      DEF PostProofBundle, Take, Move, Serving, EvidenceTypeOK, ProofRequests,
          ProofLabels, LocalLabels, BatchLabels
  <2>2. ASSUME NEW op, NEW b \in WithQuorum, NEW report \in SentReports,
                NEW result \in SentResults \cup {NoResult},
                PostLocalBundle(w, op, b, result, report)
        PROVE  Serving'
    <3>1. b \in SentBundles /\ b # <<>>
      BY DEF WithQuorum, QuorumVerified
    <3>2. b[1].content.claim.task \in Tasks
      BY <3>1, BundleTask
    <3>3. op \in {"result", "bundle", "single", "quorum"}
      BY <2>2, LocalQuorum DEF PostLocalBundle
    <3>. QED
      BY <2>2, <1>0, <3>1, <3>2, <3>3
      DEF PostLocalBundle, Take, Move, Serving, EvidenceTypeOK, LocalRequests,
          ProofLabels, LocalLabels, BatchLabels
  <2>3. ASSUME NEW batch \in SentBatches, PostBatch(w, batch)
        PROVE  Serving'
    <3>1. batch \in Batch /\ batch.key.task \in Tasks
      BY SentAssumption, BatchKeys
    <3>. QED
      BY <2>3, <1>0, <3>1
      DEF PostBatch, Take, Move, Serving, EvidenceTypeOK, BatchRequests,
          ProofLabels, LocalLabels, BatchLabels
  <2>4. CASE InsertClaim(w)
    BY <2>4, <1>0
    DEF InsertClaim, Move, tables, history, Serving, EvidenceTypeOK,
        ProofLabels, LocalLabels, BatchLabels
  <2>5. CASE CommitClaim(w)
    BY <2>5, <1>0
    DEF CommitClaim, Move, Unlock, tables, history, Serving,
        EvidenceTypeOK, ProofLabels, LocalLabels, BatchLabels
  <2>6. CASE AcceptClaim(w)
    BY <2>6, <1>0
    DEF AcceptClaim, Finish, Move, tables, history, Serving,
        EvidenceTypeOK, ProofLabels, LocalLabels, BatchLabels
  <2>7. CASE RefuseClaim(w)
    BY <2>7, <1>0
    DEF RefuseClaim, Finish, Move, Unlock, tables, history, Serving,
        EvidenceTypeOK, ProofLabels, LocalLabels, BatchLabels
  <2>8. CASE MarkTest(w)
    BY <2>8, <1>0
    DEF MarkTest, Finish, Move, tables, history, Serving, EvidenceTypeOK,
        ProofLabels, LocalLabels, BatchLabels
  <2>9. CASE MarkAdd(w)
    BY <2>9, <1>0
    DEF MarkAdd, Move, tables, history, Serving, EvidenceTypeOK,
        ProofLabels, LocalLabels, BatchLabels
  <2>10. CASE AcceptLocal(w)
    BY <2>10, <1>0
    DEF AcceptLocal, Finish, Move, tables, history, Serving,
        EvidenceTypeOK, ProofLabels, LocalLabels, BatchLabels
  <2>11. CASE BatchTooWide(w)
    BY <2>11, <1>0
    DEF BatchTooWide, Finish, Move, tables, history, Serving,
        EvidenceTypeOK, ProofLabels, LocalLabels, BatchLabels
  <2>12. CASE FlushBatch(w)
    BY <2>12, <1>0
    DEF FlushBatch, Finish, Move, tables, history, Serving, EvidenceTypeOK,
        ProofLabels, LocalLabels, BatchLabels
  <2>13. CASE CommitBatch(w)
    BY <2>13, <1>0
    DEF CommitBatch, Move, Unlock, tables, history, Serving,
        EvidenceTypeOK, ProofLabels, LocalLabels, BatchLabels
  <2>14. CASE AcceptBatch(w)
    BY <2>14, <1>0
    DEF AcceptBatch, Finish, Move, tables, history, Serving,
        EvidenceTypeOK, ProofLabels, LocalLabels, BatchLabels
  <2>15. CASE LockTimeout(w)
    BY <2>15, <1>0
    DEF LockTimeout, Finish, Move, tables, history, Serving,
        EvidenceTypeOK, ProofLabels, LocalLabels, BatchLabels
  <2>16. CASE TransactionFails(w)
    BY <2>16, <1>0
    DEF TransactionFails, Finish, Move, Unlock, tables, history, Serving,
        EvidenceTypeOK, ProofLabels, LocalLabels, BatchLabels
  <2>. QED
    BY <1>2, <2>1, <2>2, <2>3, <2>4, <2>5, <2>6, <2>7, <2>8, <2>9, <2>10, <2>11, <2>12, <2>13, <2>14, <2>15, <2>16
    DEF WorkerNext
<1>3. CASE UNCHANGED evars
  BY <1>3, <1>0
  DEF evars, tables, history, Serving, EvidenceTypeOK, ProofLabels,
      LocalLabels, BatchLabels
<1>. QED  BY <1>1, <1>2, <1>3 DEF EvidenceNext

(* Every step keeps the types.                                             *)
LEMMA TypesStep ==
    ASSUME EInv, [EvidenceNext]_evars
    PROVE  EvidenceTypeOK'
<1>0. EvidenceTypeOK /\ Serving
  BY DEF EInv
<1>1. CASE Restart
  BY <1>1 DEF Restart, EInv, tables, history, EvidenceTypeOK, Labels
<1>2. ASSUME NEW w \in Workers, WorkerNext(w) PROVE EvidenceTypeOK'
  <2>1. ASSUME NEW b \in WithQuorum, NEW report \in SentReports,
                NEW result \in SentResults, PostProofBundle(w, b, result, report)
        PROVE  EvidenceTypeOK'
    <3>1. b \in SentBundles /\ b # <<>>
      BY DEF WithQuorum, QuorumVerified
    <3>2. b[1].content.claim.task \in Tasks
      BY <3>1, BundleTask
    <3>. QED
      BY <2>1, <1>0, <3>1, <3>2
      DEF PostProofBundle, Take, Move, tables, history, EvidenceTypeOK, Labels,
          ProofRequests
  <2>2. ASSUME NEW op, NEW b \in WithQuorum, NEW report \in SentReports,
                NEW result \in SentResults \cup {NoResult},
                PostLocalBundle(w, op, b, result, report)
        PROVE  EvidenceTypeOK'
    <3>1. b \in SentBundles /\ b # <<>>
      BY DEF WithQuorum, QuorumVerified
    <3>2. b[1].content.claim.task \in Tasks
      BY <3>1, BundleTask
    <3>3. op \in {"result", "bundle", "single", "quorum"}
      BY <2>2, LocalQuorum DEF PostLocalBundle
    <3>. QED
      BY <2>2, <1>0, <3>1, <3>2, <3>3
      DEF PostLocalBundle, Take, Move, tables, history, EvidenceTypeOK, Labels,
          LocalRequests
  <2>3. ASSUME NEW batch \in SentBatches, PostBatch(w, batch)
        PROVE  EvidenceTypeOK'
    <3>1. batch \in Batch /\ batch.key.task \in Tasks
      BY SentAssumption, BatchKeys
    <3>. QED
      BY <2>3, <1>0, <3>1
      DEF PostBatch, Take, Move, tables, history, EvidenceTypeOK, Labels,
          BatchRequests
  <2>4. CASE InsertClaim(w)
    BY <2>4, <1>0
    DEF InsertClaim, Move, tables, history, EvidenceTypeOK, Labels
  <2>5. CASE CommitClaim(w)
    <3>1. work[w] \in ProofRequests /\ work[w].task \in Tasks
      BY <2>5, <1>0 DEF CommitClaim, Serving, ProofRequests, ProofLabels
    <3>. QED
      BY <2>5, <1>0, <3>1
      DEF CommitClaim, Move, Unlock, tables, history, EvidenceTypeOK, Labels
  <2>6. CASE AcceptClaim(w)
    <3>1. work[w] \in ProofRequests /\ work[w].task \in Tasks
      BY <2>6, <1>0 DEF AcceptClaim, Serving, ProofRequests, ProofLabels
    <3>. QED
      BY <2>6, <1>0, <3>1
      DEF AcceptClaim, Finish, Move, tables, history, EvidenceTypeOK, Labels
  <2>7. CASE RefuseClaim(w)
    BY <2>7, <1>0
    DEF RefuseClaim, Finish, Move, Unlock, tables, history, EvidenceTypeOK,
        Labels
  <2>8. CASE MarkTest(w)
    BY <2>8, <1>0
    DEF MarkTest, Finish, Move, tables, history, EvidenceTypeOK, Labels
  <2>9. CASE MarkAdd(w)
    <3>1. work[w] \in LocalRequests /\ work[w].task \in Tasks
      BY <2>9, <1>0 DEF MarkAdd, Serving, LocalRequests, LocalLabels
    <3>. QED
      BY <2>9, <1>0, <3>1
      DEF MarkAdd, Move, tables, history, EvidenceTypeOK, Labels
  <2>10. CASE AcceptLocal(w)
    <3>1. work[w] \in LocalRequests /\ work[w].task \in Tasks
      BY <2>10, <1>0 DEF AcceptLocal, Serving, LocalRequests, LocalLabels
    <3>. QED
      BY <2>10, <1>0, <3>1
      DEF AcceptLocal, Finish, Move, tables, history, EvidenceTypeOK, Labels
  <2>11. CASE BatchTooWide(w)
    BY <2>11, <1>0
    DEF BatchTooWide, Finish, Move, tables, history, EvidenceTypeOK, Labels
  <2>12. CASE FlushBatch(w)
    BY <2>12, <1>0
    DEF FlushBatch, Finish, Move, tables, history, EvidenceTypeOK, Labels
  <2>13. CASE CommitBatch(w)
    <3>1. work[w] \in BatchRequests /\ work[w].batch \in Batch /\ work[w].task \in Tasks
      BY <2>13, <1>0 DEF CommitBatch, Serving, BatchRequests, BatchLabels
    <3>2. RowOf(work[w].batch) \in Row /\ Lower(work[w].batch.key) \in Keys
      BY <3>1, BatchKeys
    <3>. QED
      BY <2>13, <1>0, <3>1, <3>2
     
      DEF CommitBatch, Move, Unlock, Stored, RowOf, tables, history,
          EvidenceTypeOK, Labels
  <2>14. CASE AcceptBatch(w)
    <3>1. work[w] \in BatchRequests /\ work[w].batch \in Batch /\ work[w].task \in Tasks
      BY <2>14, <1>0 DEF AcceptBatch, Serving, BatchRequests, BatchLabels
    <3>2. RowOf(work[w].batch) \in Row /\ Lower(work[w].batch.key) \in Keys
      BY <3>1, BatchKeys
    <3>. QED
      BY <2>14, <1>0, <3>1, <3>2
     
      DEF AcceptBatch, Finish, Move, Stored, RowOf, tables, history,
          EvidenceTypeOK, Labels
  <2>15. CASE LockTimeout(w)
    BY <2>15, <1>0
    DEF LockTimeout, Finish, Move, tables, history, EvidenceTypeOK, Labels
  <2>16. CASE TransactionFails(w)
    BY <2>16, <1>0
    DEF TransactionFails, Finish, Move, Unlock, tables, history,
        EvidenceTypeOK, Labels
  <2>. QED
    BY <1>2, <2>1, <2>2, <2>3, <2>4, <2>5, <2>6, <2>7, <2>8, <2>9, <2>10, <2>11, <2>12, <2>13, <2>14, <2>15, <2>16
    DEF WorkerNext
<1>3. CASE UNCHANGED evars
  BY <1>3, <1>0 DEF evars, tables, history, EvidenceTypeOK, Labels
<1>. QED  BY <1>1, <1>2, <1>3 DEF EvidenceNext

(* A claim is new when it is committed, and it is accepted by its own      *)
(* worker only.                                                            *)
LEMMA ClaimsStep ==
    ASSUME EInv, [EvidenceNext]_evars
    PROVE  ClaimsOK'
<1>0. /\ EvidenceTypeOK /\ Serving /\ Locked /\ ClaimsOK
      /\ NoWorker \notin Workers
  BY EvidenceNulls DEF EInv
<1>1. CASE Restart
  BY <1>1 DEF Restart, EInv, tables, history, ClaimsOK, TaskAcceptedOnce
<1>2. ASSUME NEW w \in Workers, WorkerNext(w) PROVE ClaimsOK'
  <2>1. ASSUME NEW b \in WithQuorum, NEW report \in SentReports,
                NEW result \in SentResults, PostProofBundle(w, b, result, report)
        PROVE  ClaimsOK'
    BY <2>1, <1>0
    DEF PostProofBundle, Take, Move, tables, history, ClaimsOK,
        TaskAcceptedOnce
  <2>2. ASSUME NEW op, NEW b \in WithQuorum, NEW report \in SentReports,
                NEW result \in SentResults \cup {NoResult},
                PostLocalBundle(w, op, b, result, report)
        PROVE  ClaimsOK'
    BY <2>2, <1>0
    DEF PostLocalBundle, Take, Move, tables, history, ClaimsOK,
        TaskAcceptedOnce
  <2>3. ASSUME NEW batch \in SentBatches, PostBatch(w, batch)
        PROVE  ClaimsOK'
    BY <2>3, <1>0
    DEF PostBatch, Take, Move, tables, history, ClaimsOK, TaskAcceptedOnce
  <2>4. CASE InsertClaim(w)
    BY <2>4, <1>0
    DEF InsertClaim, Move, tables, history, EvidenceTypeOK, Locked,
        ClaimsOK, TaskAcceptedOnce
  <2>5. CASE CommitClaim(w)
    BY <2>5, <1>0
    DEF CommitClaim, Move, Unlock, tables, history, EvidenceTypeOK, Locked,
        ClaimsOK, TaskAcceptedOnce
  <2>6. CASE AcceptClaim(w)
    BY <2>6, <1>0
    DEF AcceptClaim, Finish, Move, tables, history, EvidenceTypeOK, Locked,
        ClaimsOK, TaskAcceptedOnce
  <2>7. CASE RefuseClaim(w)
    BY <2>7, <1>0
    DEF RefuseClaim, Finish, Move, Unlock, tables, history, ClaimsOK,
        TaskAcceptedOnce
  <2>8. CASE MarkTest(w)
    BY <2>8, <1>0
    DEF MarkTest, Finish, Move, tables, history, EvidenceTypeOK, ClaimsOK,
        TaskAcceptedOnce
  <2>9. CASE MarkAdd(w)
    BY <2>9, <1>0
    DEF MarkAdd, Move, tables, history, ClaimsOK, TaskAcceptedOnce
  <2>10. CASE AcceptLocal(w)
    BY <2>10, <1>0
    DEF AcceptLocal, Finish, Move, tables, history, ClaimsOK,
        TaskAcceptedOnce
  <2>11. CASE BatchTooWide(w)
    BY <2>11, <1>0
    DEF BatchTooWide, Finish, Move, tables, history, ClaimsOK,
        TaskAcceptedOnce
  <2>12. CASE FlushBatch(w)
    BY <2>12, <1>0
    DEF FlushBatch, Finish, Move, tables, history, EvidenceTypeOK,
        ClaimsOK, TaskAcceptedOnce
  <2>13. CASE CommitBatch(w)
    BY <2>13, <1>0
    DEF CommitBatch, Move, Unlock, tables, history, ClaimsOK,
        TaskAcceptedOnce
  <2>14. CASE AcceptBatch(w)
    BY <2>14, <1>0
    DEF AcceptBatch, Finish, Move, tables, history, ClaimsOK,
        TaskAcceptedOnce
  <2>15. CASE LockTimeout(w)
    BY <2>15, <1>0
    DEF LockTimeout, Finish, Move, tables, history, ClaimsOK,
        TaskAcceptedOnce
  <2>16. CASE TransactionFails(w)
    BY <2>16, <1>0
    DEF TransactionFails, Finish, Move, Unlock, tables, history,
        EvidenceTypeOK, ClaimsOK, TaskAcceptedOnce
  <2>. QED
    BY <1>2, <2>1, <2>2, <2>3, <2>4, <2>5, <2>6, <2>7, <2>8, <2>9, <2>10, <2>11, <2>12, <2>13, <2>14, <2>15, <2>16
    DEF WorkerNext
<1>3. CASE UNCHANGED evars
  BY <1>3, <1>0 DEF evars, tables, history, ClaimsOK, TaskAcceptedOnce
<1>. QED  BY <1>1, <1>2, <1>3 DEF EvidenceNext

(* The row of a batch is new when it is committed, and stays.              *)
LEMMA BatchesStep ==
    ASSUME EInv, [EvidenceNext]_evars
    PROVE  BatchesOK'
<1>0. /\ EvidenceTypeOK /\ Serving /\ Locked /\ BatchesOK
      /\ NoWorker \notin Workers /\ NoRow \notin Row
  BY EvidenceNulls, RowAssumption DEF EInv
<1>1. CASE Restart
  BY <1>1 DEF Restart, EInv, tables, history, BatchesOK
<1>2. ASSUME NEW w \in Workers, WorkerNext(w) PROVE BatchesOK'
  <2>1. ASSUME NEW b \in WithQuorum, NEW report \in SentReports,
                NEW result \in SentResults, PostProofBundle(w, b, result, report)
        PROVE  BatchesOK'
    BY <2>1, <1>0 DEF PostProofBundle, Take, Move, tables, history, BatchesOK
  <2>2. ASSUME NEW op, NEW b \in WithQuorum, NEW report \in SentReports,
                NEW result \in SentResults \cup {NoResult},
                PostLocalBundle(w, op, b, result, report)
        PROVE  BatchesOK'
    BY <2>2, <1>0 DEF PostLocalBundle, Take, Move, tables, history, BatchesOK
  <2>3. ASSUME NEW batch \in SentBatches, PostBatch(w, batch)
        PROVE  BatchesOK'
    BY <2>3, <1>0 DEF PostBatch, Take, Move, tables, history, BatchesOK
  <2>4. CASE InsertClaim(w)
    BY <2>4, <1>0 DEF InsertClaim, Move, tables, history, BatchesOK
  <2>5. CASE CommitClaim(w)
    BY <2>5, <1>0 DEF CommitClaim, Move, Unlock, tables, history, BatchesOK
  <2>6. CASE AcceptClaim(w)
    BY <2>6, <1>0 DEF AcceptClaim, Finish, Move, tables, history, BatchesOK
  <2>7. CASE RefuseClaim(w)
    BY <2>7, <1>0
    DEF RefuseClaim, Finish, Move, Unlock, tables, history, BatchesOK
  <2>8. CASE MarkTest(w)
    BY <2>8, <1>0
    DEF MarkTest, Finish, Move, tables, history, EvidenceTypeOK, BatchesOK
  <2>9. CASE MarkAdd(w)
    BY <2>9, <1>0 DEF MarkAdd, Move, tables, history, BatchesOK
  <2>10. CASE AcceptLocal(w)
    BY <2>10, <1>0 DEF AcceptLocal, Finish, Move, tables, history, BatchesOK
  <2>11. CASE BatchTooWide(w)
    BY <2>11, <1>0 DEF BatchTooWide, Finish, Move, tables, history, BatchesOK
  <2>12. CASE FlushBatch(w)
    <3>1. /\ work[w] \in BatchRequests /\ work[w].batch \in Batch
          /\ work[w].task \in Tasks /\ work[w].task = work[w].batch.key.task
      BY <2>12, <1>0 DEF FlushBatch, Serving, BatchRequests, BatchLabels
    <3>2. /\ RowOf(work[w].batch) \in Row
          /\ Lower(work[w].batch.key) = KeyOf(work[w].task)
          /\ KeyOf(work[w].task) \in Keys
      BY <3>1, BatchKeys
    <3>. QED
      BY <2>12, <1>0, <3>1, <3>2
     
      DEF FlushBatch, Finish, Move, Stored, RowOf, tables, history,
          EvidenceTypeOK,
          BatchesOK, Locked, KeyOf
  <2>13. CASE CommitBatch(w)
    <3>1. /\ work[w] \in BatchRequests /\ work[w].batch \in Batch
          /\ work[w].task \in Tasks /\ work[w].task = work[w].batch.key.task
      BY <2>13, <1>0 DEF CommitBatch, Serving, BatchRequests, BatchLabels
    <3>2. /\ RowOf(work[w].batch) \in Row
          /\ Lower(work[w].batch.key) = KeyOf(work[w].task)
          /\ KeyOf(work[w].task) \in Keys
          /\ KeyOf(work[w].task).spelled = "lower"
      BY <3>1, BatchKeys DEF KeyOf
    <3>3. /\ pending[KeyOf(work[w].task)] = NoRow
          /\ pending' = [pending EXCEPT ![KeyOf(work[w].task)] = RowOf(work[w].batch)]
          /\ at' = [at EXCEPT ![w] = "kept"] /\ UNCHANGED <<work, acked>>
          /\ \A v \in Workers : at[v] = "flushed" => v = w
      BY <2>13, <1>0, <3>2
      DEF CommitBatch, Move, Stored, RowOf, history, BatchesOK, Locked
    <3>4. \A t \in Tasks : KeyOf(t) = KeyOf(work[w].task) => t = work[w].task
      BY DEF KeyOf
    <3>5. /\ pending'[KeyOf(work[w].task)] = RowOf(work[w].batch)
          /\ \A k \in Keys \ {KeyOf(work[w].task)} : pending'[k] = pending[k]
      BY <1>0, <3>2, <3>3 DEF EvidenceTypeOK
    <3>6. ASSUME NEW v \in Workers
          PROVE  /\ at'[v] = "flushed" => pending'[KeyOf(work'[v].task)] = NoRow
                 /\ at'[v] = "kept" => pending'[KeyOf(work'[v].task)] = RowOf(work'[v].batch)
      <4>1. CASE v = w
        BY <1>0, <3>3, <3>5, <4>1 DEF EvidenceTypeOK
      <4>2. CASE v # w
        <5>1. at'[v] = at[v] /\ at[v] # "flushed" /\ work'[v] = work[v]
          BY <1>0, <3>3, <4>2 DEF EvidenceTypeOK
        <5>2. SUFFICES ASSUME at[v] = "kept"
                       PROVE  pending'[KeyOf(work[v].task)] = RowOf(work[v].batch)
          BY <5>1
        <5>3. work[v] \in BatchRequests /\ work[v].batch \in Batch
          BY <1>0, <5>2 DEF Serving, BatchLabels, BatchRequests
        <5>4. KeyOf(work[v].task) \in Keys /\ RowOf(work[v].batch) \in Row
          BY <5>3, BatchKeys, EvidenceNulls DEF BatchRequests, KeyOf, Keys
        <5>5. pending[KeyOf(work[v].task)] = RowOf(work[v].batch)
          BY <1>0, <5>2 DEF BatchesOK
        <5>. QED  BY <1>0, <3>3, <3>5, <5>4, <5>5
      <4>. QED  BY <4>1, <4>2
    <3>7. ASSUME NEW t \in Tasks, acked'[t] # NoRow
          PROVE  pending'[KeyOf(t)] = acked'[t]
      BY <1>0, <3>3, <3>5, <3>7, EvidenceNulls DEF BatchesOK, KeyOf, Keys
    <3>8. ASSUME NEW k \in Keys, pending'[k] # NoRow
          PROVE  k.spelled = "lower"
      BY <1>0, <3>2, <3>5, <3>8 DEF BatchesOK
    <3>. QED  BY <3>6, <3>7, <3>8 DEF BatchesOK
  <2>14. CASE AcceptBatch(w)
    <3>1. /\ work[w] \in BatchRequests /\ work[w].batch \in Batch
          /\ work[w].task \in Tasks /\ work[w].task = work[w].batch.key.task
      BY <2>14, <1>0 DEF AcceptBatch, Serving, BatchRequests, BatchLabels
    <3>2. /\ RowOf(work[w].batch) \in Row
          /\ Lower(work[w].batch.key) = KeyOf(work[w].task)
          /\ KeyOf(work[w].task) \in Keys
      BY <3>1, BatchKeys
    <3>. QED
      BY <2>14, <1>0, <3>1, <3>2
     
      DEF AcceptBatch, Finish, Move, Stored, RowOf, tables, history,
          EvidenceTypeOK,
          BatchesOK, Locked, KeyOf
  <2>15. CASE LockTimeout(w)
    BY <2>15, <1>0 DEF LockTimeout, Finish, Move, tables, history, BatchesOK
  <2>16. CASE TransactionFails(w)
    BY <2>16, <1>0
    DEF TransactionFails, Finish, Move, Unlock, tables, history,
        EvidenceTypeOK, BatchesOK
  <2>. QED
    BY <1>2, <2>1, <2>2, <2>3, <2>4, <2>5, <2>6, <2>7, <2>8, <2>9, <2>10, <2>11, <2>12, <2>13, <2>14, <2>15, <2>16
    DEF WorkerNext
<1>3. CASE UNCHANGED evars
  BY <1>3, <1>0 DEF evars, tables, history, BatchesOK
<1>. QED  BY <1>1, <1>2, <1>3 DEF EvidenceNext

(* What was verified stays backed: the validators do not change under it.  *)
LEMMA BackingStep ==
    ASSUME EInv, [EvidenceNext]_evars
    PROVE  Backing'
<1>0. EvidenceTypeOK /\ Backing
  BY DEF EInv
<1>1. CASE Restart
  BY <1>1 DEF Restart, EInv, tables, history, Backing, ProofLabels, LocalLabels
<1>2. ASSUME NEW w \in Workers, WorkerNext(w) PROVE Backing'
  <2>1. ASSUME NEW b \in WithQuorum, NEW report \in SentReports,
                NEW result \in SentResults, PostProofBundle(w, b, result, report)
        PROVE  Backing'
    <3>1. b \in SentBundles /\ QuorumVerified(b, registry)
      BY DEF WithQuorum
    <3>2. Backed(b, b[1].content.claim.task, registry)
      BY <1>0, <3>1, QuorumIsTheShare DEF EvidenceTypeOK
    <3>3. Possible(b)
      BY <2>1, <3>1, PossibleClaim DEF PostProofBundle
    <3>. DEFINE r == [op |-> "proof", task |-> b[1].content.claim.task, bundle |-> b]
    <3>4. BackedWork(r, registry)
      BY <3>2, <3>3 DEF BackedWork
    <3>. QED
      BY <2>1, <1>0, <3>4
      DEF PostProofBundle, Take, Move, EvidenceTypeOK, Backing
  <2>2. ASSUME NEW op, NEW b \in WithQuorum, NEW report \in SentReports,
                NEW result \in SentResults \cup {NoResult},
                PostLocalBundle(w, op, b, result, report)
        PROVE  Backing'
    <3>1. b \in SentBundles /\ QuorumVerified(b, registry)
      BY DEF WithQuorum
    <3>2. Backed(b, b[1].content.claim.task, registry)
      BY <1>0, <3>1, QuorumIsTheShare DEF EvidenceTypeOK
    <3>3. op \in {"proof", "result"} => Possible(b)
      BY <2>2, <3>1, PossibleClaim DEF PostLocalBundle, LocallyVerified
    <3>. DEFINE r == [op |-> op, task |-> b[1].content.claim.task, bundle |-> b]
    <3>4. BackedWork(r, registry)
      BY <3>2, <3>3 DEF BackedWork
    <3>. QED
      BY <2>2, <1>0, <3>4
      DEF PostLocalBundle, Take, Move, EvidenceTypeOK, Backing
  <2>3. ASSUME NEW batch \in SentBatches, PostBatch(w, batch)
        PROVE  Backing'
    BY <2>3, <1>0
    DEF PostBatch, Take, Move, EvidenceTypeOK, Backing, ProofLabels,
        LocalLabels
  <2>4. CASE InsertClaim(w)
    BY <2>4, <1>0
    DEF InsertClaim, Move, tables, history, EvidenceTypeOK, Backing,
        ProofLabels, LocalLabels
  <2>5. CASE CommitClaim(w)
    BY <2>5, <1>0
    DEF CommitClaim, Move, Unlock, tables, history, EvidenceTypeOK,
        Backing, ProofLabels, LocalLabels
  <2>6. CASE AcceptClaim(w)
    BY <2>6, <1>0
    DEF AcceptClaim, Finish, Move, tables, history, EvidenceTypeOK,
        Backing, ProofLabels, LocalLabels
  <2>7. CASE RefuseClaim(w)
    BY <2>7, <1>0
    DEF RefuseClaim, Finish, Move, Unlock, tables, history, EvidenceTypeOK,
        Backing, ProofLabels, LocalLabels
  <2>8. CASE MarkTest(w)
    BY <2>8, <1>0
    DEF MarkTest, Finish, Move, tables, history, EvidenceTypeOK, Backing,
        ProofLabels, LocalLabels
  <2>9. CASE MarkAdd(w)
    BY <2>9, <1>0
    DEF MarkAdd, Move, tables, history, EvidenceTypeOK, Backing,
        ProofLabels, LocalLabels
  <2>10. CASE AcceptLocal(w)
    BY <2>10, <1>0
    DEF AcceptLocal, Finish, Move, tables, history, EvidenceTypeOK,
        Backing, ProofLabels, LocalLabels
  <2>11. CASE BatchTooWide(w)
    BY <2>11, <1>0
    DEF BatchTooWide, Finish, Move, tables, history, EvidenceTypeOK,
        Backing, ProofLabels, LocalLabels
  <2>12. CASE FlushBatch(w)
    BY <2>12, <1>0
    DEF FlushBatch, Finish, Move, tables, history, EvidenceTypeOK, Backing,
        ProofLabels, LocalLabels
  <2>13. CASE CommitBatch(w)
    BY <2>13, <1>0
    DEF CommitBatch, Move, Unlock, tables, history, EvidenceTypeOK,
        Backing, ProofLabels, LocalLabels
  <2>14. CASE AcceptBatch(w)
    BY <2>14, <1>0
    DEF AcceptBatch, Finish, Move, tables, history, EvidenceTypeOK,
        Backing, ProofLabels, LocalLabels
  <2>15. CASE LockTimeout(w)
    BY <2>15, <1>0
    DEF LockTimeout, Finish, Move, tables, history, EvidenceTypeOK,
        Backing, ProofLabels, LocalLabels
  <2>16. CASE TransactionFails(w)
    BY <2>16, <1>0
    DEF TransactionFails, Finish, Move, Unlock, tables, history,
        EvidenceTypeOK, Backing, ProofLabels, LocalLabels
  <2>. QED
    BY <1>2, <2>1, <2>2, <2>3, <2>4, <2>5, <2>6, <2>7, <2>8, <2>9, <2>10, <2>11, <2>12, <2>13, <2>14, <2>15, <2>16
    DEF WorkerNext
<1>3. CASE UNCHANGED evars
  BY <1>3, <1>0 DEF evars, tables, history, Backing, ProofLabels, LocalLabels
<1>. QED  BY <1>1, <1>2, <1>3 DEF EvidenceNext

-----------------------------------------------------------------------------
(* The theorems. *)

LEMMA InitInvariant == EvidenceInit => EInv
<1>. SUFFICES ASSUME EvidenceInit PROVE EInv
  OBVIOUS
<1>1. EvidenceTypeOK
  BY DEF EvidenceInit, EvidenceTypeOK, Labels
<1>2. Serving /\ Locked /\ Backing
  BY DEF EvidenceInit, Serving, Locked, Backing, ProofLabels, LocalLabels,
         BatchLabels
<1>3. ClaimsOK
  BY DEF EvidenceInit, ClaimsOK, TaskAcceptedOnce
<1>4. BatchesOK
  BY EvidenceNulls DEF EvidenceInit, BatchesOK, KeyOf, Keys
<1>. QED  BY <1>1, <1>2, <1>3, <1>4 DEF EInv

(* The invariant holds of every behaviour of the evidence endpoints.       *)
THEOREM EvidenceInvariant == EvidenceSpec => []EInv
<1>1. ASSUME EInv, [EvidenceNext]_evars PROVE EInv'
  BY <1>1, TypesStep, ServingStep, LockedStep, ClaimsStep, BatchesStep,
     BackingStep DEF EInv
<1>. QED  BY <1>1, InitInvariant, PTL DEF EvidenceSpec

(* The tables, the lock and every worker's request keep their types, and   *)
(* no number outgrows its column (main.py, submit_stark_batch).            *)
THEOREM EvidenceTypes == EvidenceSpec => []EvidenceTypeOK
<1>1. EInv => EvidenceTypeOK
  BY DEF EInv
<1>. QED  BY <1>1, EvidenceInvariant, PTL

(* A task hash is answered "accepted" once (replay.py).                    *)
THEOREM AcceptedOnce == EvidenceSpec => []TaskAcceptedOnce
<1>1. EInv => TaskAcceptedOnce
  BY DEF EInv, ClaimsOK
<1>. QED  BY <1>1, EvidenceInvariant, PTL

(* What was answered "accepted" is in the table, also after a crash        *)
(* (replay.py).                                                            *)
THEOREM AcceptedForGood == EvidenceSpec => []AcceptedIsDurable
<1>1. EInv => AcceptedIsDurable
  BY DEF EInv, ClaimsOK, AcceptedIsDurable
<1>. QED  BY <1>1, EvidenceInvariant, PTL

(* Nothing is accepted without the threshold share of the validators       *)
(* (crypto.py, calculate_validator_quorum).                                *)
THEOREM AcceptedIsBacked == EvidenceSpec => []ClaimsAreBacked
<1>1. EInv => ClaimsAreBacked
  BY DEF EInv, Backing, BackedWork, ProofLabels, LocalLabels, ClaimsAreBacked
<1>. QED  BY <1>1, EvidenceInvariant, PTL

(* An acknowledged batch stays as it was sent (main.py,                    *)
(* submit_stark_batch).                                                    *)
THEOREM BatchesStay == EvidenceSpec => []BatchIsKept
<1>1. ASSUME EInv PROVE BatchIsKept
  <2>1. SUFFICES ASSUME NEW t \in Tasks, acked[t] # NoRow
                 PROVE  /\ \E k \in Keys : k.task = t /\ pending[k] = acked[t]
                        /\ \A j, k \in {i \in Keys : i.task = t /\ pending[i] # NoRow} :
                              j = k
    BY DEF BatchIsKept
  <2>2. KeyOf(t) \in Keys /\ KeyOf(t).task = t
    BY EvidenceNulls DEF KeyOf, Keys
  <2>3. pending[KeyOf(t)] = acked[t]
    BY <1>1, <2>1 DEF EInv, BatchesOK
  <2>4. \A k \in Keys : k.task = t /\ pending[k] # NoRow => k = KeyOf(t)
    BY <1>1 DEF EInv, BatchesOK, KeyOf, Keys
  <2>. QED  BY <2>1, <2>2, <2>3, <2>4
<1>. QED  BY <1>1, EvidenceInvariant, PTL

=============================================================================
