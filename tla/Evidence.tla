------------------------------ MODULE Evidence ------------------------------
(***************************************************************************)
(* The endpoints of app/main.py that take evidence, each request run by a  *)
(* worker thread:                                                          *)
(*  - POST /proofs/{id}/validator-attestations/accept, which claims the    *)
(*    task hash in the table processed_tasks (app/replay.py);              *)
(*  - POST /validator-attestations/accept, and the three acceptance        *)
(*    functions of app/crypto.py no endpoint calls, which claim it in a    *)
(*    set in memory (ProcessedTasks);                                      *)
(*  - POST /stark-batches, which stores one pending row per task hash.     *)
(*                                                                         *)
(* A refused request changes nothing: only what passes the checks goes on. *)
(* The process may die between any two steps and come back with another    *)
(* set of validators.                                                      *)
(***************************************************************************)
EXTENDS Attestations

CONSTANTS
    Workers,
    SentBundles,    \* bundles of attestations that are sent
    SentResults,    \* results of stored proofs, or given by the sender
    SentReports,    \* claims that a report_data which is sent commits to
    SentBatches,    \* STARK batches that are sent
    Spellings,      \* ways to write a hash in hexadecimal, "lower" included
    MaxU64,         \* largest gn_weight or latency_ms the schema lets in
    MaxStored,      \* largest value the signed INTEGER column holds
    NoWorker, NoWork, NoRow

ASSUME WidthAssumption == MaxU64 \in Nat /\ MaxStored \in 0..MaxU64
ASSUME EvidenceNulls ==
    NoWorker \notin Workers /\ "lower" \in Spellings

VARIABLES
    registry,   \* the active validators, read from the environment at start
    claimed,    \* table processed_tasks
    pending,    \* table pending_verifications: a claim, or NoRow, per key
    processed,  \* ProcessedTasks: the task hashes this process has accepted
    wlock,      \* the worker in a write transaction, or NoWorker
    at,         \* where each worker stands
    work,       \* the request each worker is serving
    granted,    \* history: tasks answered "accepted" for a proof
    local,      \* history: tasks answered "accepted" by this process's memory
    acked       \* history: the batch acknowledged for each task, or NoRow

tables  == <<claimed, pending>>
history == <<granted, local, acked>>
evars   == <<registry, tables, processed, wlock, at, work, history>>

(* A hash as a client writes it: the task and how its digits are spelled.  *)
Keys  == [task : Tasks, spelled : Spellings]
Batch == [key : Keys, gn : 0..MaxU64, latency : 0..MaxU64]

Lower(key) == [key EXCEPT !.spelled = "lower"]

ProofRequests == [op : {"proof"}, task : Tasks, bundle : SentBundles]
LocalRequests == [op : {"result", "bundle", "single", "quorum"}, task : Tasks,
                  bundle : SentBundles]
BatchRequests == [op : {"batch"}, task : Tasks, batch : Batch]

(* What is kept of a batch.                                                *)
Row == [gn : Nat, latency : Nat]

ASSUME RowAssumption == NoRow \notin Row
ASSUME SentAssumption ==
    /\ SentBundles \subseteq Seq(Attestation)
    /\ SentResults \subseteq Claim \cup {NoResult}
    /\ SentReports \subseteq Claim
    /\ SentBatches \subseteq Batch

EvidenceInit ==
    /\ registry \in SUBSET Validators
    /\ claimed = {} /\ processed = {}
    /\ pending = [k \in Keys |-> NoRow]
    /\ wlock = NoWorker
    /\ at   = [w \in Workers |-> "idle"]
    /\ work = [w \in Workers |-> NoWork]
    /\ granted = {} /\ local = {}
    /\ acked = [t \in Tasks |-> NoRow]

Move(w, label) == at' = [at EXCEPT ![w] = label]
Finish(w)      == Move(w, "idle") /\ work' = [work EXCEPT ![w] = NoWork]
Take(w, r)     == work' = [work EXCEPT ![w] = r]
Unlock         == wlock' = NoWorker

-----------------------------------------------------------------------------
(* accept_proof_validator_attestations. The proof and its result.created   *)
(* row are read and never change afterwards; what is left is the claim.    *)
PostProofBundle(w, bundle, result, report) ==
    /\ at[w] = "idle"
    /\ result # NoResult
    /\ BundleVerified(bundle, result, report, registry)
    /\ Take(w, [op |-> "proof", task |-> bundle[1].content.claim.task,
                bundle |-> bundle])
    /\ Move(w, "verified")
    /\ UNCHANGED <<registry, tables, processed, wlock, history>>

(* Mutation: a lookup and an insert without the lock decide.               *)
InsertClaimUnlocked(w) ==
    /\ at[w] = "verified"
    /\ wlock' = w
    /\ Move(w, IF work[w].task \in claimed THEN "ignored" ELSE "inserted")
    /\ UNCHANGED <<registry, tables, processed, work, history>>

(* INSERT OR IGNORE waits for the write lock; its row count tells whether  *)
(* the key was new.                                                        *)
InsertClaim(w) ==
    /\ at[w] = "verified"
    /\ wlock = NoWorker
    /\ wlock' = w
    /\ Move(w, IF work[w].task \in claimed THEN "ignored" ELSE "inserted")
    /\ UNCHANGED <<registry, tables, processed, work, history>>

CommitClaim(w) ==
    /\ at[w] = "inserted"
    /\ claimed' = claimed \cup {work[w].task}
    /\ Unlock
    /\ Move(w, "claimed")
    /\ UNCHANGED <<registry, pending, processed, work, history>>

(* Mutation: the claim is taken for good before it is committed. *)
AcceptClaimEarly(w) ==
    /\ at[w] \in {"inserted", "claimed"}
    /\ granted' = granted \cup {work[w].task}
    /\ wlock' = IF wlock = w THEN NoWorker ELSE wlock
    /\ Finish(w)
    /\ UNCHANGED <<registry, tables, processed, local, acked>>

(* The answer "accepted" is built.                                         *)
AcceptClaim(w) ==
    /\ at[w] = "claimed"
    /\ granted' = granted \cup {work[w].task}
    /\ Finish(w)
    /\ UNCHANGED <<registry, tables, processed, wlock, local, acked>>

(* The row was there already: rollback and 409.                            *)
RefuseClaim(w) ==
    /\ at[w] = "ignored"
    /\ Unlock
    /\ Finish(w)
    /\ UNCHANGED <<registry, tables, processed, history>>

-----------------------------------------------------------------------------
(* The functions on ProcessedTasks. All but the one for a result look the  *)
(* task up before they verify anything.                                    *)
LocallyVerified(op, bundle, result, report) ==
    \/ op = "result" /\ result # NoResult
                     /\ BundleVerified(bundle, result, report, registry)
    \/ op = "bundle" /\ PlainBundleVerified(bundle, report, registry)
    \/ op = "single" /\ SingleVerified(bundle, report, registry)
    \/ op = "quorum" /\ QuorumVerified(bundle, registry)

PostLocalBundle(w, op, bundle, result, report) ==
    /\ at[w] = "idle"
    /\ LocallyVerified(op, bundle, result, report)
    /\ bundle[1].content.claim.task \notin processed
    /\ Take(w, [op |-> op, task |-> bundle[1].content.claim.task,
                bundle |-> bundle])
    /\ Move(w, "unprocessed")
    /\ UNCHANGED <<registry, tables, processed, wlock, history>>

(* mark_processed: its own test...                                         *)
MarkTest(w) ==
    /\ at[w] = "unprocessed"
    /\ IF work[w].task \in processed
       THEN Finish(w)
       ELSE Move(w, "unmarked") /\ UNCHANGED work
    /\ UNCHANGED <<registry, tables, processed, wlock, history>>

(* ... and its add, a statement later.                                     *)
MarkAdd(w) ==
    /\ at[w] = "unmarked"
    /\ processed' = processed \cup {work[w].task}
    /\ Move(w, "marked")
    /\ UNCHANGED <<registry, tables, wlock, work, history>>

AcceptLocal(w) ==
    /\ at[w] = "marked"
    /\ local' = local \cup {work[w].task}
    /\ Finish(w)
    /\ UNCHANGED <<registry, tables, processed, wlock, granted, acked>>

-----------------------------------------------------------------------------
(* submit_stark_batch: the lookup by the lower-case key...                 *)
PostBatch(w, batch) ==
    /\ at[w] = "idle"
    /\ pending[Lower(batch.key)] = NoRow
    /\ Take(w, [op |-> "batch", task |-> batch.key.task, batch |-> batch])
    /\ Move(w, "absent")
    /\ UNCHANGED <<registry, tables, processed, wlock, history>>

(* Mutation: the bits of the value are kept, read as a signed integer. *)
StoredSigned(n) == IF n > MaxStored THEN n - MaxU64 - 1 ELSE n

Stored(n) == n
Fits(batch) == Stored(batch.gn) <= MaxStored /\ Stored(batch.latency) <= MaxStored

(* Mutation: a row that is already there is replaced. *)
FlushBatchMerge(w) ==
    /\ at[w] = "absent"
    /\ wlock = NoWorker
    /\ Fits(work[w].batch)
    /\ wlock' = w /\ Move(w, "flushed")
    /\ UNCHANGED <<registry, tables, processed, work, history>>

(* ... the INSERT of the flush, whose values the driver binds first        *)
(* (OverflowError, 500)...                                                 *)
BatchTooWide(w) ==
    /\ at[w] = "absent"
    /\ ~Fits(work[w].batch)
    /\ Finish(w)
    /\ UNCHANGED <<registry, tables, processed, wlock, history>>

(* ... and which may meet the unique key (IntegrityError, 409)...          *)
FlushBatch(w) ==
    /\ at[w] = "absent"
    /\ wlock = NoWorker
    /\ Fits(work[w].batch)
    /\ IF pending[Lower(work[w].batch.key)] = NoRow
       THEN wlock' = w /\ Move(w, "flushed") /\ UNCHANGED work
       ELSE Finish(w) /\ UNCHANGED wlock
    /\ UNCHANGED <<registry, tables, processed, history>>

(* ... and the commit.                                                     *)
CommitBatch(w) ==
    LET batch == work[w].batch
    IN  /\ at[w] = "flushed"
        /\ pending' = [pending EXCEPT ![Lower(batch.key)] =
                         [gn |-> Stored(batch.gn), latency |-> Stored(batch.latency)]]
        /\ Unlock
        /\ Move(w, "kept")
        /\ UNCHANGED <<registry, claimed, processed, work, history>>

AcceptBatch(w) ==
    LET batch == work[w].batch
    IN  /\ at[w] = "kept"
        /\ acked' = [acked EXCEPT ![work[w].task] =
                       [gn |-> batch.gn, latency |-> batch.latency]]
        /\ Finish(w)
        /\ UNCHANGED <<registry, tables, processed, wlock, granted, local>>

-----------------------------------------------------------------------------
(* The wait for the write lock runs out: 500.                              *)
LockTimeout(w) ==
    /\ at[w] \in {"verified", "absent"}
    /\ wlock # NoWorker
    /\ Finish(w)
    /\ UNCHANGED <<registry, tables, processed, wlock, history>>

(* The commit fails: the session rolls back when it is closed.             *)
TransactionFails(w) ==
    /\ at[w] \in {"inserted", "flushed"}
    /\ Unlock
    /\ Finish(w)
    /\ UNCHANGED <<registry, tables, processed, history>>

(* The process dies and starts again.                                      *)
Restart ==
    /\ registry' \in SUBSET Validators
    /\ processed' = {} /\ local' = {}
    /\ wlock' = NoWorker
    /\ at'   = [w \in Workers |-> "idle"]
    /\ work' = [w \in Workers |-> NoWork]
    /\ UNCHANGED <<tables, granted, acked>>

(* Whichever function a bundle is sent to, only one with a quorum gets on. *)
WithQuorum == {b \in SentBundles : QuorumVerified(b, registry)}

WorkerNext(w) ==
    \/ /\ at[w] = "idle"
       /\ \/ \E b \in WithQuorum, report \in SentReports :
                \/ \E result \in SentResults :
                      \/ PostProofBundle(w, b, result, report)
                      \/ PostLocalBundle(w, "result", b, result, report)
                \/ \E op \in {"bundle", "single", "quorum"} :
                      PostLocalBundle(w, op, b, NoResult, report)
          \/ \E batch \in SentBatches : PostBatch(w, batch)
    \/ InsertClaim(w) \/ CommitClaim(w) \/ AcceptClaim(w) \/ RefuseClaim(w)
    \/ MarkTest(w) \/ MarkAdd(w) \/ AcceptLocal(w)
    \/ BatchTooWide(w) \/ FlushBatch(w) \/ CommitBatch(w) \/ AcceptBatch(w)
    \/ LockTimeout(w) \/ TransactionFails(w)

EvidenceNext == Restart \/ \E w \in Workers : WorkerNext(w)

EvidenceSpec == EvidenceInit /\ [][EvidenceNext]_evars

-----------------------------------------------------------------------------
(* Properties. *)

Labels == {"idle", "verified", "inserted", "ignored", "claimed", "unprocessed",
           "unmarked", "marked", "absent", "flushed", "kept"}

EvidenceTypeOK ==
    /\ registry \subseteq Validators
    /\ claimed \subseteq Tasks /\ processed \subseteq Tasks
    /\ pending \in [Keys -> Row \cup {NoRow}]
    /\ wlock \in Workers \cup {NoWorker}
    /\ at \in [Workers -> Labels]
    /\ work \in [Workers -> ProofRequests \cup LocalRequests \cup BatchRequests
                              \cup {NoWork}]
    /\ granted \subseteq Tasks /\ local \subseteq Tasks
    /\ acked \in [Tasks -> Row \cup {NoRow}]

(* A task hash is answered "accepted" for one proof and one request, ever, *)
(* whatever runs beside it and however often the process dies              *)
(* (replay.py, claim_processed_task: "Atomically claim a task hash").      *)
TaskAcceptedOnce ==
    \A w \in Workers : at[w] = "claimed" =>
        /\ work[w].task \notin granted
        /\ \A v \in Workers :
             at[v] = "claimed" /\ work[v].task = work[w].task => v = w

(* An acceptance a client was told of survives the process.                *)
AcceptedIsDurable == granted \subseteq claimed

(* What a claim costs: by another count than the code's ceiling, at least  *)
(* the threshold share of the active validators, each once, signed the     *)
(* claim, with both checks done, and the claimed speed is possible.        *)
SignersOf(bundle, content, active) ==
    {v \in active : \E i \in DOMAIN bundle :
        bundle[i].validator = v /\ bundle[i].sig = [by |-> v, over |-> content]}

Backed(bundle, task, active) ==
    \E content \in {bundle[i].content : i \in DOMAIN bundle} :
        /\ content.claim.task = task
        /\ content.quote /\ content.log
        /\ SignersOf(bundle, content, active) # {}
        /\ Cardinality(SignersOf(bundle, content, active)) * Den
             >= Cardinality(active) * Num

Possible(bundle) ==
    \E i \in DOMAIN bundle :
        LET claim == bundle[i].content.claim
        IN  claim.gn <= 2000 * claim.latency /\ claim.latency > 0

(* Nothing is accepted, by the database or in memory, without the          *)
(* threshold share of the validators active at that time                   *)
(* (calculate_validator_quorum, verify_validator_attestation_quorum).      *)
ClaimsAreBacked ==
    \A w \in Workers :
        at[w] \in {"inserted", "claimed", "unmarked", "marked"} =>
            /\ Backed(work[w].bundle, work[w].task, registry)
            /\ work[w].op \in {"proof", "result"} => Possible(work[w].bundle)

(* The batch a client was told is pending stays as it was sent: it is not  *)
(* replaced by a later one for the same hash, nor cut to the column.       *)
BatchIsKept ==
    \A t \in Tasks : acked[t] # NoRow =>
        /\ \E k \in Keys : k.task = t /\ pending[k] = acked[t]
        /\ \A j, k \in {i \in Keys : i.task = t /\ pending[i] # NoRow} : j = k

(* The memory of one process accepts a task hash once (crypto.py,          *)
(* verify_and_accept_validator_attestation_bundle_for_result: "Atomically  *)
(* verify result binding, report_data, quorum and replay").                *)
LocalAcceptedOnce ==
    \A w \in Workers : at[w] = "marked" =>
        /\ work[w].task \notin local
        /\ \A v \in Workers :
             at[v] = "marked" /\ work[v].task = work[w].task => v = w

=============================================================================
