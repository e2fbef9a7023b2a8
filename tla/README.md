# flop-proof-api in TLA+

The proof API keeps, per proof, an append-only chain of signed events. Clients
sign requests and events with their did:key; the API checks signatures, the
proof's own delegation rule, nonces and (version 4) the chain head each event
signs; anyone can verify an export, online or offline. This directory models
that and what stands around it: the SDK client that retries on top of the API,
the verifier, the endpoints that accept evidence of validators, the
verification of compute-channel receipts, and the rate limiter. TLC checks it
on small instances, and TLAPS proves the safety properties of all of them for
every number of handlers, proofs, clients, calls, rows, alterations, workers,
validators, turns and for every threshold, length of paths, limit and window.

## 1. The system

| Component | State | Operations | What is hard | What makes it correct |
|---|---|---|---|---|
| Authorization rules (`app/authorization.py`) | none: pure over a chain prefix | `creator_of`, `delegates_of`, `authorize_event`, `check_single_result_created` | delegation is spread over the chain, the cap counts the whole chain | authority comes only from the creator's earlier, well-formed delegations |
| Proof chain API (`app/main.py`, `events.py`, `database.py`, `models.py`) | tables `proofs` (request_id unique, version, status) and `proof_events`; SQLite's write lock | `POST /proofs`, `POST /proofs/{id}/events`, `GET /proofs/{id}` | sync handlers run on a thread pool, each with its own session; reads before the lock, `BEGIN IMMEDIATE`, reads after it; busy timeouts, failing commits, process death, copies of signed requests in flight | chains linked to the signed heads, nonces once, status agrees with the chain, one proof per request_id, answers durable |
| Verifier (`app/verification_core.py`, `verifier.py`, `GET /proofs/{id}/verify`) | none: pure over an export | one pass of per-event checks, position rule, content checks, kept head/count | a second implementation of the API's rules, over three formats; exports may have been altered and relinked | accepts what the API stores; a valid version-4 export is history |
| Canonical formats (`app/canonical.py`, SDK copy) | none | build, parse | untagged v1/v2 messages can be read two ways | a message belongs to one kind and one version |
| SDK client (`flop_proof_sdk/client.py`) | one call's head and attempts | `current_head`, `append_signed_event` with retries | a stale head, a lost answer, a request given up that still arrives, signing again with the same nonce | an answer of the SDK is true and stays true; a closing event is never signed again on a head its caller has not seen |
| Validator attestations, replay guards (`main.py`, `crypto.py`, `replay.py`) | `ProcessedTasks` in memory, table `processed_tasks` | the two accept endpoints, three acceptance functions | two bundles for one task at once; a failing commit; restarts; test-and-set without a lock in the in-memory guard | a task hash is accepted once, for good, and with the threshold share of the active validators |
| STARK intake (`main.py`) | table `pending_verifications` | `POST /stark-batches` | look-up and insert race; numbers wider than their column | one evidence record per task hash, kept as it was sent |
| Rate limiter (`rate_limit.py`) | time stamps per key | `check` | window boundary, retry time | never more than the limit in a window |
| Compute channel, Merkle receipts (`compute_channel.py`, `crypto.py`) | none: pure over turns, paths and a receipt | `decode_fcc4_transcript`, `verify_turn_proof`, `verified_work_from_turns`, `verify_receipt`, tree and paths | four leaf versions, optional fields, odd levels, index bits above the path, sums that overflow | accepted work was recorded by the enclave, once, under the root the agent signed |
| Dashboard (`dashboard/src/lib`) | status poller | `proof-view.ts`, `freshness.ts`, `api-status.ts` | stale answers | no valid badge without every check |
| Migrations, scripts, crypto primitives, middleware | – | – | – | not modelled |

Interactions: every API handler is a call from a client over HTTP; handlers
share only the database (the in-memory guard and the rate limiter excepted).
The authorization rules are called by the API under the write lock and by the
verifier over the export. The verifier's input is what `GET /proofs/{id}`
returns, possibly after a stay in somebody's hands. The SDK is a client of the
three handlers and trusts no export it cannot link itself. The evidence
endpoints read the proof tables (a `result.created` row never changes) and
write their own two tables. The hazards of the code,
with their lines and the properties that cover them, are in `PROJECT.json`.

## 2. Modules

| Module | Models | Uses |
|---|---|---|
| `Authorization` | `app/authorization.py` | – |
| `ProofChain` | the three handlers over SQLite, one action per step between two points where another thread can move | `Authorization`, `ProofLog` |
| `ProofLog` | the abstract promise: owned logs that grow by one entitled entry at a time | – |
| `ProofChainProofs` | theorems about `ProofChain`: types, links, nonces, status, and who and what a stored chain admits | `ProofChain` |
| `AnswerProofs` | theorems about what a client is told, and that `ProofChain` implements `ProofLog` | `ProofChainProofs` |
| `AppendClient` | the SDK's `append_signed_event` over the API and a network that loses | `ProofChain` |
| `AppendClientProofs` | theorems about `AppendClient` | `AppendClient`, `AnswerProofs` |
| `Verifier` | `verify_proof_events`, check by check | `Authorization` |
| `VerifiedChain` | the API's stored chains handed to the verifier | `ProofChain`, `Verifier` |
| `VerifiedChainProofs` | theorems: the verifier accepts what the API stores | `VerifiedChain`, `ProofChainProofs` |
| `ProofExport` | a proof, its export, and what can become of a copy of it | `Authorization`, `Verifier` |
| `ProofExportProofs` | theorems about valid copies of an export | `ProofExport` |
| `Attestations` | the attestation checks of `crypto.py` as operators | – |
| `Evidence` | the evidence endpoints, the two replay guards, restarts | `Attestations` |
| `EvidenceProofs` | theorems about `Evidence` | `Evidence` |
| `MerkleTree` | ordered tree and paths of `crypto.py` | – |
| `ComputeChannel` | transcript decoder, turn and receipt verification | `MerkleTree` |
| `ComputeChannelProofs` | theorems about `ComputeChannel` and the tree | `ComputeChannel` |
| `RateLimiter` | the sliding window of `rate_limit.py` and its middleware | – |
| `RateLimiterProofs` | theorems about `RateLimiter` | `RateLimiter` |
| `MCProofChain`, `MCVerifiedChain`, `MCProofExport`, `MCAppendClient`, `MCEvidence`, `MCComputeChannel`, `MCRateLimiter` | model values, inputs and symmetry for TLC | |

### ProofChain: state and actions

| Variable | Code |
|---|---|
| `proofs[p]` | the committed `proofs` row, or `Absent` |
| `chain[p]` | the committed `proof_events` rows of `p`, by sequence |
| `lock` | who is inside `BEGIN IMMEDIATE` |
| `pc[h]`, `req[h]` | where the handler stands and its request |
| `rows[h]` | what its session holds: staged rows, or the status `get_proof` read first |
| `reply[h]` | the response it built |

A request passes `idle -> checked -> locked -> staged -> closing -> idle`.

| Action | Code |
|---|---|
| `PostEvent`, `PostProof`, `GetProof` | arrival: everything up to the lock. The SELECTs before the lock are autocommit reads of committed data. `EarlyRefusal` and `IdempotencyReply` are the early returns |
| `BeginChainWrite`, `BusyTimeout` | `begin_chain_write`: the lock is taken, or the wait ends in an error |
| `RefuseEvent`, `StageEvent` | the locked section of `append_event`: `LockedRefusal` has its checks in the code's order; the transaction is still open when it refuses |
| `StageProof` | the write of `create_proof` |
| `CommitEvent`, `CommitProof` | flush and commit: both rows become visible and the lock goes. Reading the answer back may fail, then the client sees an error although the rows are stored |
| `RollbackDuplicate`, `ReadRaced` | the `IntegrityError` branch of `create_proof` |
| `CommitFails` | any other failure of the commit |
| `ReadEvents` | the second SELECT of `get_proof` |
| `CloseSession` | `get_db`'s `finally`: closing rolls an open transaction back |
| `Crash` | the process dies; committed rows stay |

Abstractions. A link hash covers the row's `event_id`, a fresh uuid4, and
stored rows are never changed, so two stored rows have equal links exactly when
they have equal ids: the id stands for the link. `signed` says whether the
canonical rebuilt by the server matches and the signature verifies. Ed25519
signatures are deterministic, so a version-1/2 event of the same actor, type and
payload has the same 64 signature bytes. It need not have the same text:
`decode_ed25519_signature` takes the bytes without padding and with `==`, while
the tables, the payload hash of a request, the API's repeated-pair check and the
verifier's hold the text. A row therefore has a `spelling`, `"bare"` or
`"padded"`, and every comparison of signatures compares it where the code
compares text (`RepeatedPair`, `SameRequest`, `ReplayValid`); only
`SignatureValid` takes either. `SentSpellings` are those the clients of a run
post; the SDK writes `"bare"` (`client.py:39`). A payload keeps its
`delegates` field and an opaque body. A fresh id is the one unused value CHOOSE
takes: nothing depends on which. Old proofs (`OldVersions`) exist at the start,
as rows an earlier release left behind, with their `request.created` only.

### Verifier and its two compositions

`Verifier` takes an export as a sequence of records and has one operator per
check of `verify_proof_events`, with the same accumulators: `AuthorizationPrior`
is the list of events that verify by themselves, `ReplayValid` looks at every
earlier event, intact or not, `ContentOf` keeps the result of the last event
that has something to check. Its constants `Link` and `Content` are
`hash_event_record` and the content checks.

`VerifiedChain` instantiates it over `ProofChain`'s tables, with the exported
message and signature of each row; the link is the id. `ProofExport` instantiates
it with links that are records of exactly the fields `hash_event_record` covers,
because there rows are altered: a proof grows by the rules of the API, clients
also sign events that it refuses, an export is taken, and its copy loses,
repeats, swaps, changes or gains rows, relinked or not, and may be relabelled;
a signature may be put in its other spelling (`Respelled`).
The payload of a request holds its `request_id` and `created_at` besides the
signed fields; the canonical message does not cover them (`rest` in
`RequestPayload`), so a copy may show others. As long as a later row is there,
its signed head gives that away; `ValidIsHistory` says so.

### AppendClient: calls and the network

A client stands for one event its application wants stored and is named by the
nonce chosen for it. `wants[c]` is its type, `calls[c]` the state of its current
or last call (a record of the local variables of `append_signed_event`: the head
it signed, the retries left, and three history fields: `since`, the length of
the chain when it asked for a head, `read`, whether the SDK read the head by
itself, and `firsts`, the heads its calls began with). `made` counts the calls of
all clients, up to the bound `MaxCalls`, and numbers them. `net` holds requests on
their way, `serving[h]` the connection a handler answers on. The handlers' own
steps are the actions of `ProofChain`, unchanged (`Serve`).

| Action | Code |
|---|---|
| `Call` | `append_signed_event`, with `prior_head` or with `current_head` |
| `Answer` | a response reaches the call that waits for it: `GetExport` (`current_head`, and the decision to sign again or to raise `HeadMismatchError`) or `GetPostAnswer` |
| `LoseConnection` | a connection error or the timeout: `FlopProofError`; the request may be anywhere |
| `Deliver` | a request in transit reaches an idle handler, awaited or not |
| `ServerStep`, `ServerCrash` | the API |

`Received` is what may come back for an export: the server's, one cut by an
event, one with another `chain_head`; `current_head` computes the link itself.
`RejectedIsNotStored` is stated for heads the SDK read itself. A caller that
hands in an old `prior_head` after an abandoned request of its own, signed over
a newer head, may be told `HeadMismatchError` and still see that request arrive;
neither the code nor its documents promise more.

### Attestations and Evidence

A hash or a signed payload is the value it covers. `QuorumVerified`,
`BundleVerified` and their two siblings are `verify_validator_attestation_quorum`
and the functions on top of it, with the ceiling of the threshold
(`Quorum`) and the tripwire's integer comparison (`Plausible`).

| Variable | Code |
|---|---|
| `registry` | the active validators, read from the environment when the process starts |
| `claimed`, `pending` | tables `processed_tasks` and `pending_verifications` |
| `processed` | `ProcessedTasks` of this process |
| `wlock`, `at[w]`, `work[w]` | SQLite's write lock; where each worker stands, with which request |
| `granted`, `local`, `acked` | history: what clients were told |

`PostProofBundle -> InsertClaim -> CommitClaim -> AcceptClaim` (or `RefuseClaim`)
is `accept_proof_validator_attestations` with `claim_processed_task`: the row
count of `INSERT OR IGNORE` decides, the commit follows. `PostLocalBundle ->
MarkTest -> MarkAdd -> AcceptLocal` are the acceptance functions on the set in
memory, whose test and add are two statements. `PostBatch -> FlushBatch ->
CommitBatch -> AcceptBatch` is `submit_stark_batch`: look-up, flush (unique key,
or a number its column cannot hold: `BatchTooWide`), commit. `LockTimeout`,
`TransactionFails` and `Restart` (with another set of validators) are the faults.

### MerkleTree and ComputeChannel

The code holds the decoder and the verifiers; the enclave that records turns,
the agent that signs a receipt and the submitter of proofs are external and
known from the tests. A hash is the term that was hashed. That the terms are
distinct rests on the lengths of the preimages: 116, 140, 172 and 236 bytes for
the four leaf versions, 64 for a node. A transcript is a sequence of fields, one
place each, so a flag that announces a field shifts the fields after it, as the
bytes do. `Transcripts` are the sender's encoding, cut, continued or with one
field changed; `Items` are proofs of any held turn with the path of any position
under any index.

The loops of the code are recursive functions, of which each value is the state
of the loop after so many rounds: `Levels` (the levels of the tree, of which
`Height` is the first with one node), `Shifted` (the index as it is shifted up a
path), `Climb` (the hash on the way up), `Work` (the running sum), `Sent` and
`Reading` (a transcript after each turn). Operators declared recursive would say
the same, but no theorem could be stated about them here.

Two differences between the checks were met and are in the model as they are in
the code: the leaf function takes a version-2 turn with a zero policy, which the
decoder and `verify_turn_proof` refuse (so `HonestIsAccepted` and the second half
of `TranscriptIsExact` are about turns `WithPolicies`); the decoder takes a version-0 turn with
timing fields, for which no leaf exists, so that the verifier refuses it.

### RateLimiter

`now` is `time.monotonic()` in ticks, of which `Ticks` make a second; `requests`
the time stamps kept per key; `admitted` (all requests let in) and `refused` (the
refusal since the last of them, with its time and its Retry-After) are history.
`Middleware` is `rate_limit_middleware` with the whole of `check`: the loop that
drops expired time stamps, then `Refuse` or `Admit`. It is one action because the
middleware is a coroutine without an `await` before the answer of `check`: the
event loop runs one at a time, so the lock and the clock read before it do not
matter. `Reset` is `reset` (tests) and a new process. `/health`, and every
request when the limiter is switched off, change nothing. A limit of 0 is left
out (`LimitAssumption`): `check` would raise.

## 3. Runs

| Run | Instance | Shows |
|---|---|---|
| `ChainRaces` | 2 handlers. New proofs: 1 signer, 2 proof ids, notes, results and closing events, version-4 chains of up to 3 rows. An old version-3 proof: 2 signers, 3 identities, cap 1, delegations and results, chains of up to 4 rows | `TypeOK`, `ChainLinked`, `NonceUsedOnce`, `AcknowledgedIsStored`, `ExportIsConsistent`, `AuthorityFollowsChain`, `OneResult`, `HeadMismatchIsRetryable`, and that `ProofChain` implements `ProofLog` (`ImplementsLog`) |
| `ChainOld` | 2 handlers, an old version-1 or version-3 proof next to a new one, signatures in both spellings | `StatusFollowsChain`, `OldPairOnce`, `NonceUsedOnce`, `StoredChainsVerify` |
| `OldCopies` (violation) | 1 handler, an old version-1 proof, signatures in both spellings | `EventIsStoredOnce` fails: see section 6 |
| `ChainLive` | 2 handlers under weak fairness, 2 signers, 1 request id, 2 proof ids, two texts, a note, chains of 2 rows | `EveryRequestEnds`, `LockIsReleased`, `CreatedIsOwnRequest` |
| `VerifiedRules` | 1 handler, 3 identities, 7 payload shapes, cap 1, version-4 chains of up to 3 rows | `StoredChainsVerify`, `ClosedIsClosed`, `AuthorityFollowsChain` |
| `ExportEdits` | versions 1, 3, 4; up to 3 rows, 1 refused event, 2 alterations, both spellings of a signature | `ValidIsHistory`, `HeadPinsExport`, `ValidIsSigned` |
| `ArtifactHashes` (violation) | 1 signer, two artifacts | `ArtifactsAreChecked` fails: see section 6 |
| `AppendRetries` | 2 SDK clients, 3 calls, 1 retry, notes and closing events, 2 handlers, crashes, lost connections | `RejectedIsNotStored`, `ReturnedIsStored`, `ClosedOnFirstHead`, `SignedHeadWasCurrent` |
| `AcceptOnce` | 2 workers, any set of 3 validators active, threshold 2/3, 2 task hashes, 60 bundles, 3 batches | `EvidenceTypeOK`, `TaskAcceptedOnce`, `AcceptedIsDurable`, `ClaimsAreBacked`, `BatchIsKept` |
| `LocalGuard` (violation) | the same instance | `LocalAcceptedOnce` fails: see section 6 |
| `ReceiptWork` | up to 3 turns of four leaf versions, 6 positions, every combination of proofs | `WorkIsCountedOnce`, `PinnedPolicyHolds`, `HonestIsAccepted`, `RootBindsTurns`, `TranscriptIsExact` |
| `RateWindow` | 2 keys, limit 2 in 2 seconds, ticks of half a second, 9 of them | `LimiterTypeOK`, `WindowLimit`, `RefusedWhenFull`, `RetryIsNear` |

Every definition named "Mutation" in a module is a plausible bug in the code it
stands next to (a lock not taken, a check dropped or reordered, a swallowed
failure); `PROJECT.json` says which property finds it in which run.

Bounds. `MaxEvents` stops arrivals for a chain of that length; requests already
in flight still commit. In versions 1 to 3 two handlers can so bring a chain to
`MaxEvents + 1` rows. A version-4 event must name a head that exists when it
arrives, and only one event fits on it, so a version-4 chain ends at `MaxEvents`
rows: `request.created` and two events in `ChainRaces`, `VerifiedRules` and
`ArtifactHashes`, one in `ChainLive`, three in `AppendRetries`. Rules about
delegates and results need longer chains, and writers that no head orders:
`ChainRaces` therefore has a second initial state, a version-3 proof of one
creator (`Shared`), whose chains reach four rows, so that a delegation, a row of
the delegate and a second delegation or result all get to the locked checks
while another handler has been through them. Requests that the checks before
the lock refuse are left out of that part, they change nothing. Each rule is
needed: without the delegation check, the cap or the lock `AuthorityFollowsChain`
fails in this run, without the check of a second result `OneResult` does.
Version-4 chains with two delegations are in `VerifiedRules`. Two
handlers are enough for every race in the code, which are all of the form
"decide, the other one commits, act": a third would only queue for the lock.
Three nonces let a second copy, a new event and the request be told apart.
`EventIds` bounds the rows of all proofs together, staged ones included: it is
above what one proof can reach in every run but `ChainOld`, where the old and
the new proof share four ids; when ids run out a handler stays in its locked
section until a crash. In `ChainLive` the clients share one request id: creates
for different ids meet only in the choice of fresh ids, and
`CreatedForItsRequest` is proved for any number of them. In `VerifiedRules` and `ArtifactHashes` one handler is
enough, because races are not in question there. In
`ExportEdits` two alterations reach, for example, a removed tail with a refused
event in its place; events of one proof need no more than three rows for a
predecessor, a row and a successor. Deadlock is checked everywhere but in
`ExportEdits`, where the alterations are used up, in `AppendRetries`, where the
applications stop after `MaxCalls` calls, and in `ReceiptWork`, where a channel
settles once.

In `AppendRetries` three calls of two clients let one client give a request up,
call again and meet the other client's event in between; that is the shortest
way on which an abandoned copy, its successor and a competitor are all in
flight. Every client is given one type of event, a note or a closing one.
In `AcceptOnce` three validators with a threshold of 2/3 make the quorum 1, 1, 2
or 2 (0 to 3 active), so the ceiling differs from the floor; the bundles hold
repeated validators, wrong signers, wrong contents, missing checks, impossible
speeds. `MaxU64 = 2` and `MaxStored = 1` stand for 2^64 - 1 and 2^63 - 1: the
three values are "fits", "at the limit" and "only the schema takes it". One
task hash with two spellings and one other are enough for a guard that is keyed
by the hash. In `ReceiptWork` three turns make an odd level and a padded
position; `MaxTurns = 6` leaves indices above the width of the tree; `MaxGn = 3`
lets a sum pass the limit. `MaxPath` is as long as the longest path there. In `RateWindow` nine ticks are more
than two windows, so a time stamp is used, dropped and replaced twice; half
seconds are what rounding down loses.

Symmetry (handlers, nonces) is used for safety only; neither is compared or
ordered in a module, and `CHOOSE` ranges over ids only.

Fairness. `FairSpec` asks weak fairness of each handler's own steps: the server
schedules its threads, and a waiter leaves the wait by the lock or by the busy
timeout. Nothing is assumed of clients, of commits succeeding, or of the
process staying alive (after a crash the handlers are idle).

## 4. Theorems

Eight modules hold theorems, for every value of the constants under the modules'
named assumptions (the delegates cap is a natural number; identities and
validators are finitely many; ids are positive; a threshold is a fraction
between 0 and 1; limit, window and ticks are positive; a path may be long enough
for the turns a receipt may have, in the code 64 levels for 1024 turns
(`ChannelAssumption`); null values lie outside the sets they stand beside):

| Module | Theorem | States |
|---|---|---|
| `ProofChainProofs` | `Invariance` | `Spec => []IInv`, the inductive invariant |
| | `TypeCorrect` | `[]TypeOK` |
| | `ChainsAreLinked` | `[]ChainLinked` |
| | `NoncesAreUnique` | `[]NonceUsedOnce` |
| | `StatusIsTheChains` | `[]StatusFollowsChain` |
| | `OneResultPerProof` | `[]OneResult` |
| | `OldPairsStoredOnce` | `[]OldPairOnce` |
| | `AuthorityHolds` | `[]AuthorityFollowsChain` |
| `AnswerProofs` | `AcknowledgedForGood` | `[]AcknowledgedIsStored` |
| | `ExportsAgree` | `[]ExportIsConsistent` |
| | `CreatedForItsRequest` | `[]CreatedIsOwnRequest` |
| | `HeadMismatchMeansRetry` | `HeadMismatchIsRetryable` (an action property) |
| | `ImplementsProofLog` | `ImplementsLog`: the refinement |
| `AppendClientProofs` | `ClientInvariance` | `ClientSpec => []CInv`, the inductive invariant of client and API together |
| | `RejectionIsFinal` | `[]RejectedIsNotStored` |
| | `ReturnedForGood` | `[]ReturnedIsStored` |
| | `ClosedWhereItBegan` | `[]ClosedOnFirstHead` |
| | `HeadsWereCurrent` | `[]SignedHeadWasCurrent` |
| `VerifiedChainProofs` | `StoredIsVerifiable` | `[]StoredChainsVerify` |
| | `ClosedMeansClosed` | `[]ClosedIsClosed` |
| `ProofExportProofs` | `NothingUnsigned` | `[]ValidIsSigned` |
| | `CopiesAreHistory` | `[]ValidIsHistory` |
| | `KeptHeadPins` | `[]HeadPinsExport` |
| `EvidenceProofs` | `EvidenceTypes` | `[]EvidenceTypeOK` |
| | `AcceptedOnce` | `[]TaskAcceptedOnce` |
| | `AcceptedForGood` | `[]AcceptedIsDurable` |
| | `AcceptedIsBacked` | `[]ClaimsAreBacked` |
| | `BatchesStay` | `[]BatchIsKept` |
| | `QuorumIsTheShare` | a verified bundle counts at least the threshold share of the active validators |
| `RateLimiterProofs` | `LimiterInvariance` | `LimiterSpec => []LimiterInv`, the inductive invariant |
| | `LimiterTypes` | `[]LimiterTypeOK` |
| | `LimitHolds` | `[]WindowLimit` |
| | `OnlyTheFullAreRefused` | `[]RefusedWhenFull` |
| | `RetryAfterIsClose` | `[]RetryIsNear` |
| `ComputeChannelProofs` | `ChannelInvariant` | `ChannelSpec => []ChannelInv`, the inductive invariant |
| | `CountedOnce` | `[]WorkIsCountedOnce` |
| | `PolicyIsPinned` | `[]PinnedPolicyHolds` |
| | `HonestAreAccepted` | `[]HonestIsAccepted` |
| | `RootBinds` | `[]RootBindsTurns` |
| | `TranscriptReadsOneWay` | `[]TranscriptIsExact` |

*The chain.* None of the chain properties is inductive: a commit appends a row
that was decided in an earlier step. `IInv` adds what carries the decision over:
`LockOK` (whoever is `locked` or `staged` has the lock, so there is one of them),
and `StagedOK` (the staged row is still what `LockedRefusal` and `NewRow` give
for the *current* tables). A step of another handler can disturb `StagedOK` only
by committing, which needs the lock; a commit establishes the chain properties
from `StagedOK`. The proof has one lemma per action.

*Authority.* These three follow from one consequence of `IInv`, `TableStep`: a
step that changes a chain either starts it with a `request.created` row or
appends an event that passes `LockedRefusal` against the chain of that very
moment. For `AuthorityFollowsChain` one more strengthening is needed (`Lawful`):
every stored `task.delegated` row carries a well-formed list. Only then does the
set the code derives (well-formed lists of the creator) equal the set the
property counts (every DID the creator's rows name), which `DelegatesAreNamed`
proves. The cap needs `Actors` to be finite, which the module assumes.

*Answers.* What a client is told is about rows that were committed, and rows
never move (`RowsStay`, `ProofStays`: a chain keeps its rows at their places, a
proof its request and version). So each promise has only to be established by
the step that builds the answer, and every other step keeps it; `Moves` names
the ways a handler can move. `ExportsAgree` also needs a promise about a handler
between its two SELECTs: the status it read is the status of some prefix of the
chain. `HeadMismatchIsRetryable` is about one step and follows from the order of
the checks in `LockedRefusal`.

*Refinement.* Only the two commits change the tables. A commit of a new proof is
`Register`, a commit of an event is `Extend`, everything else a stutter. What the
abstract step asks of an entry was checked under the lock and holds at the
commit (`StagedOK`), but for two things: the format is checked before the lock,
which needs an invariant of its own (`FormatKept`: a proof keeps its version),
and the abstract log counts names, not well-formed lists (`ChainsLawful`).

*The verifier over stored chains.* The verifier asks at row `i` whether the actor
was authorized by the *intact* events before it, the API asked whether it was by
the rows before it. The two agree because every stored row is intact
(`RowIsIntact`), so the list of intact events is the prefix itself
(`PriorIsPrefix`). That needs to be known of a stored row what the API decided
when it was appended, with the exported message and signature: `RowsAccepted`
keeps `Decided` for every row and `NoncesSigned` what its nonce field holds; a
step that stores a row establishes both from the locked section
(`DecidedStep`), and the nonce rules of the four formats come from
`NonceUsedOnce` and `OldPairOnce`.

*Altered exports.* `ExportInv` says that no alteration makes a signature: each row
of the copy carries the signature of the proof's request or of an event some
client signed, in one spelling or the other (`CopyIsMade`), whatever its other
fields are. What a valid row
shows is then fixed by its checks: `ValidEvent` and `ValidRequest` recover the
signed event or request, and that the label is of the proof's own format, from
the tags and the rule that a room is no proof_id. Version 4 adds that the fields
the link does not cover follow from those it covers (`Sealed`), so equal links
mean equal rows (`LinkFixesRow`), and that each signed head is the link of a
stored row (`SignedEvents`). So the row before a valid event is the stored row
of that number (`RowBeforeLast`), which gives `ValidIsHistory` and
`HeadPinsExport` without an induction along the chain. The link covers the
signature's text, so a row with a successor has the stored spelling too; the
last row may show the other one, and `ValidIsHistory` says so. `DistinctRows` is
what "nothing twice" comes to: in versions 3 and 4 a message, by its signed
nonce; in versions 1 and 2 the text of a signature. Hashes enter as
injective, which the model's record links state.

*The client.* A row enters a chain only right after the head its signer signed.
So of every request of a client that may still be served (`Live`: in transit, or
with a handler that has not decided) it is enough to know how far down the chain
the head it signed lies: `LiveSeen(c, k)` says among the first `k` rows. While a
call posts, `k` is the place of the head it signed; once the API has refused
that head the chain is longer, so the event is not stored and all live requests
are over links before the last (`Stale`), which nothing can undo. A server step
is reduced to `ServerMove`: each handler stays (`Kept`) or takes one request from
the network (`Taken`), so live requests only become fewer (`LiveShrinks`). A
client step has the form `ClientMove`: one call changes and sends at most one
request. That a response belongs to the call that gets it rests on there being
one outstanding connection per call (`ServingOK`, `Forgotten`, `AnsweredCall`),
and that an inconsistent export does no harm on `ReadHead`: it yields no head, or
the server's own.

*Evidence.* Whoever stands between an `INSERT` and its commit holds the write
lock (`Locked`), so what the insert found is still so at the commit (`ClaimsOK`,
`BatchesOK`); and what passed the checks stays backed, because the set of
validators changes only when every worker starts again (`Backing`).
`QuorumIsTheShare` is arithmetic on the ceiling (`Ceiling`) and a count of
distinct signers (`DistinctSigners`).

*The limiter.* What is kept of a key is the end of its history, and everything
before has expired (`KeptOK`); `RestIsNewest` says the loop of `check` keeps it so.
Then whoever is let in finds the request `MaxRequests` before it among the
expired, and whoever is refused finds it as the first that is kept. `RetryBounds`
is the arithmetic of the rounding.

*The compute channel.* `ChannelInv` says that recorded turns have the fields
of their versions and the signatures of their places, that the receipt is over
the root of a beginning of the recorded turns, and of a settlement what
`WorkIsCountedOnce` and `PinnedPolicyHolds` say. The step that matters is `Submit`, and its content is
about the tree. A path that climbs to the root, of whatever length, starts with
a leaf of the tree, because a node fixes its two parts and a leaf is no node
(`ClimbSound`); a leaf fixes its turn but for the signatures, so distinct turn
indices mean distinct recorded turns (`AcceptedIsRecorded`). Two trees of
distinct leaves with one root have one height and agree level by level, down to
the leaves (`HigherTreeSame`, `RootFixesLeaves`): a level of distinct nodes ends
with a repeated pair exactly when it was padded. Up the path of a position the
place is halved with each level, as the index is shifted (`ClimbToRoot`), and a
tree over at most `MaxTurns` leaves is no higher than a path may be long
(`HeightReached`). One turn is read back from a transcript exactly when its
fields agree, and each way of reading fixes the fields written
(`ReadIsEncoded`, `EncodedIsRead`); the transcript follows turn by turn
(`DecodedIsEncoded`, `EncodedDecodes`).

*Induction.* The library's induction rules take an operator as a parameter, which
none of the provers at hand can instantiate. What is used instead is a set of
counterexamples with a least element (`LeastElement`), which follows from the
library's fact that strict inclusion is well-founded on the subsets of a finite
set; `Induction` is the same for a set of numbers, and the equations of the
recursive functions come from it (`LevelsAre`, `ClimbIs`, `ShiftedIs`, `ReachIs`,
`WorkIs`, `SentIs`, `ReadingIs`).

Only model-checked: liveness (`EveryRequestEnds`, `LockIsReleased`), because the
prover has no support for fairness. Every invariant and action property of a
passing run, and the refinement, is a theorem.

## 5. Plan

Done: the chain API with its promise, the verifier over stored and altered
chains, the SDK client over the API, the evidence endpoints, the compute channel
and the rate limiter, each with the proofs of its safety properties.

Left, in this order:

1. Acknowledgements of turns (`verify_turn_ack`) in the compute channel.
2. Dashboard polling rules.

## 6. What the runs found

`ArtifactHashes`: the verdict keeps the artifact check of the *last*
`artifact.created` only (`verification_core.py` assigns `artifact_hash_valid`
anew at each one), so a chain whose first artifact does not match and whose
last one does is reported valid. The design documents speak of an artifact-hash
check per `artifact.created`. (Two `result.created` events cannot meet this: the
API and the verifier refuse the second.)

`OldCopies`: a version-1/2 event does not sign its nonce, so a copy of it has to be
caught as a repeated (canonical, signature) pair (`main.py:913`,
`verification_core.py:306`). Both places compare the text of the signature, and
`decode_ed25519_signature` takes two texts for one signature, without padding
and with `==`. In the run an event is stored, and its copy with the other
spelling and a new nonce is stored too; the chain verifies. The repository's
README says that a signed event cannot be replayed within its proof and that
version-1/2 proofs reject a repeated signature. What does hold is proved:
`OldPairOnce` (one text of a signature is stored once), and of altered exports
`ValidIsSigned`. Versions 3 and 4 are not concerned: the copy has the signed
nonce of the event (`NonceUsedOnce`).

`LocalGuard`: `mark_processed` (`crypto.py:262`) tests membership and adds in two
statements without a lock, and `POST /validator-attestations/accept` is a plain
function that FastAPI runs in its thread pool. Two requests for one task hash can
both be answered "accepted", while the docstrings of the acceptance functions
(`crypto.py:1607`, `crypto.py:1372`) say the task hash is consumed atomically,
exactly once. The endpoint for proofs claims the hash in the database and does
not have this race (`TaskAcceptedOnce`).

## 7. Not modelled, and why

- Cryptography: hashes are injective, signatures cannot be made up.
- The text of canonical messages beyond which fields they carry; malformed field
  types in an export or a transcript (an event whose content is no string makes
  the content check raise); blanks that `bytes.fromhex` skips in the batch hashes
  of `schemas.py`.
- HTTP, API keys and headers; the list endpoints, which only read.
- Databases other than SQLite: there `begin_chain_write` does nothing, and the
  mutation `BeginChainWriteNoLock` shows what then breaks.
- Timestamps, except as part of the unsigned id of a row.
- In the compute channel: acknowledgements of turns (`verify_turn_ack`),
  the `channel_id` every signed message carries (one channel is modelled), the
  task hashes of the turns.
- In the SDK: `create_signed_proof`, which signs and posts once (a caller that
  repeats it is in `ProofChain`: copies of one request), and the wrappers around
  one request.
- After a lost answer the evidence endpoint's client gets 409 on its retry and
  cannot tell an accepted bundle from a refused one; there is no state in the
  code that a property about this could relate.
- `FLOP_RATE_LIMIT=0`, with which every request would end in an `IndexError`.
- Migrations, scripts, vectors and the dashboard.
