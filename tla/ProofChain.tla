----------------------------- MODULE ProofChain -----------------------------
(***************************************************************************)
(* The proof API of app/main.py over its SQLite database: POST /proofs,    *)
(* POST /proofs/{id}/events and GET /proofs/{id}, each run by a worker     *)
(* thread (a handler) with a database session of its own.                  *)
(*                                                                         *)
(* A handler reads first without a lock (every SELECT is then a snapshot   *)
(* of its own), takes the write lock with BEGIN IMMEDIATE, reads again,    *)
(* decides, stages its rows, and commits or rolls back. Between any two of *)
(* these steps the other handlers move, a lock wait may run out, a commit  *)
(* may fail, and the process may die.                                      *)
(*                                                                         *)
(* A row of proof_events is a record. Its link hash (hash_event_record)    *)
(* covers the event_id, a fresh uuid4, and stored rows are never altered,  *)
(* so two stored rows have the same link exactly when they have the same   *)
(* id: the id stands for the link. NoHead stands for None.                 *)
(***************************************************************************)
EXTENDS Authorization

CONSTANTS
    Handlers,       \* worker threads of the API process
    Signers,        \* identities whose clients send requests
    ProofIds,       \* values uuid4 may give a proof_id
    RequestIds,     \* client-chosen request ids
    EventIds,       \* values uuid4 may give an event_id (and so, links)
    Nonces,         \* client-chosen nonces
    SentPayloads,   \* payloads the clients post
    SentTypes,      \* event types the clients post
    SentSpellings,  \* spellings of a signature the clients post
    OldVersions,    \* versions of a proof left by an earlier release
    MaxEvents,      \* bound: no POST arrives for a chain of this length
    NoHandler, NoProof, NoRequestId, NoNonce, NoReply, NoRequest, NoRows

NoHead == 0

(* One Ed25519 signature has two accepted texts: base64url without padding *)
(* and with "==". Both decode to the same bytes and verify; the code       *)
(* compares, hashes and stores the text.                                   *)
Spellings == {"bare", "padded"}

ASSUME SpellingsAssumption == SentSpellings \subseteq Spellings
ASSUME SignersAssumption == Signers \subseteq Actors
ASSUME IdsAssumption == EventIds \subseteq Nat \ {0}
ASSUME PayloadAssumption == SentPayloads \subseteq Payloads
ASSUME SentTypesAssumption == SentTypes \subseteq EventTypes
ASSUME BoundAssumption == MaxEvents \in Nat
ASSUME NullsAssumption ==
    /\ NoHandler \notin Handlers
    /\ NoRequestId \notin RequestIds
    /\ NoNonce \notin Nonces
    /\ NoProof \notin ProofIds
ASSUME VersionsAssumption == OldVersions \subseteq {"1", "2", "3"}

CurrentVersion == "4"
LegacyVersions == {"1", "2"}
Versions == {CurrentVersion, "3"} \cup LegacyVersions

VARIABLES
    proofs,     \* table proofs: request_id, version and status per proof_id
    chain,      \* table proof_events: the rows of each proof, by sequence
    lock,       \* the handler inside BEGIN IMMEDIATE, or NoHandler
    pc,         \* where each handler stands
    req,        \* the request each handler is serving
    rows,       \* what each handler's open session holds: staged or read rows
    reply       \* the response a handler has built and not yet finished with

vars == <<proofs, chain, lock, pc, req, rows, reply>>

-----------------------------------------------------------------------------
(* The tables. *)

OpenStatuses   == {"pending", "active"}
ClosedStatuses == {"completed", "failed"}
Statuses       == OpenStatuses \cup ClosedStatuses

ProofRow == [rid : RequestIds, version : Versions, status : Statuses]
Absent   == [rid |-> NoRequestId, version |-> CurrentVersion, status |-> "absent"]

Event == [id : EventIds, type : EventTypes, actor : Actors, payload : Payloads,
          spelling : Spellings, nonce : Nonces \cup {NoNonce},
          head : EventIds \cup {NoHead},
          seq : Nat \ {0}, prev : EventIds \cup {NoHead}]

Exists(p) == proofs[p] # Absent

LinkHash(event) == event.id

(* The link of the last row: the head the next event signs and points to.  *)
ChainHead(events) ==
    IF events = <<>> THEN NoHead ELSE LinkHash(events[Len(events)])

IdsOf(events)    == {events[i].id : i \in DOMAIN events}
NoncesOf(events) == {events[i].nonce : i \in DOMAIN events}

(* create_event: the row appended to a chain, at the next sequence and     *)
(* linked to the row before it.                                            *)
NewRow(events, id, type, actor, payload, spelling, nonce, head) ==
    [id |-> id, type |-> type, actor |-> actor, payload |-> payload,
     spelling |-> spelling, nonce |-> nonce, head |-> head,
     seq |-> IF events = <<>> THEN 1 ELSE events[Len(events)].seq + 1,
     prev |-> ChainHead(events)]

(* Mutation: the status is the type of the event. *)
StatusAfterIsType(status, type) ==
    IF type \in ClosingTypes THEN type
    ELSE IF status = "pending" THEN "active"
    ELSE status

StatusAfter(status, type) ==
    IF type = "proof.completed" THEN "completed"
    ELSE IF type = "proof.failed" THEN "failed"
    ELSE IF status = "pending" THEN "active"
    ELSE status

(* Staged rows are invisible to the other sessions but their uuids are     *)
(* taken. Any unused value would do; CHOOSE takes one of them.             *)
UsedIds == (UNION {IdsOf(chain[p]) : p \in ProofIds})
             \cup {rows[h].event.id : h \in {g \in Handlers : pc[g] = "staged"}}
FreshId == CHOOSE id \in EventIds : id \notin UsedIds

UsedProofIds == {p \in ProofIds : Exists(p)}
                  \cup {rows[h].pid : h \in {g \in Handlers : pc[g] = "staged"}}
FreshProofId == CHOOSE p \in ProofIds : p \notin UsedProofIds

-----------------------------------------------------------------------------
(* Requests and responses. *)

(* signed: the canonical is the one the server rebuilds from the request's *)
(* own fields and the signature over it verifies.                          *)
EventRequest ==
    [op : {"append"}, pid : ProofIds, actor : Actors, type : EventTypes,
     payload : Payloads, spelling : Spellings, nonce : Nonces,
     head : EventIds \cup {NoHead}, signed : BOOLEAN]

ProofRequest ==
    [op : {"create"}, rid : RequestIds, actor : Actors, payload : Payloads,
     spelling : Spellings, nonce : Nonces, signed : BOOLEAN]

(* A request has no "delegates" field. *)
RequestPayloads == {b \in SentPayloads : b.form = "absent"}

ReadRequest == [op : {"get"}, pid : ProofIds]

Requests == EventRequest \cup ProofRequest \cup ReadRequest

Refused(code) == [code |-> code]

ASSUME ReplyAssumption == NoReply # Refused("head_mismatch")

Created(p)    == [code |-> "created", pid |-> p]
Stored(event) == [code |-> "stored", id |-> event.id, seq |-> event.seq,
                  head |-> LinkHash(event)]
Exported(status, events) ==
    [code |-> "exported", status |-> status, events |-> events,
     head |-> ChainHead(events)]

(* The checks before the lock. A version-4 event signs a head, an event of *)
(* an older format has none (D-R12, D-C1).                                 *)
FormatOk(version, r) ==
    IF version = CurrentVersion THEN r.head # NoHead ELSE r.head = NoHead

EarlyRefusal(row, r) ==
    IF row = Absent THEN "not_found"
    ELSE IF row.status \in ClosedStatuses THEN "closed"
    ELSE IF ~FormatOk(row.version, r) THEN "bad_format"
    ELSE IF ~r.signed THEN "unsigned"
    ELSE "ok"

(* Mutation: a copy under another nonce is not recognised. *)
RepeatedPairWithNonce(events, r) ==
    \E i \in DOMAIN events :
        /\ events[i].type = r.type /\ events[i].actor = r.actor
        /\ events[i].payload = r.payload /\ events[i].spelling = r.spelling
        /\ events[i].nonce = r.nonce

(* A version-1/2 event does not sign its nonce: a copy is a repeated       *)
(* (canonical, signature) pair. The canonical is the type and the payload; *)
(* the signature is compared as text: the actor's, in the same spelling.   *)
RepeatedPair(events, r) ==
    \E i \in DOMAIN events :
        /\ events[i].type = r.type
        /\ events[i].actor = r.actor
        /\ events[i].payload = r.payload
        /\ events[i].spelling = r.spelling

(* Mutation: the status read before the lock is trusted. *)
LockedRefusalNoRecheck(row, events, r) ==
    LET authorization == AuthorizeEvent(events, r.actor, r.type, r.payload)
    IN  IF authorization # "ok" THEN authorization
        ELSE IF r.nonce \in NoncesOf(events) THEN "nonce_used"
        ELSE IF row.version \in LegacyVersions /\ RepeatedPair(events, r)
            THEN "already_recorded"
        ELSE IF SecondResult(events, r.type) THEN "result_already_created"
        ELSE IF row.version = CurrentVersion /\ r.head # ChainHead(events)
            THEN "head_mismatch"
        ELSE "ok"

(* Mutation: the nonce is not looked up in the chain. *)
LockedRefusalNoNonce(row, events, r) ==
    LET authorization == AuthorizeEvent(events, r.actor, r.type, r.payload)
    IN  IF row.status \in ClosedStatuses THEN "closed"
        ELSE IF authorization # "ok" THEN authorization
        ELSE IF SecondResult(events, r.type) THEN "result_already_created"
        ELSE IF row.version = CurrentVersion /\ r.head # ChainHead(events)
            THEN "head_mismatch"
        ELSE "ok"

(* Mutation: the head is compared before the nonce. *)
LockedRefusalHeadFirst(row, events, r) ==
    IF row.status \in ClosedStatuses THEN "closed"
    ELSE IF row.version = CurrentVersion /\ r.head # ChainHead(events)
        THEN "head_mismatch"
    ELSE LockedRefusalNoRecheck(row, events, r)

(* Mutation: the signed head is not compared at all. *)
LockedRefusalNoHead(row, events, r) ==
    LET authorization == AuthorizeEvent(events, r.actor, r.type, r.payload)
    IN  IF row.status \in ClosedStatuses THEN "closed"
        ELSE IF authorization # "ok" THEN authorization
        ELSE IF r.nonce \in NoncesOf(events) THEN "nonce_used"
        ELSE IF SecondResult(events, r.type) THEN "result_already_created"
        ELSE "ok"

(* Mutation: a second result is not looked for. *)
LockedRefusalNoResult(row, events, r) ==
    LET authorization == AuthorizeEvent(events, r.actor, r.type, r.payload)
    IN  IF row.status \in ClosedStatuses THEN "closed"
        ELSE IF authorization # "ok" THEN authorization
        ELSE IF r.nonce \in NoncesOf(events) THEN "nonce_used"
        ELSE IF row.version \in LegacyVersions /\ RepeatedPair(events, r)
            THEN "already_recorded"
        ELSE IF row.version = CurrentVersion /\ r.head # ChainHead(events)
            THEN "head_mismatch"
        ELSE "ok"

(* The checks under the lock, in the code's order; the signed head last.   *)
LockedRefusal(row, events, r) ==
    LET authorization == AuthorizeEvent(events, r.actor, r.type, r.payload)
    IN  IF row.status \in ClosedStatuses THEN "closed"
        ELSE IF authorization # "ok" THEN authorization
        ELSE IF r.nonce \in NoncesOf(events) THEN "nonce_used"
        ELSE IF row.version \in LegacyVersions /\ RepeatedPair(events, r)
            THEN "already_recorded"
        ELSE IF SecondResult(events, r.type) THEN "result_already_created"
        ELSE IF row.version = CurrentVersion /\ r.head # ChainHead(events)
            THEN "head_mismatch"
        ELSE "ok"

(* What POST /proofs answers when the request_id is already stored as p.   *)
(* The payload hash covers the whole signed request, its nonce, canonical  *)
(* and signature text included: a request of an older format never         *)
(* matches, nor does the same signature in its other spelling.             *)
SameRequest(p, r) ==
    /\ proofs[p].version = CurrentVersion
    /\ chain[p][1].payload = r.payload
    /\ chain[p][1].spelling = r.spelling
    /\ chain[p][1].nonce = r.nonce

IdempotencyReply(p, r) ==
    IF chain[p][1].actor # r.actor THEN Refused("other_actor")
    ELSE IF ~SameRequest(p, r) THEN Refused("other_request")
    ELSE Created(p)

StoredAs(rid) == {p \in ProofIds : Exists(p) /\ proofs[p].rid = rid}

-----------------------------------------------------------------------------
(* Initial states: an empty database, or one holding a proof left by an    *)
(* earlier release, at its request.created event.                          *)

OldRow(id, actor, payload, spelling, nonce) ==
    NewRow(<<>>, id, RequestCreated, actor, payload, spelling, nonce, NoHead)

EmptyDatabase ==
    /\ proofs = [p \in ProofIds |-> Absent]
    /\ chain  = [p \in ProofIds |-> <<>>]

OldDatabase ==
    \E v \in OldVersions, p \in ProofIds, rid \in RequestIds, id \in EventIds,
       a \in Actors, b \in RequestPayloads, w \in SentSpellings, n \in Nonces :
        /\ proofs = [q \in ProofIds |->
                       IF q = p THEN [rid |-> rid, version |-> v, status |-> "pending"]
                                ELSE Absent]
        /\ chain  = [q \in ProofIds |->
                       IF q = p
                       THEN <<OldRow(id, a, b, w,
                                     IF v \in LegacyVersions THEN NoNonce ELSE n)>>
                       ELSE <<>>]

Init ==
    /\ EmptyDatabase \/ OldDatabase
    /\ lock  = NoHandler
    /\ pc    = [h \in Handlers |-> "idle"]
    /\ req   = [h \in Handlers |-> NoRequest]
    /\ rows  = [h \in Handlers |-> NoRows]
    /\ reply = [h \in Handlers |-> NoReply]

-----------------------------------------------------------------------------
Goto(h, label)    == pc' = [pc EXCEPT ![h] = label]
Receive(h, r)     == req' = [req EXCEPT ![h] = r]
Respond(h, answer) ==
    /\ reply' = [reply EXCEPT ![h] = answer]
    /\ Goto(h, "closing")

(* append_event up to begin_chain_write: one SELECT of the proof row, then *)
(* the checks that need no chain. The head comes from an earlier export.   *)
PostEvent(h, p, r) ==
    /\ pc[h] = "idle"
    /\ Len(chain[p]) < MaxEvents
    /\ Receive(h, r)
    /\ LET refusal == EarlyRefusal(proofs[p], r)
       IN  \/ refusal # "ok" /\ Respond(h, Refused(refusal))
           \/ refusal = "ok" /\ Goto(h, "checked") /\ UNCHANGED reply
    /\ UNCHANGED <<proofs, chain, lock, rows>>

(* create_proof up to its write: the signature, then the SELECT by         *)
(* request_id (a stored proof and its first event never change).           *)
PostProof(h, r) ==
    /\ pc[h] = "idle"
    /\ Receive(h, r)
    /\ \/ ~r.signed /\ Respond(h, Refused("unsigned"))
       \/ /\ r.signed
          /\ \E p \in StoredAs(r.rid) : Respond(h, IdempotencyReply(p, r))
       \/ /\ r.signed
          /\ StoredAs(r.rid) = {}
          /\ Goto(h, "checked")
          /\ UNCHANGED reply
    /\ UNCHANGED <<proofs, chain, lock, rows>>

(* Mutation: begin_chain_write returns at once, as on another dialect. *)
BeginChainWriteNoLock(h) ==
    /\ pc[h] = "checked"
    /\ lock' = h
    /\ Goto(h, "locked")
    /\ UNCHANGED <<proofs, chain, req, rows, reply>>

(* begin_chain_write: BEGIN IMMEDIATE waits for the lock...                *)
BeginChainWrite(h) ==
    /\ pc[h] = "checked"
    /\ lock = NoHandler
    /\ lock' = h
    /\ Goto(h, "locked")
    /\ UNCHANGED <<proofs, chain, req, rows, reply>>

(* Mutation: the wait for the lock has no timeout. *)
BusyTimeoutNever(h) == FALSE

(* ... for as long as the driver's busy timeout allows.                    *)
BusyTimeout(h) ==
    /\ pc[h] = "checked"
    /\ lock # NoHandler
    /\ Respond(h, Refused("error"))
    /\ UNCHANGED <<proofs, chain, lock, req, rows>>

(* append_event under the lock: the proof row and the chain are read again *)
(* and a refusal is raised with the transaction still open.                *)
RefuseEvent(h) ==
    /\ pc[h] = "locked"
    /\ req[h].op = "append"
    /\ LET p == req[h].pid
           refusal == LockedRefusal(proofs[p], chain[p], req[h])
       IN  refusal # "ok" /\ Respond(h, Refused(refusal))
    /\ UNCHANGED <<proofs, chain, lock, req, rows>>

(* Mutation: the proof row is committed before the event row. *)
StageEventStatusFirst(h) ==
    /\ pc[h] = "locked"
    /\ req[h].op = "append"
    /\ LET r == req[h]
           row == proofs[r.pid]
           next == [row EXCEPT !.status = StatusAfter(row.status, r.type)]
       IN  /\ LockedRefusal(row, chain[r.pid], r) = "ok"
           /\ rows' = [rows EXCEPT ![h] =
                [pid |-> r.pid,
                 event |-> NewRow(chain[r.pid], FreshId, r.type, r.actor,
                                  r.payload, r.spelling, r.nonce, r.head),
                 row |-> next]]
           /\ proofs' = [proofs EXCEPT ![r.pid] = next]
    /\ Goto(h, "staged")
    /\ UNCHANGED <<chain, lock, req, reply>>

StageEvent(h) ==
    /\ pc[h] = "locked"
    /\ req[h].op = "append"
    /\ EventIds \ UsedIds # {}
    /\ LET r == req[h]
           row == proofs[r.pid]
       IN  /\ LockedRefusal(row, chain[r.pid], r) = "ok"
           /\ rows' = [rows EXCEPT ![h] =
                [pid |-> r.pid,
                 event |-> NewRow(chain[r.pid], FreshId, r.type, r.actor,
                                  r.payload, r.spelling, r.nonce, r.head),
                 row |-> [row EXCEPT !.status = StatusAfter(row.status, r.type)]]]
    /\ Goto(h, "staged")
    /\ UNCHANGED <<proofs, chain, lock, req, reply>>

(* create_proof's write: the proof row and its request.created event.      *)
StageProof(h) ==
    /\ pc[h] = "locked"
    /\ req[h].op = "create"
    /\ EventIds \ UsedIds # {}
    /\ ProofIds \ UsedProofIds # {}
    /\ rows' = [rows EXCEPT ![h] =
         [pid |-> FreshProofId,
          event |-> NewRow(<<>>, FreshId, RequestCreated, req[h].actor,
                           req[h].payload, req[h].spelling, req[h].nonce,
                           NoHead),
          row |-> [rid |-> req[h].rid, version |-> CurrentVersion,
                   status |-> "pending"]]]
    /\ Goto(h, "staged")
    /\ UNCHANGED <<proofs, chain, lock, req, reply>>

(* The flush and the commit: both rows become visible at once and the lock *)
(* goes. The column proofs.request_id is unique.                           *)
Write(h) ==
    /\ proofs' = [proofs EXCEPT ![rows[h].pid] = rows[h].row]
    /\ chain'  = [chain EXCEPT ![rows[h].pid] = Append(@, rows[h].event)]
    /\ lock'   = NoHandler
    /\ rows'   = [rows EXCEPT ![h] = NoRows]

(* After the commit the answer is read back from the database: if that     *)
(* fails the client sees an error although the rows are stored.            *)
CommitEvent(h) ==
    /\ pc[h] = "staged"
    /\ req[h].op = "append"
    /\ Write(h)
    /\ \/ Respond(h, Stored(rows[h].event))
       \/ Respond(h, Refused("error"))
    /\ UNCHANGED req

(* Mutation: the request_id column is not unique. *)
CommitProofNotUnique(h) ==
    /\ pc[h] = "staged"
    /\ req[h].op = "create"
    /\ Write(h)
    /\ Respond(h, Created(rows[h].pid))
    /\ UNCHANGED req

CommitProof(h) ==
    /\ pc[h] = "staged"
    /\ req[h].op = "create"
    /\ StoredAs(rows[h].row.rid) = {}
    /\ Write(h)
    /\ \/ Respond(h, Created(rows[h].pid))
       \/ Respond(h, Refused("error"))
    /\ UNCHANGED req

(* IntegrityError: another request with this request_id got there first.   *)
RollbackDuplicate(h) ==
    /\ pc[h] = "staged"
    /\ req[h].op = "create"
    /\ StoredAs(rows[h].row.rid) # {}
    /\ lock' = NoHandler
    /\ rows' = [rows EXCEPT ![h] = NoRows]
    /\ Goto(h, "raced")
    /\ UNCHANGED <<proofs, chain, req, reply>>

ReadRaced(h) ==
    /\ pc[h] = "raced"
    /\ \E p \in StoredAs(req[h].rid) : Respond(h, IdempotencyReply(p, req[h]))
    /\ UNCHANGED <<proofs, chain, lock, req, rows>>

(* Mutation: the failure is swallowed and the event is acknowledged. *)
CommitFailsSilently(h) ==
    /\ pc[h] = "staged"
    /\ req[h].op = "append"
    /\ rows' = [rows EXCEPT ![h] = NoRows]
    /\ Respond(h, Stored(rows[h].event))
    /\ UNCHANGED <<proofs, chain, lock, req>>

(* Any other failure of the flush or the commit (a reader that keeps its   *)
(* lock, a full disk): nothing is stored and the session is still open.    *)
CommitFails(h) ==
    /\ pc[h] = "staged"
    /\ rows' = [rows EXCEPT ![h] = NoRows]
    /\ Respond(h, Refused("error"))
    /\ UNCHANGED <<proofs, chain, lock, req>>

(* get_proof: the proof row, then, by a second SELECT, its events.         *)
GetProof(h, p) ==
    /\ pc[h] = "idle"
    /\ Receive(h, [op |-> "get", pid |-> p])
    /\ \/ ~Exists(p) /\ Respond(h, Refused("not_found")) /\ UNCHANGED rows
       \/ /\ Exists(p)
          /\ rows' = [rows EXCEPT ![h] = [status |-> proofs[p].status]]
          /\ Goto(h, "reading")
          /\ UNCHANGED reply
    /\ UNCHANGED <<proofs, chain, lock>>

ReadEvents(h) ==
    /\ pc[h] = "reading"
    /\ Respond(h, Exported(rows[h].status, chain[req[h].pid]))
    /\ rows' = [rows EXCEPT ![h] = NoRows]
    /\ UNCHANGED <<proofs, chain, lock, req>>

(* Mutation: the session goes back to the pool with its transaction open. *)
CloseSessionKeepsLock(h) ==
    /\ pc[h] = "closing"
    /\ req'   = [req EXCEPT ![h] = NoRequest]
    /\ reply' = [reply EXCEPT ![h] = NoReply]
    /\ Goto(h, "idle")
    /\ UNCHANGED <<proofs, chain, rows, lock>>

(* get_db's finally: closing the session rolls an open transaction back.   *)
(* The response may have left before this.                                 *)
CloseSession(h) ==
    /\ pc[h] = "closing"
    /\ lock'  = IF lock = h THEN NoHandler ELSE lock
    /\ req'   = [req EXCEPT ![h] = NoRequest]
    /\ reply' = [reply EXCEPT ![h] = NoReply]
    /\ Goto(h, "idle")
    /\ UNCHANGED <<proofs, chain, rows>>

(* The process dies: every session with it, the committed rows stay.       *)
Crash ==
    /\ \E h \in Handlers : pc[h] # "idle"
    /\ lock'  = NoHandler
    /\ pc'    = [h \in Handlers |-> "idle"]
    /\ req'   = [h \in Handlers |-> NoRequest]
    /\ rows'  = [h \in Handlers |-> NoRows]
    /\ reply' = [h \in Handlers |-> NoReply]
    /\ UNCHANGED <<proofs, chain>>

-----------------------------------------------------------------------------
Arrive(h) ==
    \/ \E p \in ProofIds, a \in Signers, t \in SentTypes, b \in SentPayloads,
          w \in SentSpellings, n \in Nonces, s \in BOOLEAN : \E k \in IdsOf(chain[p]) \cup {NoHead} :
          PostEvent(h, p, [op |-> "append", pid |-> p, actor |-> a, type |-> t,
                           payload |-> b, spelling |-> w, nonce |-> n,
                           head |-> k, signed |-> s])
    \/ \E i \in RequestIds, a \in Signers, b \in RequestPayloads,
          w \in SentSpellings, n \in Nonces, s \in BOOLEAN :
          PostProof(h, [op |-> "create", rid |-> i, actor |-> a,
                        payload |-> b, spelling |-> w, nonce |-> n, signed |-> s])
    \/ \E p \in ProofIds : GetProof(h, p)

Serve(h) ==
    \/ BeginChainWrite(h) \/ BusyTimeout(h)
    \/ RefuseEvent(h) \/ StageEvent(h) \/ CommitEvent(h)
    \/ StageProof(h) \/ CommitProof(h) \/ RollbackDuplicate(h) \/ ReadRaced(h)
    \/ CommitFails(h)
    \/ ReadEvents(h)
    \/ CloseSession(h)

Next == Crash \/ \E h \in Handlers : Arrive(h) \/ Serve(h)

Spec == Init /\ [][Next]_vars

(* A thread that was scheduled keeps being scheduled, and a wait for the   *)
(* lock ends by the lock or by the timeout. Nothing makes clients send.    *)
FairSpec == Spec /\ \A h \in Handlers : WF_vars(Serve(h))

-----------------------------------------------------------------------------
(* Properties. *)

Labels == {"idle", "checked", "locked", "staged", "raced", "reading", "closing"}

StagedRows == [pid : ProofIds, event : Event, row : ProofRow]
ReadRow    == [status : Statuses]

Replies ==
    [code : {"not_found", "closed", "bad_format", "unsigned", "error",
             "no_creator", "request_created_not_allowed", "not_delegated",
             "creator_only", "invalid_delegates", "invalid_delegate_did",
             "nonce_used", "already_recorded", "result_already_created",
             "head_mismatch", "other_actor", "other_request"}]
    \cup [code : {"created"}, pid : ProofIds]
    \cup [code : {"stored"}, id : EventIds, seq : Nat \ {0}, head : EventIds]
    \cup [code : {"exported"}, status : Statuses, events : Seq(Event),
          head : EventIds \cup {NoHead}]

(* Types of the tables, of the lock and of each handler's own state.       *)
TypeOK ==
    /\ proofs \in [ProofIds -> ProofRow \cup {Absent}]
    /\ chain \in [ProofIds -> Seq(Event)]
    /\ lock \in Handlers \cup {NoHandler}
    /\ pc \in [Handlers -> Labels]
    /\ req \in [Handlers -> Requests \cup {NoRequest}]
    /\ rows \in [Handlers -> StagedRows \cup ReadRow \cup {NoRows}]
    /\ reply \in [Handlers -> Replies \cup {NoReply}]

(* However the handlers interleave, the rows of a proof are numbered       *)
(* 1, 2, 3, ..., each points to the link of the row before it, and in a    *)
(* version-4 proof that link is the head its signer signed: two events     *)
(* signed over the same head never both enter the chain (events.py,        *)
(* create_event; proof-closure.md D-C1, D-C3).                             *)
ChainLinked ==
    \A p \in ProofIds : \A i \in DOMAIN chain[p] :
        /\ chain[p][i].seq = i
        /\ chain[p][i].prev = IF i = 1 THEN NoHead ELSE LinkHash(chain[p][i - 1])
        /\ i > 1 /\ proofs[p].version = CurrentVersion
             => chain[p][i].head = chain[p][i].prev

(* A nonce appears once per proof, the request's own nonce included,       *)
(* although the check and the insert are separate statements and copies of *)
(* a signed event may be in flight together (event-replay.md D-R6).        *)
NonceUsedOnce ==
    \A p \in ProofIds : \A i, j \in DOMAIN chain[p] :
        i # j => chain[p][i].nonce # chain[p][j].nonce

(* In a version-1/2 proof, where the nonce is not signed, a (canonical,    *)
(* signature) pair enters the chain once, whatever nonce its copies carry  *)
(* and however they interleave (event-replay.md D-R5, Option B). A pair    *)
(* holds the signature's text: this says nothing of the same signature in  *)
(* its other spelling (EventIsStoredOnce in VerifiedChain).                *)
OldPairOnce ==
    \A p \in ProofIds : \A i, j \in 2..Len(chain[p]) :
        proofs[p].version \in LegacyVersions /\ i # j =>
            \/ chain[p][i].type # chain[p][j].type
            \/ chain[p][i].actor # chain[p][j].actor
            \/ chain[p][i].payload # chain[p][j].payload
            \/ chain[p][i].spelling # chain[p][j].spelling

(* The status a chain calls for.                                           *)
StatusOf(events) ==
    LET last == events[Len(events)].type
    IN  IF last = "proof.completed" THEN "completed"
        ELSE IF last = "proof.failed" THEN "failed"
        ELSE IF Len(events) = 1 THEN "pending"
        ELSE "active"

(* The status column and the chain agree in every committed state, and     *)
(* nothing follows a closing event, although the status was first read     *)
(* before the lock (main.py: the second status check).                     *)
StatusFollowsChain ==
    \A p \in ProofIds :
        IF Exists(p)
        THEN /\ chain[p] # <<>>
             /\ proofs[p].status = StatusOf(chain[p])
             /\ \A i \in DOMAIN chain[p] :
                  chain[p][i].type \in ClosingTypes => i = Len(chain[p])
        ELSE chain[p] = <<>>

(* The DIDs some earlier task.delegated row of the creator names.          *)
NamedBefore(events, i) ==
    {d \in Actors : \E j \in 2..(i - 1) :
        /\ events[j].type = TaskDelegated
        /\ events[j].actor = events[1].actor
        /\ d \in Listed(events[j].payload)}

(* Every stored row had the authority to be there when it was stored: its  *)
(* actor is the creator or was named by the creator in an earlier row,     *)
(* only the creator delegates or closes, at most MaxDelegates others ever  *)
(* get authority, request.created is the first row and no other            *)
(* (event-authorization.md section 3, D7).                                 *)
AuthorityFollowsChain ==
    \A p \in ProofIds :
        LET events == chain[p]
        IN  /\ \A i \in DOMAIN events :
                 /\ (events[i].type = RequestCreated) <=> (i = 1)
                 /\ \/ events[i].actor = events[1].actor
                    \/ /\ events[i].actor \in NamedBefore(events, i)
                       /\ events[i].type \notin CreatorOnlyTypes
            /\ events # <<>> =>
                 Cardinality(NamedBefore(events, Len(events) + 1)
                               \ {events[1].actor}) <= MaxDelegates

(* At most one result.created per proof, whoever sends it and however the  *)
(* two requests interleave (event-authorization.md D5).                    *)
OneResult ==
    \A p \in ProofIds : \A i, j \in DOMAIN chain[p] :
        chain[p][i].type = ResultCreated /\ chain[p][j].type = ResultCreated
            => i = j

(* A request_id has one proof, and a client that is answered "created"     *)
(* holds the proof of its own request, whether it made it, repeated it or  *)
(* lost the race to a copy of it (main.py, create_proof).                  *)
CreatedIsOwnRequest ==
    /\ \A p, q \in ProofIds :
         Exists(p) /\ Exists(q) /\ proofs[p].rid = proofs[q].rid => p = q
    /\ \A h \in Handlers :
         pc[h] = "closing" /\ reply[h].code = "created" =>
            LET p == reply[h].pid
            IN  /\ Exists(p)
                /\ proofs[p].rid = req[h].rid
                /\ chain[p][1].actor = req[h].actor
                /\ SameRequest(p, req[h])

(* A 201 for an event is durable: the row is in the chain at the sequence  *)
(* and under the head the response carries, with the content the client    *)
(* signed, whatever other handlers did since.                              *)
AcknowledgedIsStored ==
    \A h \in Handlers :
        pc[h] = "closing" /\ reply[h].code = "stored" =>
            LET events == chain[req[h].pid]
                k == reply[h].seq
            IN  /\ k \in DOMAIN events
                /\ events[k].id = reply[h].id
                /\ LinkHash(events[k]) = reply[h].head
                /\ events[k].actor = req[h].actor
                /\ events[k].type = req[h].type
                /\ events[k].payload = req[h].payload
                /\ events[k].nonce = req[h].nonce

(* 409 head_mismatch is only said of an event that could still be stored:  *)
(* the proof is open, the nonce is unused, the actor is authorized, it is  *)
(* no second result, and the signed head really is not the current one:    *)
(* signed over that one, it would have been stored. The SDK relies on it   *)
(* when it signs the same nonce again (client.py, append_signed_event).    *)
HeadMismatchIsRetryable ==
    [][\A h \in Handlers :
         reply'[h] = Refused("head_mismatch") /\ reply[h] = NoReply =>
            LET r == req[h]
                events == chain[r.pid]
            IN  /\ proofs[r.pid].status \in OpenStatuses
                /\ r.nonce \notin NoncesOf(events)
                /\ r.head # ChainHead(events)
                /\ AuthorizeEvent(events, r.actor, r.type, r.payload) = "ok"
                /\ ~SecondResult(events, r.type)]_vars

(* An export is a prefix of the chain with its own head. Its status comes  *)
(* from an earlier SELECT and may lag, but it is never ahead of the        *)
(* events: no reader is shown a closed proof without its closing event.    *)
ExportIsConsistent ==
    \A h \in Handlers :
        pc[h] = "closing" /\ reply[h].code = "exported" =>
            LET events == reply[h].events
            IN  /\ events = SubSeq(chain[req[h].pid], 1, Len(events))
                /\ reply[h].head = ChainHead(events)
                /\ \E k \in DOMAIN events :
                     reply[h].status = StatusOf(SubSeq(events, 1, k))

(* Every request that arrives is finished with, one way or another: no     *)
(* handler waits for the lock for ever.                                    *)
EveryRequestEnds == \A h \in Handlers : pc[h] # "idle" ~> pc[h] = "idle"

(* A session that took the write lock gives it back, also when the handler *)
(* raised an HTTPException inside the locked section (database.py, get_db).*)
LockIsReleased == \A h \in Handlers : lock = h ~> lock # h

(* The handlers implement the abstract logs: every step is one atomic      *)
(* entry or no change, whatever the interleaving, the failures and the     *)
(* crashes. A row's sequence and link are dropped: the log's own order     *)
(* replaces them.                                                          *)
Entry(event) == [id |-> event.id, type |-> event.type, actor |-> event.actor,
                 payload |-> event.payload, nonce |-> event.nonce,
                 head |-> event.head]

Log == INSTANCE ProofLog WITH
    log         <- [p \in ProofIds |-> [i \in DOMAIN chain[p] |-> Entry(chain[p][i])]],
    owner       <- [p \in ProofIds |-> proofs[p].rid],
    sealed      <- [p \in ProofIds |-> proofs[p].version = CurrentVersion],
    Closing     <- ClosingTypes,
    CreatorOnly <- CreatorOnlyTypes

ImplementsLog == Log!LogSpec

-----------------------------------------------------------------------------
(* The inductive invariant behind the safety properties.                   *)

(* What a handler's place in its request says about what it holds.         *)
LocalOK(h) ==
    /\ pc[h] \in {"checked", "locked", "staged"} =>
         req[h] \in EventRequest \cup ProofRequest
    /\ pc[h] \in {"checked", "locked"} /\ req[h].op = "append" =>
         Exists(req[h].pid)
    /\ pc[h] = "raced" => req[h] \in ProofRequest
    /\ pc[h] = "reading" => req[h] \in ReadRequest /\ rows[h] \in ReadRow
    /\ pc[h] = "staged" => rows[h] \in StagedRows

(* Whoever decides or holds uncommitted rows is inside the transaction.    *)
LockOK(h) == pc[h] \in {"locked", "staged"} => lock = h

StagedEventOK(h) ==
    LET r == req[h]
        p == r.pid
        event == rows[h].event
    IN  /\ rows[h].pid = p
        /\ Exists(p)
        /\ LockedRefusal(proofs[p], chain[p], r) = "ok"
        /\ event = NewRow(chain[p], event.id, r.type, r.actor, r.payload,
                          r.spelling, r.nonce, r.head)
        /\ rows[h].row = [proofs[p] EXCEPT
                            !.status = StatusAfter(proofs[p].status, r.type)]

StagedProofOK(h) ==
    LET r == req[h]
        event == rows[h].event
    IN  /\ ~Exists(rows[h].pid)
        /\ event = NewRow(<<>>, event.id, RequestCreated, r.actor, r.payload,
                          r.spelling, r.nonce, NoHead)
        /\ rows[h].row = [rid |-> r.rid, version |-> CurrentVersion,
                          status |-> "pending"]

(* Staged rows still fit the committed tables: nothing was committed since *)
(* they were built, because their handler has the lock.                    *)
StagedOK(h) ==
    pc[h] = "staged" =>
        /\ \A p \in ProofIds : rows[h].event.id \notin IdsOf(chain[p])
        /\ req[h].op = "append" => StagedEventOK(h)
        /\ req[h].op = "create" => StagedProofOK(h)

HandlerOK(h) == LocalOK(h) /\ LockOK(h) /\ StagedOK(h)

ChainsOK == ChainLinked /\ NonceUsedOnce /\ StatusFollowsChain

IInv ==
    /\ TypeOK
    /\ \A h \in Handlers : HandlerOK(h)
    /\ ChainsOK

=============================================================================
