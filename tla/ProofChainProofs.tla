-------------------------- MODULE ProofChainProofs --------------------------
(***************************************************************************)
(* Proofs about ProofChain for every value of its constants.               *)
(*                                                                         *)
(* The argument: a handler that decides on a chain, or holds rows built    *)
(* from it, has the write lock (LockOK); only the lock holder commits; so  *)
(* the rows a handler commits still fit the committed chain (StagedOK),    *)
(* and appending a fitting row keeps the chain well formed.                *)
(*                                                                         *)
(* From that invariant, a step that changes a chain either starts it or    *)
(* appends an event that passes the checks of LockedRefusal against the    *)
(* chain of that very moment (TableStep). The rules of who and what a      *)
(* chain admits (one result.created, no old event twice, no row without    *)
(* the creator's authority) are each preserved because one of those checks *)
(* is about it.                                                            *)
(***************************************************************************)
EXTENDS ProofChain, FiniteSetTheorems, TLAPS

-----------------------------------------------------------------------------
(* Operators. *)

(* The answers of the authorization rules are the documented codes.        *)
LEMMA AuthorizeEventCodes ==
    ASSUME NEW prior, NEW a, NEW t, NEW b
    PROVE  AuthorizeEvent(prior, a, t, b) \in
             {"ok", "no_creator", "request_created_not_allowed",
              "not_delegated", "creator_only", "invalid_delegates",
              "invalid_delegate_did"}
<1>1. DelegatesFieldError(b) \in {"ok", "invalid_delegates", "invalid_delegate_did"}
  BY DEF DelegatesFieldError
<1>. QED  BY <1>1 DEF AuthorizeEvent

(* An early refusal is one of the codes a response may carry.              *)
LEMMA EarlyRefusalCodes ==
    ASSUME NEW row, NEW r
    PROVE  EarlyRefusal(row, r) \in
             {"ok", "not_found", "closed", "bad_format", "unsigned"}
BY DEF EarlyRefusal

(* A refusal under the lock is one of the codes a response may carry.      *)
LEMMA LockedRefusalCodes ==
    ASSUME NEW row, NEW events, NEW r
    PROVE  LockedRefusal(row, events, r) \in
             {"ok", "closed", "no_creator", "request_created_not_allowed",
              "not_delegated", "creator_only", "invalid_delegates",
              "invalid_delegate_did", "nonce_used", "already_recorded",
              "result_already_created", "head_mismatch"}
BY AuthorizeEventCodes DEF LockedRefusal

(* The head of a chain is the id of a stored row, or NoHead.               *)
LEMMA ChainHeadType ==
    ASSUME NEW events \in Seq(Event)
    PROVE  ChainHead(events) \in EventIds \cup {NoHead}
<1>1. events # <<>> => events[Len(events)] \in Event
  OBVIOUS
<1>2. events # <<>> => events[Len(events)].id \in EventIds
  BY <1>1 DEF Event
<1>. QED  BY <1>2 DEF ChainHead, LinkHash

(* create_event builds a well-typed row.                                   *)
LEMMA NewRowType ==
    ASSUME NEW events \in Seq(Event), NEW id \in EventIds,
           NEW t \in EventTypes, NEW a \in Actors, NEW b \in Payloads,
           NEW w \in Spellings, NEW n \in Nonces \cup {NoNonce},
           NEW k \in EventIds \cup {NoHead}
    PROVE  NewRow(events, id, t, a, b, w, n, k) \in Event
<1>1. ChainHead(events) \in EventIds \cup {NoHead}
  BY ChainHeadType
<1>2. events # <<>> => events[Len(events)] \in Event
  OBVIOUS
<1>3. events # <<>> => events[Len(events)].seq + 1 \in Nat \ {0}
  BY <1>2 DEF Event
<1>. QED  BY <1>1, <1>3 DEF NewRow, Event

(* A uuid that is still free is one that no stored or staged row has.      *)
LEMMA FreshIdIsFresh ==
    ASSUME EventIds \ UsedIds # {}
    PROVE  FreshId \in EventIds /\ FreshId \notin UsedIds
<1>1. \E id \in EventIds : id \notin UsedIds
  OBVIOUS
<1>. QED  BY <1>1, Zenon DEF FreshId

(* The same for a proof_id.                                                *)
LEMMA FreshProofIdIsFresh ==
    ASSUME ProofIds \ UsedProofIds # {}
    PROVE  FreshProofId \in ProofIds /\ FreshProofId \notin UsedProofIds
<1>1. \E p \in ProofIds : p \notin UsedProofIds
  OBVIOUS
<1>. QED  BY <1>1, Zenon DEF FreshProofId

(* What POST /proofs answers for a stored request_id.                      *)
LEMMA IdempotencyReplyType ==
    ASSUME NEW p \in ProofIds, NEW r
    PROVE  IdempotencyReply(p, r) \in Replies
BY DEF IdempotencyReply, Refused, Created, Replies

(* The first row of a proof of an earlier release is well typed.           *)
LEMMA OldRowType ==
    ASSUME NEW id \in EventIds, NEW a \in Actors, NEW b \in Payloads,
           NEW w \in Spellings, NEW n \in Nonces \cup {NoNonce}
    PROVE  OldRow(id, a, b, w, n) \in Event
<1>1. RequestCreated \in EventTypes
  BY DEF EventTypes
<1>2. <<>> \in Seq(Event)
  OBVIOUS
<1>. QED  BY <1>1, <1>2, NewRowType DEF OldRow

-----------------------------------------------------------------------------
(* The initial states. *)

OnlyFor(p, x, none) == [q \in ProofIds |-> IF q = p THEN x ELSE none]

(* A database with one proof, of any version, at its first row.            *)
LEMMA OneProofTables ==
    ASSUME NEW v \in Versions, NEW p \in ProofIds, NEW rid \in RequestIds,
           NEW id \in EventIds, NEW a \in Actors, NEW b \in Payloads,
           NEW w \in Spellings, NEW n \in Nonces \cup {NoNonce},
           proofs = OnlyFor(p, [rid |-> rid, version |-> v, status |-> "pending"], Absent),
           chain = OnlyFor(p, <<OldRow(id, a, b, w, n)>>, <<>>)
    PROVE  /\ proofs \in [ProofIds -> ProofRow \cup {Absent}]
           /\ chain \in [ProofIds -> Seq(Event)]
           /\ ChainsOK
           /\ Exists(p)
<1>. DEFINE row == OldRow(id, a, b, w, n)
            entry == [rid |-> rid, version |-> v, status |-> "pending"]
<1>1. row \in Event
  BY OldRowType
<1>2. row.seq = 1 /\ row.prev = NoHead /\ row.type = RequestCreated
  BY DEF OldRow, NewRow, ChainHead
<1>3. entry \in ProofRow /\ entry # Absent
  BY NullsAssumption DEF ProofRow, Absent, Statuses, OpenStatuses
<1>. HIDE DEF row, entry
<1>4. /\ proofs = [q \in ProofIds |-> IF q = p THEN entry ELSE Absent]
      /\ chain = [q \in ProofIds |-> IF q = p THEN <<row>> ELSE <<>>]
  BY DEF row, entry, OnlyFor
<1>5. proofs \in [ProofIds -> ProofRow \cup {Absent}] /\ chain \in [ProofIds -> Seq(Event)]
  BY <1>1, <1>3, <1>4 DEF OnlyFor
<1>6. ChainLinked
  BY <1>2, <1>4 DEF ChainLinked
<1>7. NonceUsedOnce
  BY <1>4 DEF NonceUsedOnce
<1>8. StatusFollowsChain
  BY <1>2, <1>3, <1>4 DEF StatusFollowsChain, StatusOf, Exists, RequestCreated,
              ClosingTypes, entry, OnlyFor
<1>9. Exists(p)
  BY <1>3, <1>4 DEF Exists
<1>. QED  BY <1>5, <1>6, <1>7, <1>8, <1>9 DEF ChainsOK

(* No handler has begun anything.                                          *)
AllIdle ==
    /\ lock  = NoHandler
    /\ pc    = [h \in Handlers |-> "idle"]
    /\ req   = [h \in Handlers |-> NoRequest]
    /\ rows  = [h \in Handlers |-> NoRows]
    /\ reply = [h \in Handlers |-> NoReply]

LEMMA IdleInvariant ==
    ASSUME AllIdle, ChainsOK, proofs \in [ProofIds -> ProofRow \cup {Absent}],
           chain \in [ProofIds -> Seq(Event)]
    PROVE  IInv
<1>1. \A h \in Handlers : HandlerOK(h)
  BY DEF AllIdle, HandlerOK, LocalOK, LockOK, StagedOK
<1>2. TypeOK
  BY DEF AllIdle, TypeOK, Labels
<1>. QED  BY <1>1, <1>2 DEF IInv

LEMMA InitInvariant == Init => IInv
<1>. SUFFICES ASSUME Init PROVE IInv
  OBVIOUS
<1>1. AllIdle
  BY DEF Init, AllIdle
<1>2. CASE EmptyDatabase
  <2>1. proofs \in [ProofIds -> ProofRow \cup {Absent}] /\ chain \in [ProofIds -> Seq(Event)]
    BY <1>2 DEF EmptyDatabase
  <2>2. ChainsOK
    BY <1>2 DEF EmptyDatabase, ChainsOK, ChainLinked, NonceUsedOnce,
                StatusFollowsChain, Exists
  <2>. QED  BY <1>1, <2>1, <2>2, IdleInvariant
<1>3. CASE OldDatabase
  <2>1. PICK v \in OldVersions, p \in ProofIds, rid \in RequestIds,
             id \in EventIds, a \in Actors, b \in RequestPayloads,
             w \in SentSpellings, n \in Nonces :
          /\ proofs = [q \in ProofIds |->
                         IF q = p THEN [rid |-> rid, version |-> v, status |-> "pending"]
                                  ELSE Absent]
          /\ chain  = [q \in ProofIds |->
                         IF q = p
                         THEN <<OldRow(id, a, b, w,
                                       IF v \in LegacyVersions THEN NoNonce ELSE n)>>
                         ELSE <<>>]
    BY <1>3 DEF OldDatabase
  <2>. DEFINE nonce == IF v \in LegacyVersions THEN NoNonce ELSE n
  <2>2. /\ v \in Versions /\ p \in ProofIds /\ rid \in RequestIds /\ id \in EventIds
        /\ a \in Actors /\ b \in Payloads /\ w \in Spellings
        /\ nonce \in Nonces \cup {NoNonce}
    BY <2>1, VersionsAssumption, PayloadAssumption, SpellingsAssumption
       DEF Versions, LegacyVersions, RequestPayloads
  <2>3. chain = OnlyFor(p, <<OldRow(id, a, b, w, nonce)>>, <<>>)
    BY <2>1 DEF OnlyFor
  <2>. HIDE DEF nonce
  <2>4. proofs = OnlyFor(p, [rid |-> rid, version |-> v, status |-> "pending"], Absent)
    BY <2>1 DEF OnlyFor
  <2>5. /\ proofs \in [ProofIds -> ProofRow \cup {Absent}]
        /\ chain \in [ProofIds -> Seq(Event)] /\ ChainsOK
    BY <2>2, <2>3, <2>4, OneProofTables, Zenon
  <2>. QED  BY <1>1, <2>5, IdleInvariant
<1>. QED  BY <1>2, <1>3 DEF Init

-----------------------------------------------------------------------------
(* Steps that leave the tables alone: what they owe the invariant is their *)
(* own types and their own handler.                                        *)

LEMMA FrameChains ==
    ASSUME ChainsOK, UNCHANGED <<proofs, chain>>
    PROVE  ChainsOK'
BY DEF ChainsOK, ChainLinked, NonceUsedOnce, StatusFollowsChain, Exists

LEMMA FrameHandler ==
    ASSUME NEW g \in Handlers, HandlerOK(g), UNCHANGED <<proofs, chain>>,
           pc'[g] = pc[g], req'[g] = req[g], rows'[g] = rows[g],
           lock = g => lock' = g
    PROVE  HandlerOK(g)'
<1>1. LocalOK(g)'
  BY DEF HandlerOK, LocalOK, Exists
<1>2. LockOK(g)'
  BY DEF HandlerOK, LockOK
<1>3. StagedOK(g)'
  BY DEF HandlerOK, StagedOK, StagedEventOK, StagedProofOK, Exists
<1>. QED  BY <1>1, <1>2, <1>3 DEF HandlerOK

LEMMA FrameInvariant ==
    ASSUME IInv, NEW h \in Handlers, UNCHANGED <<proofs, chain>>,
           \A g \in Handlers \ {h} :
               /\ pc'[g] = pc[g] /\ req'[g] = req[g] /\ rows'[g] = rows[g]
               /\ lock = g => lock' = g,
           TypeOK', HandlerOK(h)'
    PROVE  IInv'
<1>1. \A g \in Handlers \ {h} : HandlerOK(g)'
  BY FrameHandler DEF IInv
<1>2. \A g \in Handlers : HandlerOK(g)'
  BY <1>1
<1>3. ChainsOK'
  BY FrameChains DEF IInv
<1>. QED  BY <1>2, <1>3 DEF IInv

(* A handler that has answered owes the invariant nothing.                 *)
LEMMA ClosingHandler ==
    ASSUME NEW h \in Handlers, pc'[h] \in {"closing", "idle"}
    PROVE  HandlerOK(h)'
BY DEF HandlerOK, LocalOK, LockOK, StagedOK

LEMMA RefusedType ==
    ASSUME NEW code \in
             {"not_found", "closed", "bad_format", "unsigned", "error",
              "no_creator", "request_created_not_allowed", "not_delegated",
              "creator_only", "invalid_delegates", "invalid_delegate_did",
              "nonce_used", "already_recorded", "result_already_created",
              "head_mismatch", "other_actor", "other_request"}
    PROVE  Refused(code) \in Replies
BY DEF Refused, Replies

LEMMA PostEventStep ==
    ASSUME IInv, NEW h \in Handlers, NEW p \in ProofIds, NEW r \in EventRequest,
           r.pid = p, PostEvent(h, p, r)
    PROVE  IInv'
<1>. DEFINE refusal == EarlyRefusal(proofs[p], r)
<1>0. TypeOK
  BY DEF IInv
<1>1. /\ UNCHANGED <<proofs, chain, lock, rows>>
      /\ req' = [req EXCEPT ![h] = r]
  BY DEF PostEvent, Receive
<1>2. CASE refusal # "ok" /\ Respond(h, Refused(refusal))
  <2>1. Refused(refusal) \in Replies
    BY <1>2, EarlyRefusalCodes, RefusedType
  <2>2. pc' = [pc EXCEPT ![h] = "closing"] /\ reply' = [reply EXCEPT ![h] = Refused(refusal)]
    BY <1>2 DEF Respond, Goto
  <2>3. TypeOK'
    BY <1>0, <1>1, <2>1, <2>2 DEF TypeOK, Requests, Labels
  <2>4. HandlerOK(h)'
    BY <1>0, <2>2, ClosingHandler DEF TypeOK
  <2>. QED  BY <1>0, <1>1, <2>2, <2>3, <2>4, FrameInvariant DEF TypeOK
<1>3. CASE refusal = "ok" /\ Goto(h, "checked") /\ UNCHANGED reply
  <2>1. pc' = [pc EXCEPT ![h] = "checked"] /\ reply' = reply
    BY <1>3 DEF Goto
  <2>2. TypeOK'
    BY <1>0, <1>1, <2>1 DEF TypeOK, Requests, Labels
  <2>3. Exists(p)
    BY <1>3 DEF EarlyRefusal, Exists
  <2>4. HandlerOK(h)'
    BY <1>0, <1>1, <2>1, <2>3 DEF HandlerOK, LocalOK, LockOK, StagedOK, TypeOK, Exists
  <2>. QED  BY <1>0, <1>1, <2>1, <2>2, <2>4, FrameInvariant DEF TypeOK
<1>. QED  BY <1>2, <1>3 DEF PostEvent

LEMMA PostProofStep ==
    ASSUME IInv, NEW h \in Handlers, NEW r \in ProofRequest, PostProof(h, r)
    PROVE  IInv'
<1>0. TypeOK
  BY DEF IInv
<1>1. /\ UNCHANGED <<proofs, chain, lock, rows>>
      /\ req' = [req EXCEPT ![h] = r]
  BY DEF PostProof, Receive
<1>2. ASSUME NEW answer \in Replies, Respond(h, answer)
      PROVE  IInv'
  <2>1. pc' = [pc EXCEPT ![h] = "closing"] /\ reply' = [reply EXCEPT ![h] = answer]
    BY <1>2 DEF Respond, Goto
  <2>2. TypeOK'
    BY <1>0, <1>1, <1>2, <2>1 DEF TypeOK, Requests, Labels
  <2>3. HandlerOK(h)'
    BY <1>0, <2>1, ClosingHandler DEF TypeOK
  <2>. QED  BY <1>0, <1>1, <2>1, <2>2, <2>3, FrameInvariant DEF TypeOK
<1>3. CASE Respond(h, Refused("unsigned"))
  BY <1>2, <1>3, RefusedType
<1>4. CASE \E p \in StoredAs(r.rid) : Respond(h, IdempotencyReply(p, r))
  BY <1>2, <1>4, IdempotencyReplyType DEF StoredAs
<1>5. CASE Goto(h, "checked") /\ UNCHANGED reply
  <2>1. pc' = [pc EXCEPT ![h] = "checked"] /\ reply' = reply
    BY <1>5 DEF Goto
  <2>2. TypeOK'
    BY <1>0, <1>1, <2>1 DEF TypeOK, Requests, Labels
  <2>3. r.op = "create"
    BY DEF ProofRequest
  <2>4. HandlerOK(h)'
    BY <1>0, <1>1, <2>1, <2>3 DEF HandlerOK, LocalOK, LockOK, StagedOK, TypeOK
  <2>. QED  BY <1>0, <1>1, <2>1, <2>2, <2>4, FrameInvariant DEF TypeOK
<1>. QED  BY <1>3, <1>4, <1>5 DEF PostProof

(* A step that only answers: every refusal, a raced request, a read.       *)
LEMMA AnswerStep ==
    ASSUME IInv, NEW h \in Handlers, NEW answer \in Replies, Respond(h, answer),
           UNCHANGED <<proofs, chain, lock, req>>,
           \/ UNCHANGED rows
           \/ rows' = [rows EXCEPT ![h] = NoRows]
    PROVE  IInv'
<1>0. TypeOK
  BY DEF IInv
<1>1. pc' = [pc EXCEPT ![h] = "closing"] /\ reply' = [reply EXCEPT ![h] = answer]
  BY DEF Respond, Goto
<1>2. TypeOK'
  BY <1>0, <1>1 DEF TypeOK, Labels
<1>3. HandlerOK(h)'
  BY <1>0, <1>1, ClosingHandler DEF TypeOK
<1>. QED  BY <1>0, <1>1, <1>2, <1>3, FrameInvariant DEF TypeOK

LEMMA BeginChainWriteStep ==
    ASSUME IInv, NEW h \in Handlers, BeginChainWrite(h)
    PROVE  IInv'
<1>0. TypeOK
  BY DEF IInv
<1>1. /\ UNCHANGED <<proofs, chain, req, rows, reply>>
      /\ pc[h] = "checked" /\ lock = NoHandler /\ lock' = h
      /\ pc' = [pc EXCEPT ![h] = "locked"]
  BY DEF BeginChainWrite, Goto
<1>2. TypeOK'
  BY <1>0, <1>1 DEF TypeOK, Labels
<1>3. HandlerOK(h)'
  BY <1>0, <1>1 DEF IInv, HandlerOK, LocalOK, LockOK, StagedOK, TypeOK, Exists
<1>4. \A g \in Handlers : lock # g
  BY <1>1, NullsAssumption
<1>. QED  BY <1>0, <1>1, <1>2, <1>3, <1>4, FrameInvariant DEF TypeOK

LEMMA StageEventStep ==
    ASSUME IInv, NEW h \in Handlers, StageEvent(h)
    PROVE  IInv'
<1>. DEFINE r == req[h]
            p == r.pid
            row == proofs[p]
            event == NewRow(chain[p], FreshId, r.type, r.actor, r.payload, r.spelling,
                            r.nonce, r.head)
            entry == [row EXCEPT !.status = StatusAfter(row.status, r.type)]
            staged == [pid |-> p, event |-> event, row |-> entry]
<1>0. TypeOK /\ HandlerOK(h)
  BY DEF IInv
<1>1. /\ UNCHANGED <<proofs, chain, lock, req, reply>>
      /\ pc[h] = "locked" /\ r.op = "append"
      /\ pc' = [pc EXCEPT ![h] = "staged"]
      /\ LockedRefusal(row, chain[p], r) = "ok"
      /\ rows' = [rows EXCEPT ![h] = staged]
  BY DEF StageEvent, Goto
<1>2. r \in EventRequest /\ Exists(p)
  BY <1>0, <1>1 DEF HandlerOK, LocalOK, EventRequest, ProofRequest
<1>3. p \in ProofIds /\ row \in ProofRow /\ chain[p] \in Seq(Event)
  BY <1>0, <1>2 DEF TypeOK, Exists, EventRequest
<1>4. FreshId \in EventIds /\ FreshId \notin UsedIds
  BY FreshIdIsFresh DEF StageEvent
<1>5. event \in Event
  BY <1>2, <1>3, <1>4, NewRowType DEF EventRequest
<1>6. entry \in ProofRow
  BY <1>3 DEF ProofRow, StatusAfter, Statuses, OpenStatuses, ClosedStatuses
<1>7. staged \in StagedRows
  BY <1>3, <1>5, <1>6 DEF StagedRows
<1>8. event.id = FreshId
  BY DEF NewRow
<1>9. \A q \in ProofIds : event.id \notin IdsOf(chain[q])
  BY <1>4, <1>8 DEF UsedIds
<1>. HIDE DEF event, entry
<1>10. /\ staged.pid = p /\ staged.event = event /\ staged.row = entry
  OBVIOUS
<1>. HIDE DEF staged
<1>11. rows'[h] = staged /\ pc'[h] = "staged" /\ req'[h] = r /\ lock' = lock
       /\ proofs' = proofs /\ chain' = chain
  BY <1>0, <1>1 DEF TypeOK
<1>12. TypeOK'
  BY <1>0, <1>1, <1>7 DEF TypeOK, Labels
<1>13. LocalOK(h)'
  BY <1>2, <1>7, <1>11 DEF LocalOK
<1>14. LockOK(h)'
  BY <1>0, <1>1, <1>11 DEF HandlerOK, LockOK
<1>15. event = NewRow(chain[p], event.id, r.type, r.actor, r.payload, r.spelling,
                      r.nonce, r.head)
  BY <1>8 DEF event
<1>16. StagedEventOK(h)'
  BY <1>1, <1>2, <1>10, <1>11, <1>15 DEF StagedEventOK, Exists, entry
<1>17. StagedOK(h)'
  BY <1>1, <1>9, <1>10, <1>11, <1>16 DEF StagedOK
<1>18. HandlerOK(h)'
  BY <1>13, <1>14, <1>17 DEF HandlerOK
<1>. QED  BY <1>0, <1>1, <1>12, <1>18, FrameInvariant DEF TypeOK

LEMMA StageProofStep ==
    ASSUME IInv, NEW h \in Handlers, StageProof(h)
    PROVE  IInv'
<1>. DEFINE r == req[h]
            event == NewRow(<<>>, FreshId, RequestCreated, r.actor, r.payload, r.spelling,
                            r.nonce, NoHead)
            entry == [rid |-> r.rid, version |-> CurrentVersion, status |-> "pending"]
            staged == [pid |-> FreshProofId, event |-> event, row |-> entry]
<1>0. TypeOK /\ HandlerOK(h)
  BY DEF IInv
<1>1. /\ UNCHANGED <<proofs, chain, lock, req, reply>>
      /\ pc[h] = "locked" /\ r.op = "create"
      /\ pc' = [pc EXCEPT ![h] = "staged"]
      /\ rows' = [rows EXCEPT ![h] = staged]
  BY DEF StageProof, Goto
<1>2. r \in ProofRequest
  BY <1>0, <1>1 DEF HandlerOK, LocalOK, EventRequest, ProofRequest
<1>3. FreshProofId \in ProofIds /\ ~Exists(FreshProofId)
  BY FreshProofIdIsFresh DEF StageProof, UsedProofIds
<1>4. FreshId \in EventIds /\ FreshId \notin UsedIds
  BY FreshIdIsFresh DEF StageProof
<1>5. event \in Event
  <2>1. RequestCreated \in EventTypes /\ <<>> \in Seq(Event)
    BY DEF EventTypes
  <2>. QED  BY <1>2, <1>4, <2>1, NewRowType DEF ProofRequest
<1>6. entry \in ProofRow
  BY <1>2 DEF ProofRequest, ProofRow, Statuses, OpenStatuses, Versions
<1>7. staged \in StagedRows
  BY <1>3, <1>5, <1>6 DEF StagedRows
<1>8. event.id = FreshId
  BY DEF NewRow
<1>9. \A q \in ProofIds : event.id \notin IdsOf(chain[q])
  BY <1>4, <1>8 DEF UsedIds
<1>. HIDE DEF event, entry
<1>10. staged.pid = FreshProofId /\ staged.event = event /\ staged.row = entry
  OBVIOUS
<1>. HIDE DEF staged
<1>11. rows'[h] = staged /\ pc'[h] = "staged" /\ req'[h] = r /\ lock' = lock
       /\ proofs' = proofs /\ chain' = chain
  BY <1>0, <1>1 DEF TypeOK
<1>12. TypeOK'
  BY <1>0, <1>1, <1>7 DEF TypeOK, Labels
<1>13. LocalOK(h)'
  BY <1>2, <1>7, <1>11 DEF LocalOK
<1>14. LockOK(h)'
  BY <1>0, <1>1, <1>11 DEF HandlerOK, LockOK
<1>15. event = NewRow(<<>>, event.id, RequestCreated, r.actor, r.payload, r.spelling,
                      r.nonce, NoHead)
  BY <1>8 DEF event
<1>16. StagedProofOK(h)'
  BY <1>3, <1>10, <1>11, <1>15 DEF StagedProofOK, Exists, entry
<1>17. StagedOK(h)'
  BY <1>1, <1>9, <1>10, <1>11, <1>16 DEF StagedOK
<1>18. HandlerOK(h)'
  BY <1>13, <1>14, <1>17 DEF HandlerOK
<1>. QED  BY <1>0, <1>1, <1>12, <1>18, FrameInvariant DEF TypeOK

-----------------------------------------------------------------------------
(* Steps that write the tables.                                            *)

(* What a commit does to one proof, and that it does nothing to the others.*)
LEMMA WriteEffect ==
    ASSUME IInv, NEW h \in Handlers, pc[h] = "staged", Write(h)
    PROVE  /\ rows[h] \in StagedRows
           /\ rows[h].pid \in ProofIds /\ rows[h].event \in Event
           /\ rows[h].row \in ProofRow /\ rows[h].row # Absent
           /\ proofs'[rows[h].pid] = rows[h].row
           /\ chain'[rows[h].pid] = Append(chain[rows[h].pid], rows[h].event)
           /\ chain[rows[h].pid] \in Seq(Event)
           /\ \A q \in ProofIds : q # rows[h].pid =>
                proofs'[q] = proofs[q] /\ chain'[q] = chain[q]
           /\ lock = h
<1>0. TypeOK /\ HandlerOK(h)
  BY DEF IInv
<1>1. rows[h] \in StagedRows /\ lock = h
  BY <1>0 DEF HandlerOK, LocalOK, LockOK
<1>2. /\ rows[h].pid \in ProofIds /\ rows[h].event \in Event /\ rows[h].row \in ProofRow
  BY <1>1 DEF StagedRows
<1>3. rows[h].row # Absent
  BY <1>2, NullsAssumption DEF ProofRow, Absent
<1>. QED  BY <1>0, <1>1, <1>2, <1>3 DEF TypeOK, Write

(* An event row staged on an open chain keeps the chain linked, its nonces *)
(* distinct and its status in step.                                        *)
LEMMA AppendedChains ==
    ASSUME IInv, NEW h \in Handlers, pc[h] = "staged", req[h].op = "append", Write(h)
    PROVE  ChainsOK'
<1>. DEFINE r == req[h]
            p == rows[h].pid
            event == rows[h].event
            events == chain[p]
            n == Len(events)
<1>0. ChainLinked /\ NonceUsedOnce /\ StatusFollowsChain
  BY DEF IInv, ChainsOK
<1>1. /\ p = r.pid /\ Exists(p) /\ p \in ProofIds
      /\ LockedRefusal(proofs[p], events, r) = "ok"
      /\ event = NewRow(events, event.id, r.type, r.actor, r.payload, r.spelling,
                        r.nonce, r.head)
      /\ rows[h].row = [proofs[p] EXCEPT !.status = StatusAfter(proofs[p].status, r.type)]
  BY WriteEffect DEF IInv, HandlerOK, StagedOK, StagedEventOK
<1>2. /\ proofs'[p] = rows[h].row /\ chain'[p] = Append(events, event)
      /\ events \in Seq(Event) /\ event \in Event /\ rows[h].row # Absent
      /\ \A q \in ProofIds : q # p => proofs'[q] = proofs[q] /\ chain'[q] = chain[q]
  BY WriteEffect
<1>3. proofs[p] \in ProofRow
  BY <1>1 DEF IInv, TypeOK, Exists
<1>4. /\ n \in Nat \ {0} /\ events # <<>>
      /\ proofs[p].status = StatusOf(events)
      /\ \A i \in 1..n : events[i].type \in ClosingTypes => i = n
  BY <1>0, <1>1, <1>2 DEF StatusFollowsChain
<1>5. /\ proofs[p].status \notin ClosedStatuses
      /\ r.nonce \notin NoncesOf(events)
      /\ proofs[p].version = CurrentVersion => r.head = ChainHead(events)
  BY <1>1 DEF LockedRefusal
<1>6. /\ Len(chain'[p]) = n + 1
      /\ \A i \in 1..n : chain'[p][i] = events[i]
      /\ chain'[p][n + 1] = event
      /\ DOMAIN chain'[p] = 1..(n + 1)
      /\ DOMAIN events = 1..n
  BY <1>2, <1>4
<1>7. /\ event.seq = events[n].seq + 1 /\ event.prev = ChainHead(events)
      /\ event.nonce = r.nonce /\ event.type = r.type /\ event.head = r.head
  <2>. HIDE DEF event, events, r
  <2>. QED  BY <1>1, <1>4 DEF NewRow, events, n
<1>8. events[n].seq = n /\ ChainHead(events) = LinkHash(events[n])
  BY <1>0, <1>1, <1>4, <1>6 DEF ChainLinked, ChainHead
<1>9. proofs'[p].version = proofs[p].version
      /\ proofs'[p].status = StatusAfter(proofs[p].status, r.type)
  BY <1>1, <1>2, <1>3 DEF ProofRow
<1>13. p \in ProofIds /\ chain[p] = events
  BY <1>1
<1>. HIDE DEF event, events, n, r, p
<1>10. ChainLinked'
  <2>. SUFFICES ASSUME NEW q \in ProofIds, NEW i \in DOMAIN chain'[q]
                PROVE  /\ chain'[q][i].seq = i
                       /\ chain'[q][i].prev = IF i = 1 THEN NoHead
                                              ELSE LinkHash(chain'[q][i - 1])
                       /\ i > 1 /\ proofs'[q].version = CurrentVersion
                            => chain'[q][i].head = chain'[q][i].prev
    BY DEF ChainLinked, LinkHash
  <2>1. CASE q # p
    BY <1>0, <1>2, <2>1 DEF ChainLinked, LinkHash
  <2>2. CASE q = p /\ i \in 1..n
    <3>1. i - 1 \in 1..n \/ i = 1
      BY <1>4, <2>2
    <3>2. chain'[q][i] = events[i] /\ (i # 1 => chain'[q][i - 1] = events[i - 1])
      BY <1>6, <2>2, <3>1
    <3>3. /\ events[i].seq = i
          /\ events[i].prev = IF i = 1 THEN NoHead ELSE LinkHash(events[i - 1])
          /\ i > 1 /\ proofs[p].version = CurrentVersion => events[i].head = events[i].prev
      <4>1. i \in DOMAIN events
        BY <1>6, <2>2
      <4>. QED  BY <1>0, <1>13, <4>1 DEF ChainLinked
    <3>. QED  BY <1>9, <2>2, <3>2, <3>3
  <2>3. CASE q = p /\ i = n + 1
    <3>1. chain'[q][i] = event /\ chain'[q][i - 1] = events[n] /\ i > 1
      BY <1>4, <1>6, <2>3
    <3>. QED  BY <1>4, <1>5, <1>7, <1>8, <1>9, <2>3, <3>1
  <2>. QED  BY <1>4, <1>6, <2>1, <2>2, <2>3
<1>11. NonceUsedOnce'
  <2>. SUFFICES ASSUME NEW q \in ProofIds, NEW i \in DOMAIN chain'[q],
                       NEW j \in DOMAIN chain'[q], i # j
                PROVE  chain'[q][i].nonce # chain'[q][j].nonce
    BY DEF NonceUsedOnce
  <2>1. CASE q # p
    BY <1>0, <1>2, <2>1 DEF NonceUsedOnce
  <2>2. CASE q = p
    <3>1. \A k \in 1..n : events[k].nonce # event.nonce
      BY <1>5, <1>6, <1>7 DEF NoncesOf
    <3>2. \A k, m \in 1..n : k # m => events[k].nonce # events[m].nonce
      <4>1. \A k, m \in DOMAIN events : k # m => events[k].nonce # events[m].nonce
        BY <1>0, <1>13 DEF NonceUsedOnce
      <4>. QED  BY <1>6, <4>1
    <3>. QED  BY <1>4, <1>6, <2>2, <3>1, <3>2
  <2>. QED  BY <2>1, <2>2
<1>12. StatusFollowsChain'
  <2>. SUFFICES ASSUME NEW q \in ProofIds
                PROVE  IF proofs'[q] # Absent
                       THEN /\ chain'[q] # <<>>
                            /\ proofs'[q].status = StatusOf(chain'[q])
                            /\ \A i \in DOMAIN chain'[q] :
                                 chain'[q][i].type \in ClosingTypes => i = Len(chain'[q])
                       ELSE chain'[q] = <<>>
    BY DEF StatusFollowsChain, Exists, StatusOf
  <2>1. CASE q # p
    BY <1>0, <1>2, <2>1 DEF StatusFollowsChain, Exists
  <2>2. CASE q = p
    <3>1. proofs'[q] # Absent /\ chain'[q] # <<>>
      BY <1>2, <1>4, <1>6, <2>2
    <3>2. \A i \in 1..n : events[i].type \notin ClosingTypes
      <4>1. events[n].type \notin ClosingTypes
        BY <1>4, <1>5 DEF StatusOf, ClosingTypes, ClosedStatuses, n
      <4>. QED  BY <1>4, <4>1
    <3>3. StatusOf(chain'[q]) = StatusAfter(proofs[p].status, r.type)
      <4>1. proofs[p].status \in {"pending", "active"}
        BY <1>3, <1>5 DEF ProofRow, Statuses, OpenStatuses
      <4>2. n + 1 # 1
        BY <1>4
      <4>. QED  BY <1>6, <1>7, <2>2, <4>1, <4>2 DEF StatusOf, StatusAfter
    <3>4. \A i \in 1..(n + 1) : chain'[q][i].type \in ClosingTypes => i = n + 1
      BY <1>4, <1>6, <2>2, <3>2
    <3>. QED  BY <1>6, <1>9, <2>2, <3>1, <3>3, <3>4
  <2>. QED  BY <2>1, <2>2
<1>. QED  BY <1>10, <1>11, <1>12 DEF ChainsOK

(* A new proof starts a chain of one row.                                  *)
LEMMA CreatedChains ==
    ASSUME IInv, NEW h \in Handlers, pc[h] = "staged", req[h].op = "create", Write(h)
    PROVE  ChainsOK'
<1>. DEFINE p == rows[h].pid
            event == rows[h].event
<1>0. ChainLinked /\ NonceUsedOnce /\ StatusFollowsChain
  BY DEF IInv, ChainsOK
<1>1. /\ p \in ProofIds /\ chain'[p] = Append(chain[p], event)
      /\ proofs'[p] = rows[h].row /\ rows[h].row # Absent
      /\ \A q \in ProofIds : q # p => proofs'[q] = proofs[q] /\ chain'[q] = chain[q]
  BY WriteEffect
<1>2. /\ ~Exists(p)
      /\ event = NewRow(<<>>, event.id, RequestCreated, req[h].actor,
                        req[h].payload, req[h].spelling, req[h].nonce, NoHead)
      /\ rows[h].row.status = "pending"
  <2>1. StagedProofOK(h)
    BY DEF IInv, HandlerOK, StagedOK
  <2>. QED  BY <2>1 DEF StagedProofOK
<1>3. chain[p] = <<>>
  BY <1>0, <1>1, <1>2 DEF StatusFollowsChain
<1>4. chain'[p] = <<event>> /\ Len(chain'[p]) = 1 /\ DOMAIN chain'[p] = {1}
  BY <1>1, <1>3
<1>5. event.seq = 1 /\ event.prev = NoHead /\ event.type = RequestCreated
  <2>. HIDE DEF event
  <2>. QED  BY <1>2 DEF NewRow, ChainHead
<1>6. proofs'[p].status = "pending"
  BY <1>1, <1>2
<1>. HIDE DEF event, p
<1>7. ChainLinked'
  <2>. SUFFICES ASSUME NEW q \in ProofIds, NEW i \in DOMAIN chain'[q]
                PROVE  /\ chain'[q][i].seq = i
                       /\ chain'[q][i].prev = IF i = 1 THEN NoHead
                                              ELSE LinkHash(chain'[q][i - 1])
                       /\ i > 1 /\ proofs'[q].version = CurrentVersion
                            => chain'[q][i].head = chain'[q][i].prev
    BY DEF ChainLinked, LinkHash
  <2>1. CASE q # p
    BY <1>0, <1>1, <2>1 DEF ChainLinked, LinkHash
  <2>2. CASE q = p
    BY <1>4, <1>5, <2>2
  <2>. QED  BY <2>1, <2>2
<1>8. NonceUsedOnce'
  <2>. SUFFICES ASSUME NEW q \in ProofIds, NEW i \in DOMAIN chain'[q],
                       NEW j \in DOMAIN chain'[q], i # j
                PROVE  chain'[q][i].nonce # chain'[q][j].nonce
    BY DEF NonceUsedOnce
  <2>1. q # p
    BY <1>4
  <2>. QED  BY <1>0, <1>1, <2>1 DEF NonceUsedOnce
<1>9. StatusFollowsChain'
  <2>. SUFFICES ASSUME NEW q \in ProofIds
                PROVE  IF proofs'[q] # Absent
                       THEN /\ chain'[q] # <<>>
                            /\ proofs'[q].status = StatusOf(chain'[q])
                            /\ \A i \in DOMAIN chain'[q] :
                                 chain'[q][i].type \in ClosingTypes => i = Len(chain'[q])
                       ELSE chain'[q] = <<>>
    BY DEF StatusFollowsChain, Exists, StatusOf
  <2>1. CASE q # p
    BY <1>0, <1>1, <2>1 DEF StatusFollowsChain, Exists
  <2>2. CASE q = p
    <3>1. StatusOf(chain'[p]) = "pending"
      BY <1>4, <1>5 DEF StatusOf, RequestCreated
    <3>2. proofs'[p] # Absent /\ chain'[p] # <<>>
      BY <1>1, <1>4
    <3>3. \A i \in DOMAIN chain'[p] : i = Len(chain'[p])
      BY <1>4
    <3>. QED  BY <1>6, <2>2, <3>1, <3>2, <3>3
  <2>. QED  BY <2>1, <2>2
<1>. QED  BY <1>7, <1>8, <1>9 DEF ChainsOK

(* The handlers that did not commit were not inside the transaction.       *)
LEMMA CommittedHandlers ==
    ASSUME IInv, NEW h \in Handlers, pc[h] = "staged", Write(h), UNCHANGED req,
           NEW answer, Respond(h, answer)
    PROVE  \A g \in Handlers : HandlerOK(g)'
<1>. TAKE g \in Handlers
<1>0. TypeOK /\ HandlerOK(g)
  BY DEF IInv
<1>1. pc' = [pc EXCEPT ![h] = "closing"]
  BY DEF Respond, Goto
<1>2. CASE g = h
  BY <1>0, <1>1, <1>2, ClosingHandler DEF TypeOK
<1>3. CASE g # h
  <2>1. pc'[g] = pc[g] /\ req'[g] = req[g] /\ rows'[g] = rows[g]
    BY <1>0, <1>1, <1>3 DEF TypeOK, Write
  <2>2. lock = h /\ pc[g] \notin {"locked", "staged"}
    BY <1>0, <1>3, WriteEffect DEF HandlerOK, LockOK
  <2>3. \A q \in ProofIds : proofs[q] # Absent => proofs'[q] # Absent
    <3>1. /\ proofs'[rows[h].pid] = rows[h].row /\ rows[h].row # Absent
          /\ \A q \in ProofIds : q # rows[h].pid => proofs'[q] = proofs[q]
      BY WriteEffect
    <3>. QED  BY <3>1
  <2>4. pc[g] = "checked" /\ req[g].op = "append" => req[g].pid \in ProofIds
    BY <1>0 DEF HandlerOK, LocalOK, EventRequest, ProofRequest
  <2>5. LocalOK(g)'
    BY <1>0, <2>1, <2>2, <2>3, <2>4 DEF HandlerOK, LocalOK, Exists
  <2>6. LockOK(g)' /\ StagedOK(g)'
    BY <2>1, <2>2 DEF LockOK, StagedOK
  <2>. QED  BY <2>5, <2>6 DEF HandlerOK
<1>. QED  BY <1>2, <1>3

LEMMA CommittedTypes ==
    ASSUME IInv, NEW h \in Handlers, pc[h] = "staged", Write(h), UNCHANGED req,
           NEW answer \in Replies, Respond(h, answer)
    PROVE  TypeOK'
<1>0. TypeOK
  BY DEF IInv
<1>1. pc' = [pc EXCEPT ![h] = "closing"] /\ reply' = [reply EXCEPT ![h] = answer]
  BY DEF Respond, Goto
<1>2. rows[h].pid \in ProofIds /\ rows[h].event \in Event /\ rows[h].row \in ProofRow
  BY WriteEffect
<1>3. proofs' \in [ProofIds -> ProofRow \cup {Absent}]
  BY <1>0, <1>2 DEF TypeOK, Write
<1>4. chain' \in [ProofIds -> Seq(Event)]
  <2>1. Append(chain[rows[h].pid], rows[h].event) \in Seq(Event)
    BY <1>0, <1>2 DEF TypeOK
  <2>. QED  BY <1>0, <1>2, <2>1 DEF TypeOK, Write
<1>5. /\ lock' \in Handlers \cup {NoHandler}
      /\ rows' \in [Handlers -> StagedRows \cup ReadRow \cup {NoRows}]
  BY <1>0 DEF TypeOK, Write
<1>6. /\ pc' \in [Handlers -> Labels]
      /\ req' \in [Handlers -> Requests \cup {NoRequest}]
      /\ reply' \in [Handlers -> Replies \cup {NoReply}]
  BY <1>0, <1>1 DEF TypeOK, Labels
<1>. QED  BY <1>3, <1>4, <1>5, <1>6 DEF TypeOK

LEMMA CommitEventStep ==
    ASSUME IInv, NEW h \in Handlers, CommitEvent(h)
    PROVE  IInv'
<1>1. PICK answer \in {Stored(rows[h].event), Refused("error")} :
        pc[h] = "staged" /\ req[h].op = "append" /\ Write(h) /\ UNCHANGED req
          /\ Respond(h, answer)
  BY DEF CommitEvent
<1>2. rows[h].event \in Event
  BY <1>1, WriteEffect
<1>3. answer \in Replies
  BY <1>2 DEF Event, Stored, Refused, Replies, LinkHash
<1>4. TypeOK'
  BY <1>1, <1>3, CommittedTypes
<1>5. \A g \in Handlers : HandlerOK(g)'
  BY <1>1, CommittedHandlers
<1>6. ChainsOK'
  BY <1>1, AppendedChains
<1>. QED  BY <1>4, <1>5, <1>6 DEF IInv

LEMMA CommitProofStep ==
    ASSUME IInv, NEW h \in Handlers, CommitProof(h)
    PROVE  IInv'
<1>1. PICK answer \in {Created(rows[h].pid), Refused("error")} :
        pc[h] = "staged" /\ req[h].op = "create" /\ Write(h) /\ UNCHANGED req
          /\ Respond(h, answer)
  BY DEF CommitProof
<1>2. rows[h].pid \in ProofIds
  BY <1>1, WriteEffect
<1>3. answer \in Replies
  BY <1>2 DEF Created, Refused, Replies
<1>4. TypeOK'
  BY <1>1, <1>3, CommittedTypes
<1>5. \A g \in Handlers : HandlerOK(g)'
  BY <1>1, CommittedHandlers
<1>6. ChainsOK'
  BY <1>1, CreatedChains
<1>. QED  BY <1>4, <1>5, <1>6 DEF IInv

-----------------------------------------------------------------------------
(* The other steps. *)

LEMMA RollbackDuplicateStep ==
    ASSUME IInv, NEW h \in Handlers, RollbackDuplicate(h)
    PROVE  IInv'
<1>0. TypeOK /\ HandlerOK(h)
  BY DEF IInv
<1>1. /\ UNCHANGED <<proofs, chain, req, reply>> /\ lock' = NoHandler
      /\ pc[h] = "staged" /\ req[h].op = "create"
      /\ rows' = [rows EXCEPT ![h] = NoRows]
      /\ pc' = [pc EXCEPT ![h] = "raced"]
  BY DEF RollbackDuplicate, Goto
<1>2. lock = h
  BY <1>0, <1>1 DEF HandlerOK, LockOK
<1>3. req[h] \in ProofRequest
  BY <1>0, <1>1 DEF HandlerOK, LocalOK, EventRequest, ProofRequest
<1>4. TypeOK'
  BY <1>0, <1>1 DEF TypeOK, Labels
<1>5. HandlerOK(h)'
  BY <1>0, <1>1, <1>3 DEF HandlerOK, LocalOK, LockOK, StagedOK, TypeOK
<1>. QED  BY <1>0, <1>1, <1>2, <1>4, <1>5, FrameInvariant DEF TypeOK

LEMMA GetProofStep ==
    ASSUME IInv, NEW h \in Handlers, NEW p \in ProofIds, GetProof(h, p)
    PROVE  IInv'
<1>. DEFINE r == [op |-> "get", pid |-> p]
<1>0. TypeOK /\ r \in ReadRequest
  BY DEF IInv, ReadRequest
<1>1. UNCHANGED <<proofs, chain, lock>> /\ req' = [req EXCEPT ![h] = r]
  BY DEF GetProof, Receive
<1>. HIDE DEF r
<1>2. CASE ~Exists(p) /\ Respond(h, Refused("not_found")) /\ UNCHANGED rows
  <2>1. /\ pc' = [pc EXCEPT ![h] = "closing"]
        /\ reply' = [reply EXCEPT ![h] = Refused("not_found")]
    BY <1>2 DEF Respond, Goto
  <2>2. TypeOK'
    BY <1>0, <1>1, <1>2, <2>1, RefusedType DEF TypeOK, Labels, Requests
  <2>3. HandlerOK(h)'
    BY <1>0, <2>1, ClosingHandler DEF TypeOK
  <2>. QED  BY <1>0, <1>1, <1>2, <2>1, <2>2, <2>3, FrameInvariant DEF TypeOK
<1>3. CASE /\ Exists(p)
           /\ rows' = [rows EXCEPT ![h] = [status |-> proofs[p].status]]
           /\ Goto(h, "reading")
           /\ UNCHANGED reply
  <2>1. pc' = [pc EXCEPT ![h] = "reading"]
    BY <1>3 DEF Goto
  <2>2. [status |-> proofs[p].status] \in ReadRow
    BY <1>0, <1>3 DEF TypeOK, Exists, ProofRow, ReadRow
  <2>3. TypeOK'
    BY <1>0, <1>1, <1>3, <2>1, <2>2 DEF TypeOK, Labels, Requests
  <2>4. HandlerOK(h)'
    BY <1>0, <1>1, <1>3, <2>1, <2>2 DEF HandlerOK, LocalOK, LockOK, StagedOK, TypeOK
  <2>. QED  BY <1>0, <1>1, <1>3, <2>1, <2>3, <2>4, FrameInvariant DEF TypeOK
<1>. QED  BY <1>2, <1>3 DEF GetProof, r

LEMMA ReadEventsStep ==
    ASSUME IInv, NEW h \in Handlers, ReadEvents(h)
    PROVE  IInv'
<1>. DEFINE events == chain[req[h].pid]
            answer == Exported(rows[h].status, events)
<1>0. TypeOK /\ HandlerOK(h)
  BY DEF IInv
<1>1. pc[h] = "reading" /\ Respond(h, answer) /\ UNCHANGED <<proofs, chain, lock, req>>
      /\ rows' = [rows EXCEPT ![h] = NoRows]
  BY DEF ReadEvents
<1>2. req[h].pid \in ProofIds /\ rows[h].status \in Statuses
  BY <1>0, <1>1 DEF HandlerOK, LocalOK, ReadRequest, ReadRow
<1>3. events \in Seq(Event) /\ ChainHead(events) \in EventIds \cup {NoHead}
  BY <1>0, <1>2, ChainHeadType DEF TypeOK
<1>4. answer \in Replies
  BY <1>2, <1>3 DEF Exported, Replies
<1>. QED  BY <1>1, <1>4, AnswerStep

LEMMA CloseSessionStep ==
    ASSUME IInv, NEW h \in Handlers, CloseSession(h)
    PROVE  IInv'
<1>0. TypeOK
  BY DEF IInv
<1>1. /\ UNCHANGED <<proofs, chain, rows>>
      /\ pc' = [pc EXCEPT ![h] = "idle"]
      /\ lock' = IF lock = h THEN NoHandler ELSE lock
      /\ req' = [req EXCEPT ![h] = NoRequest]
      /\ reply' = [reply EXCEPT ![h] = NoReply]
  BY DEF CloseSession, Goto
<1>2. TypeOK'
  BY <1>0, <1>1 DEF TypeOK, Labels
<1>3. HandlerOK(h)'
  BY <1>0, <1>1, ClosingHandler DEF TypeOK
<1>. QED  BY <1>0, <1>1, <1>2, <1>3, FrameInvariant DEF TypeOK

LEMMA CrashStep ==
    ASSUME IInv, Crash
    PROVE  IInv'
<1>0. TypeOK
  BY DEF IInv
<1>1. TypeOK'
  BY <1>0 DEF TypeOK, Crash, Labels
<1>2. \A h \in Handlers : HandlerOK(h)'
  BY ClosingHandler DEF Crash
<1>3. ChainsOK'
  BY FrameChains DEF IInv, Crash
<1>. QED  BY <1>1, <1>2, <1>3 DEF IInv

(* The disjuncts of Next, one case each.                                   *)
LEMMA NextInvariant == IInv /\ [Next]_vars => IInv'
<1>. SUFFICES ASSUME IInv, [Next]_vars PROVE IInv'
  OBVIOUS
<1>1. CASE UNCHANGED vars
  <2>1. \A h \in Handlers : HandlerOK(h)'
    BY <1>1, FrameHandler DEF vars, IInv
  <2>2. TypeOK'
    BY <1>1 DEF vars, IInv, TypeOK
  <2>. QED  BY <1>1, <2>1, <2>2, FrameChains DEF vars, IInv
<1>2. CASE Crash
  BY <1>2, CrashStep
<1>3. ASSUME NEW h \in Handlers, Arrive(h)
      PROVE  IInv'
  <2>1. ASSUME NEW p \in ProofIds, NEW a \in Signers, NEW t \in SentTypes,
               NEW b \in SentPayloads, NEW w \in SentSpellings, NEW n \in Nonces,
               NEW s \in BOOLEAN, NEW k \in IdsOf(chain[p]) \cup {NoHead},
               PostEvent(h, p, [op |-> "append", pid |-> p, actor |-> a,
                                type |-> t, payload |-> b, spelling |-> w,
                                nonce |-> n, head |-> k, signed |-> s])
        PROVE  IInv'
    <3>1. k \in EventIds \cup {NoHead}
      <4>1. chain[p] \in Seq(Event)
        BY DEF IInv, TypeOK
      <4>2. \A i \in DOMAIN chain[p] : chain[p][i] \in Event
        BY <4>1
      <4>3. \A i \in DOMAIN chain[p] : chain[p][i].id \in EventIds
        BY <4>2 DEF Event
      <4>. QED  BY <4>3 DEF IdsOf
    <3>. DEFINE r == [op |-> "append", pid |-> p, actor |-> a, type |-> t,
                      payload |-> b, spelling |-> w, nonce |-> n, head |-> k,
                      signed |-> s]
    <3>2. r \in EventRequest /\ r.pid = p
      BY <3>1, PayloadAssumption, SentTypesAssumption, SignersAssumption,
         SpellingsAssumption
         DEF EventRequest
    <3>. HIDE DEF r
    <3>3. PostEvent(h, p, r)
      BY <2>1 DEF r
    <3>. QED  BY <3>2, <3>3, PostEventStep
  <2>2. ASSUME NEW i \in RequestIds, NEW a \in Signers, NEW b \in RequestPayloads,
               NEW w \in SentSpellings, NEW n \in Nonces, NEW s \in BOOLEAN,
               PostProof(h, [op |-> "create", rid |-> i, actor |-> a,
                             payload |-> b, spelling |-> w, nonce |-> n, signed |-> s])
        PROVE  IInv'
    <3>. DEFINE r == [op |-> "create", rid |-> i, actor |-> a, payload |-> b,
                      spelling |-> w, nonce |-> n, signed |-> s]
    <3>1. r \in ProofRequest
      BY PayloadAssumption, SignersAssumption, SpellingsAssumption
         DEF ProofRequest, RequestPayloads
    <3>. HIDE DEF r
    <3>2. PostProof(h, r)
      BY <2>2 DEF r
    <3>. QED  BY <3>1, <3>2, PostProofStep
  <2>3. ASSUME NEW p \in ProofIds, GetProof(h, p)
        PROVE  IInv'
    BY <2>3, GetProofStep
  <2>. QED  BY <1>3, <2>1, <2>2, <2>3 DEF Arrive
<1>4. ASSUME NEW h \in Handlers, Serve(h)
      PROVE  IInv'
  <2>1. CASE BeginChainWrite(h)
    BY <2>1, BeginChainWriteStep
  <2>2. CASE BusyTimeout(h)
    BY <2>2, AnswerStep, RefusedType DEF BusyTimeout
  <2>3. CASE RefuseEvent(h)
    <3>. DEFINE refusal == LockedRefusal(proofs[req[h].pid], chain[req[h].pid], req[h])
    <3>1. /\ UNCHANGED <<proofs, chain, lock, req, rows>>
          /\ refusal # "ok" /\ Respond(h, Refused(refusal))
      BY <2>3 DEF RefuseEvent
    <3>2. Refused(refusal) \in Replies
      BY <3>1, LockedRefusalCodes, RefusedType
    <3>. HIDE DEF refusal
    <3>. QED  BY <3>1, <3>2, AnswerStep
  <2>4. CASE StageEvent(h)
    BY <2>4, StageEventStep
  <2>5. CASE CommitEvent(h)
    BY <2>5, CommitEventStep
  <2>6. CASE StageProof(h)
    BY <2>6, StageProofStep
  <2>7. CASE CommitProof(h)
    BY <2>7, CommitProofStep
  <2>8. CASE RollbackDuplicate(h)
    BY <2>8, RollbackDuplicateStep
  <2>9. CASE ReadRaced(h)
    BY <2>9, AnswerStep, IdempotencyReplyType DEF ReadRaced, StoredAs
  <2>10. CASE CommitFails(h)
    BY <2>10, AnswerStep, RefusedType DEF CommitFails
  <2>11. CASE ReadEvents(h)
    BY <2>11, ReadEventsStep
  <2>12. CASE CloseSession(h)
    BY <2>12, CloseSessionStep
  <2>. QED  BY <1>4, <2>1, <2>2, <2>3, <2>4, <2>5, <2>6, <2>7, <2>8, <2>9,
               <2>10, <2>11, <2>12 DEF Serve
<1>. QED  BY <1>1, <1>2, <1>3, <1>4 DEF Next

-----------------------------------------------------------------------------
(* The theorems. *)

(* The inductive invariant holds in every reachable state.                 *)
THEOREM Invariance == Spec => []IInv
<1>. QED  BY InitInvariant, NextInvariant, PTL DEF Spec

(* The tables, the lock and the handlers keep their types.                 *)
THEOREM TypeCorrect == Spec => []TypeOK
<1>1. IInv => TypeOK
  BY DEF IInv
<1>. QED  BY <1>1, Invariance, PTL

(* For any number of handlers, proofs and requests: the rows of a proof    *)
(* are numbered without a gap, each points to the one before it, and in a  *)
(* version-4 proof each signs the head it follows (create_event, D-C3).    *)
THEOREM ChainsAreLinked == Spec => []ChainLinked
<1>1. IInv => ChainLinked
  BY DEF IInv, ChainsOK
<1>. QED  BY <1>1, Invariance, PTL

(* No two rows of a proof carry the same nonce (D-R6).                     *)
THEOREM NoncesAreUnique == Spec => []NonceUsedOnce
<1>1. IInv => NonceUsedOnce
  BY DEF IInv, ChainsOK
<1>. QED  BY <1>1, Invariance, PTL

(* The status column says what the chain says, and a closed chain has its  *)
(* closing event last.                                                     *)
THEOREM StatusIsTheChains == Spec => []StatusFollowsChain
<1>1. IInv => StatusFollowsChain
  BY DEF IInv, ChainsOK
<1>. QED  BY <1>1, Invariance, PTL

-----------------------------------------------------------------------------
(* What a step can do to one chain. *)

(* The chain of p gets its first row. *)
Starts(p) ==
    /\ chain[p] = <<>>
    /\ \E e \in Event :
         chain'[p] = <<e>> /\ e.type = RequestCreated /\ e.nonce \in Nonces

(* The chain of p gets the row of an event the API accepts at this moment. *)
Extends(p) ==
    \E r \in EventRequest, e \in Event :
        /\ chain[p] # <<>>
        /\ LockedRefusal(proofs[p], chain[p], r) = "ok"
        /\ chain'[p] = Append(chain[p], e)
        /\ e.type = r.type /\ e.actor = r.actor /\ e.payload = r.payload
        /\ e.spelling = r.spelling /\ e.nonce = r.nonce
        /\ proofs'[p].version = proofs[p].version

(* The commit of an event extends the chain its staged row was built for.  *)
LEMMA CommitEventTables ==
    ASSUME IInv, NEW h \in Handlers, CommitEvent(h), NEW p \in ProofIds,
           chain'[p] # chain[p]
    PROVE  Extends(p)
<1>1. /\ pc[h] = "staged" /\ req[h].op = "append" /\ Write(h)
  BY DEF CommitEvent
<1>2. p = rows[h].pid /\ rows[h].event \in Event
      /\ chain'[p] = Append(chain[p], rows[h].event) /\ proofs'[p] = rows[h].row
  BY <1>1, WriteEffect
<1>3. HandlerOK(h) /\ TypeOK /\ StatusFollowsChain
  BY DEF IInv, ChainsOK
<1>4. StagedEventOK(h)
  BY <1>1, <1>3 DEF HandlerOK, StagedOK
<1>5. req[h] \in EventRequest
  BY <1>1, <1>3 DEF HandlerOK, LocalOK, EventRequest, ProofRequest
<1>6. /\ req[h].pid = p /\ Exists(p)
      /\ LockedRefusal(proofs[p], chain[p], req[h]) = "ok"
  BY <1>2, <1>4 DEF StagedEventOK
<1>7. chain[p] # <<>>
  BY <1>3, <1>6 DEF StatusFollowsChain
<1>8. /\ rows[h].event.type = req[h].type
      /\ rows[h].event.actor = req[h].actor
      /\ rows[h].event.payload = req[h].payload
      /\ rows[h].event.spelling = req[h].spelling
      /\ rows[h].event.nonce = req[h].nonce
  BY <1>4 DEF StagedEventOK, NewRow
<1>9. proofs'[p].version = proofs[p].version
  BY <1>2, <1>3, <1>4, <1>6 DEF StagedEventOK, TypeOK, Exists, ProofRow
<1>. QED  BY <1>2, <1>5, <1>6, <1>7, <1>8, <1>9 DEF Extends

(* The commit of a new proof starts its chain.                             *)
LEMMA CommitProofTables ==
    ASSUME IInv, NEW h \in Handlers, CommitProof(h), NEW p \in ProofIds,
           chain'[p] # chain[p]
    PROVE  Starts(p)
<1>1. pc[h] = "staged" /\ req[h].op = "create" /\ Write(h)
  BY DEF CommitProof
<1>2. p = rows[h].pid /\ rows[h].event \in Event
      /\ chain'[p] = Append(chain[p], rows[h].event)
  BY <1>1, WriteEffect
<1>3. StagedProofOK(h) /\ StatusFollowsChain
  BY <1>1 DEF IInv, HandlerOK, StagedOK, ChainsOK
<1>4. chain[p] = <<>>
  BY <1>2, <1>3 DEF StagedProofOK, StatusFollowsChain
<1>5. rows[h].event.type = RequestCreated /\ rows[h].event.nonce = req[h].nonce
  BY <1>3 DEF StagedProofOK, NewRow
<1>6. req[h] \in EventRequest \cup ProofRequest
  BY <1>1 DEF IInv, HandlerOK, LocalOK
<1>7. req[h].nonce \in Nonces
  BY <1>6 DEF EventRequest, ProofRequest
<1>. QED  BY <1>2, <1>4, <1>5, <1>7 DEF Starts

(* Only the two commits write the tables. *)
LEMMA OtherSteps ==
    ASSUME Next, \A h \in Handlers : ~CommitEvent(h) /\ ~CommitProof(h)
    PROVE  UNCHANGED <<proofs, chain>>
<1>1. CASE Crash
  BY <1>1 DEF Crash
<1>2. ASSUME NEW h \in Handlers, Arrive(h)
      PROVE  UNCHANGED <<proofs, chain>>
  <2>1. ASSUME NEW p, NEW r, PostEvent(h, p, r)
        PROVE  UNCHANGED <<proofs, chain>>
    BY <2>1 DEF PostEvent
  <2>2. ASSUME NEW r, PostProof(h, r)
        PROVE  UNCHANGED <<proofs, chain>>
    BY <2>2 DEF PostProof
  <2>3. ASSUME NEW p, GetProof(h, p)
        PROVE  UNCHANGED <<proofs, chain>>
    BY <2>3 DEF GetProof
  <2>. QED  BY <1>2, <2>1, <2>2, <2>3, Zenon DEF Arrive
<1>3. ASSUME NEW h \in Handlers, Serve(h)
      PROVE  UNCHANGED <<proofs, chain>>
  BY <1>3 DEF Serve, BeginChainWrite, BusyTimeout, RefuseEvent, StageEvent,
              StageProof, RollbackDuplicate, ReadRaced, CommitFails,
              ReadEvents, CloseSession
<1>. QED  BY <1>1, <1>2, <1>3 DEF Next

(* A stored row stays where it is; a proof keeps its version.              *)
LEMMA TableStep ==
    ASSUME IInv, [Next]_vars, NEW p \in ProofIds
    PROVE  \/ chain'[p] = chain[p] /\ (chain[p] # <<>> => proofs'[p].version = proofs[p].version)
           \/ Starts(p)
           \/ Extends(p)
<1>1. CASE UNCHANGED <<proofs, chain>>
  BY <1>1
<1>2. ASSUME NEW h \in Handlers, CommitEvent(h) \/ CommitProof(h), chain'[p] = chain[p]
      PROVE  proofs'[p].version = proofs[p].version
  <2>1. pc[h] = "staged" /\ Write(h)
    BY <1>2 DEF CommitEvent, CommitProof
  <2>2. chain[p] \in Seq(Event) /\ Append(chain[p], rows[h].event) # chain[p]
    <3>1. chain[p] \in Seq(Event)
      BY DEF IInv, TypeOK
    <3>2. Len(Append(chain[p], rows[h].event)) = Len(chain[p]) + 1
      BY <3>1, <2>1, WriteEffect
    <3>. QED  BY <3>1, <3>2
  <2>3. p # rows[h].pid
    BY <1>2, <2>1, <2>2, WriteEffect
  <2>. QED  BY <2>1, <2>3, WriteEffect
<1>3. CASE UNCHANGED vars
  BY <1>1, <1>3 DEF vars
<1>4. CASE \E h \in Handlers : CommitEvent(h) \/ CommitProof(h)
  BY <1>2, <1>4, CommitEventTables, CommitProofTables
<1>. QED  BY <1>1, <1>3, <1>4, OtherSteps

(* The chains of an initial state have at most one row, of a request.      *)
LEMMA InitChains ==
    ASSUME Init, NEW p \in ProofIds
    PROVE  chain[p] = <<>> \/ \E e \in Event : chain[p] = <<e>> /\ e.type = RequestCreated
<1>1. CASE EmptyDatabase
  BY <1>1 DEF EmptyDatabase
<1>2. CASE OldDatabase
  <2>1. PICK v \in OldVersions, q \in ProofIds, id \in EventIds, a \in Actors,
             b \in RequestPayloads, w \in SentSpellings, n \in Nonces :
          chain  = [s \in ProofIds |->
                      IF s = q
                      THEN <<OldRow(id, a, b, w,
                                    IF v \in LegacyVersions THEN NoNonce ELSE n)>>
                      ELSE <<>>]
    BY <1>2 DEF OldDatabase
  <2>2. OldRow(id, a, b, w, IF v \in LegacyVersions THEN NoNonce ELSE n) \in Event
    BY OldRowType, PayloadAssumption, SpellingsAssumption DEF RequestPayloads
  <2>3. OldRow(id, a, b, w, IF v \in LegacyVersions THEN NoNonce ELSE n).type = RequestCreated
    BY DEF OldRow, NewRow
  <2>. QED  BY <2>1, <2>2, <2>3
<1>. QED  BY <1>1, <1>2 DEF Init

-----------------------------------------------------------------------------
(* Acceptance. *)

(* An event accepted under the lock has passed each of its checks.         *)
LEMMA Accepted ==
    ASSUME NEW row, NEW events, NEW r, LockedRefusal(row, events, r) = "ok"
    PROVE  /\ AuthorizeEvent(events, r.actor, r.type, r.payload) = "ok"
           /\ ~SecondResult(events, r.type)
           /\ row.version \in LegacyVersions => ~RepeatedPair(events, r)
BY DEF LockedRefusal

(* What the rules of app/authorization.py have established when they say ok. *)
LEMMA Authorized ==
    ASSUME NEW prior, NEW a, NEW t, NEW b, AuthorizeEvent(prior, a, t, b) = "ok"
    PROVE  /\ HasCreator(prior)
           /\ t # RequestCreated
           /\ \/ a = CreatorOf(prior)
              \/ a \in DelegatesOf(prior) /\ t \notin CreatorOnlyTypes
           /\ t = TaskDelegated =>
                /\ a = CreatorOf(prior)
                /\ DelegatesFieldError(b) = "ok"
                /\ b.form = "list" => ~OverCap(prior, b)
<1>1. HasCreator(prior) /\ t # RequestCreated /\ RoleOf(prior, a) # "unauthorized"
  BY DEF AuthorizeEvent
<1>2. t \in CreatorOnlyTypes => RoleOf(prior, a) = "creator"
  BY <1>1 DEF AuthorizeEvent
<1>3. RoleOf(prior, a) = "creator" => a = CreatorOf(prior)
  BY DEF RoleOf
<1>4. a = CreatorOf(prior) \/ a \in DelegatesOf(prior)
  BY <1>1 DEF RoleOf
<1>5. TaskDelegated \in CreatorOnlyTypes
  BY DEF CreatorOnlyTypes
<1>6. t = TaskDelegated => DelegatesFieldError(b) = "ok"
  BY DEF AuthorizeEvent
<1>7. t = TaskDelegated /\ b.form = "list" => ~OverCap(prior, b)
  BY DEF AuthorizeEvent
<1>. QED  BY <1>1, <1>2, <1>3, <1>4, <1>5, <1>6, <1>7

-----------------------------------------------------------------------------
(* One result, and no old event twice. *)

(* SecondResult, asked of the chain being extended, keeps the result single. *)
LEMMA OneResultStep ==
    ASSUME IInv, OneResult, [Next]_vars
    PROVE  OneResult'
<1>. SUFFICES ASSUME NEW p \in ProofIds,
                     NEW i \in DOMAIN chain'[p], NEW j \in DOMAIN chain'[p],
                     chain'[p][i].type = ResultCreated,
                     chain'[p][j].type = ResultCreated
              PROVE  i = j
  BY DEF OneResult
<1>1. chain[p] \in Seq(Event)
  BY DEF IInv, TypeOK
<1>2. CASE chain'[p] = chain[p]
  BY <1>2 DEF OneResult
<1>3. CASE Starts(p)
  BY <1>3 DEF Starts
<1>4. CASE Extends(p)
  <2>1. PICK r \in EventRequest, e \in Event :
               /\ LockedRefusal(proofs[p], chain[p], r) = "ok"
               /\ chain'[p] = Append(chain[p], e) /\ e.type = r.type
    BY <1>4 DEF Extends
  <2>2. e.type = ResultCreated =>
          \A k \in DOMAIN chain[p] : chain[p][k].type # ResultCreated
    BY <2>1, Accepted DEF SecondResult
  <2>3. \A k, m \in DOMAIN chain[p] :
          chain[p][k].type = ResultCreated /\ chain[p][m].type = ResultCreated => k = m
    BY DEF OneResult
  <2>. QED  BY <1>1, <2>1, <2>2, <2>3
<1>. QED  BY <1>2, <1>3, <1>4, TableStep

(* At most one result.created per proof, whoever sends it, whatever the    *)
(* number of handlers, delegates and requests (event-authorization.md D5). *)
THEOREM OneResultPerProof == Spec => []OneResult
<1>1. Init => OneResult
  BY InitChains DEF OneResult
<1>2. IInv /\ OneResult /\ [Next]_vars => OneResult'
  BY OneResultStep
<1>. QED  BY <1>1, <1>2, Invariance, PTL DEF Spec

(* RepeatedPair, asked of the chain being extended, keeps a pair single.   *)
LEMMA OldPairOnceStep ==
    ASSUME IInv, OldPairOnce, [Next]_vars
    PROVE  OldPairOnce'
<1>. DEFINE Same(a, b) == /\ a.type = b.type /\ a.actor = b.actor
                          /\ a.payload = b.payload /\ a.spelling = b.spelling
<1>. SUFFICES ASSUME NEW p \in ProofIds,
                     NEW i \in 2..Len(chain'[p]), NEW j \in 2..Len(chain'[p]),
                     proofs'[p].version \in LegacyVersions, i # j,
                     Same(chain'[p][i], chain'[p][j])
              PROVE  FALSE
  BY DEF OldPairOnce
<1>1. chain[p] \in Seq(Event)
  BY DEF IInv, TypeOK
<1>2. CASE chain'[p] = chain[p] /\ (chain[p] # <<>> => proofs'[p].version = proofs[p].version)
  <2>1. chain[p] # <<>>
    BY <1>2
  <2>. QED  BY <1>2, <2>1 DEF OldPairOnce
<1>3. CASE Starts(p)
  BY <1>3 DEF Starts
<1>4. CASE Extends(p)
  <2>1. PICK r \in EventRequest, e \in Event :
               /\ LockedRefusal(proofs[p], chain[p], r) = "ok"
               /\ chain'[p] = Append(chain[p], e)
               /\ e.type = r.type /\ e.actor = r.actor /\ e.payload = r.payload
               /\ e.spelling = r.spelling
               /\ proofs'[p].version = proofs[p].version
    BY <1>4 DEF Extends
  <2>2. \A k \in DOMAIN chain[p] : ~Same(chain[p][k], e) /\ ~Same(e, chain[p][k])
    BY <2>1, Accepted DEF RepeatedPair
  <2>3. \A k, m \in 2..Len(chain[p]) : k # m => ~Same(chain[p][k], chain[p][m])
    BY <2>1 DEF OldPairOnce
  <2>. DEFINE n == Len(chain[p])
  <2>4. /\ n \in Nat /\ Len(chain'[p]) = n + 1 /\ chain'[p][n + 1] = e
        /\ \A k \in 1..n : k \in DOMAIN chain[p] /\ chain'[p][k] = chain[p][k]
    BY <1>1, <2>1
  <2>. HIDE DEF Same
  <2>5. CASE i = n + 1
    BY <2>2, <2>4, <2>5
  <2>6. CASE j = n + 1
    BY <2>2, <2>4, <2>6
  <2>7. CASE i # n + 1 /\ j # n + 1
    BY <2>3, <2>4, <2>7
  <2>. QED  BY <2>5, <2>6, <2>7
<1>. QED  BY <1>2, <1>3, <1>4, TableStep

(* In a proof of version 1 or 2 no (canonical, signature) pair is stored   *)
(* twice, under any nonce, by any number of clients that repeat it         *)
(* (event-replay.md D-R5). The signature is its text: a client that also   *)
(* sends its other spelling gets a second row.                             *)
THEOREM OldPairsStoredOnce == Spec => []OldPairOnce
<1>1. Init => OldPairOnce
  BY InitChains DEF OldPairOnce
<1>2. IInv /\ OldPairOnce /\ [Next]_vars => OldPairOnce'
  BY OldPairOnceStep
<1>. QED  BY <1>1, <1>2, Invariance, PTL DEF Spec

-----------------------------------------------------------------------------
(* Authority. AuthorityFollowsChain counts every DID the creator's rows    *)
(* name; the code counts only well-formed lists. The two agree because a   *)
(* malformed list is never stored, which is the strengthening.             *)

ListsAccepted(events) ==
    \A i \in 2..Len(events) :
        events[i].type = TaskDelegated =>
            DelegatesFieldError(events[i].payload) = "ok"

(* AuthorityFollowsChain of one chain, by its two halves. *)
RowsEntitled(events) ==
    \A i \in DOMAIN events :
        /\ (events[i].type = RequestCreated) <=> (i = 1)
        /\ \/ events[i].actor = events[1].actor
           \/ /\ events[i].actor \in NamedBefore(events, i)
              /\ events[i].type \notin CreatorOnlyTypes

NamesCapped(events) ==
    events # <<>> =>
        Cardinality(NamedBefore(events, Len(events) + 1) \ {events[1].actor})
            <= MaxDelegates

Lawful(events) == ListsAccepted(events) /\ RowsEntitled(events) /\ NamesCapped(events)

(* An accepted list names actors only, and only a list names anybody.      *)
LEMMA ListedActors ==
    ASSUME NEW b \in Payloads, DelegatesFieldError(b) = "ok"
    PROVE  /\ Listed(b) \subseteq Actors
           /\ b.form # "list" => Listed(b) = {}
<1>1. b.form \in {"absent", "not_list", "list"} /\ (b.form # "list" => b.dids = <<>>)
  BY DEF Payloads
<1>2. b.form # "list" => Listed(b) = {}
  BY <1>1 DEF Listed
<1>3. b.form = "list" => \A i \in DOMAIN b.dids : b.dids[i] \in Actors
  BY DEF DelegatesFieldError
<1>. QED  BY <1>1, <1>2, <1>3 DEF Listed

(* The delegates the code derives are the DIDs the creator has named.      *)
LEMMA DelegatesAreNamed ==
    ASSUME NEW events \in Seq(Event), HasCreator(events), ListsAccepted(events)
    PROVE  DelegatesOf(events)
             = NamedBefore(events, Len(events) + 1) \ {events[1].actor}
<1>1. (Len(events) + 1) - 1 = Len(events)
  OBVIOUS
<1>2. ASSUME NEW i \in 2..Len(events)
      PROVE  events[i].payload \in Payloads
  <2>1. events[i] \in Event
    OBVIOUS
  <2>. QED  BY <2>1 DEF Event
<1>3. ASSUME NEW d \in DelegatesOf(events)
      PROVE  d \in NamedBefore(events, Len(events) + 1) \ {events[1].actor}
  <2>1. d # events[1].actor /\ \E i \in Granting(events) : d \in Listed(events[i].payload)
    BY DEF DelegatesOf, CreatorOf
  <2>2. PICK i \in Granting(events) : d \in Listed(events[i].payload)
    BY <2>1
  <2>3. /\ i \in 2..Len(events) /\ events[i].type = TaskDelegated
        /\ events[i].actor = events[1].actor
        /\ DelegatesFieldError(events[i].payload) = "ok"
    BY <2>2 DEF Granting, CreatorOf
  <2>4. d \in Actors
    BY <1>2, <2>2, <2>3, ListedActors
  <2>. QED  BY <1>1, <2>1, <2>2, <2>3, <2>4 DEF NamedBefore
<1>4. ASSUME NEW d \in NamedBefore(events, Len(events) + 1) \ {events[1].actor}
      PROVE  d \in DelegatesOf(events)
  <2>1. PICK i \in 2..Len(events) :
             /\ events[i].type = TaskDelegated
             /\ events[i].actor = events[1].actor
             /\ d \in Listed(events[i].payload)
    BY <1>1, <1>4 DEF NamedBefore
  <2>2. DelegatesFieldError(events[i].payload) = "ok"
    BY <2>1 DEF ListsAccepted
  <2>3. events[i].payload.form = "list"
    BY <1>2, <2>1, <2>2, ListedActors
  <2>4. i \in Granting(events)
    BY <2>1, <2>2, <2>3 DEF Granting, CreatorOf
  <2>. QED  BY <1>4, <2>1, <2>4 DEF DelegatesOf, CreatorOf
<1>. QED  BY <1>3, <1>4

(* What was named before a row does not depend on the rows after it.       *)
LEMMA NamedBeforeAppend ==
    ASSUME NEW events \in Seq(Event), NEW e \in Event, events # <<>>,
           NEW i \in 1..(Len(events) + 1)
    PROVE  NamedBefore(Append(events, e), i) = NamedBefore(events, i)
<1>1. \A j \in 1..Len(events) : Append(events, e)[j] = events[j]
  OBVIOUS
<1>2. 1 \in 1..Len(events) /\ \A j \in 2..(i - 1) : j \in 1..Len(events)
  OBVIOUS
<1>. QED  BY <1>1, <1>2 DEF NamedBefore

(* Sets of actors are finite, so a set not larger than the cap is under it. *)
LEMMA SmallSet ==
    ASSUME NEW S \in SUBSET Actors, ~(Cardinality(S) > MaxDelegates)
    PROVE  Cardinality(S) <= MaxDelegates
<1>1. IsFiniteSet(S)
  BY ActorsAssumption, FS_Subset
<1>2. Cardinality(S) \in Nat
  BY <1>1, FS_CardinalityType
<1>. QED  BY <1>2, DelegatesAssumption

(* An accepted row keeps a chain lawful.                                   *)
LEMMA AcceptedKeepsLawful ==
    ASSUME NEW events \in Seq(Event), NEW e \in Event, events # <<>>, Lawful(events),
           AuthorizeEvent(events, e.actor, e.type, e.payload) = "ok"
    PROVE  Lawful(Append(events, e))
<1>. DEFINE n == Len(events)
            new == Append(events, e)
            c == events[1].actor
<1>1. /\ n \in Nat /\ n >= 1 /\ Len(new) = n + 1 /\ DOMAIN new = 1..(n + 1)
      /\ new[n + 1] = e /\ \A j \in 1..n : new[j] = events[j]
  OBVIOUS
<1>2. new # <<>> /\ new[1].actor = c
  BY <1>1
<1>3. /\ HasCreator(events) /\ e.type # RequestCreated
      /\ e.actor = c \/ (e.actor \in DelegatesOf(events) /\ e.type \notin CreatorOnlyTypes)
      /\ e.type = TaskDelegated =>
           /\ e.actor = c
           /\ DelegatesFieldError(e.payload) = "ok"
           /\ e.payload.form = "list" => ~OverCap(events, e.payload)
  BY Authorized DEF CreatorOf
<1>4. DelegatesOf(events) = NamedBefore(events, n + 1) \ {c}
  BY <1>3, DelegatesAreNamed DEF Lawful
<1>5. \A i \in 1..(n + 1) : NamedBefore(new, i) = NamedBefore(events, i)
  BY NamedBeforeAppend
<1>6. e.payload \in Payloads
  BY DEF Event
<1>. HIDE DEF n, new, c
<1>7. ListsAccepted(new)
  <2>. SUFFICES ASSUME NEW i \in 2..(n + 1), new[i].type = TaskDelegated
                PROVE  DelegatesFieldError(new[i].payload) = "ok"
    BY <1>1 DEF ListsAccepted
  <2>1. CASE i = n + 1
    BY <1>1, <1>3, <2>1
  <2>2. CASE i \in 2..n
    <3>1. new[i] = events[i]
      BY <1>1, <2>2
    <3>. QED  BY <2>2, <3>1 DEF Lawful, ListsAccepted, n
  <2>. QED  BY <1>1, <2>1, <2>2
<1>8. RowsEntitled(new)
  <2>. SUFFICES ASSUME NEW i \in 1..(n + 1)
                PROVE  /\ (new[i].type = RequestCreated) <=> (i = 1)
                       /\ \/ new[i].actor = c
                          \/ /\ new[i].actor \in NamedBefore(new, i)
                             /\ new[i].type \notin CreatorOnlyTypes
    BY <1>1, <1>2 DEF RowsEntitled
  <2>1. CASE i = n + 1
    <3>1. new[i] = e /\ i # 1
      BY <1>1, <2>1
    <3>2. NamedBefore(new, i) = NamedBefore(events, n + 1)
      BY <1>5, <2>1
    <3>. QED  BY <1>3, <1>4, <3>1, <3>2
  <2>2. CASE i \in 1..n
    <3>1. new[i] = events[i] /\ NamedBefore(new, i) = NamedBefore(events, i)
      BY <1>1, <1>5, <2>2
    <3>2. i \in DOMAIN events
      BY <2>2 DEF n
    <3>. QED  BY <3>1, <3>2 DEF Lawful, RowsEntitled, c
  <2>. QED  BY <1>1, <2>1, <2>2
<1>9. NamesCapped(new)
  <2>1. Len(new) + 1 = n + 2 /\ (n + 2) - 1 = n + 1 /\ (n + 1) - 1 = n
    BY <1>1
  <2>2. CASE e.type # TaskDelegated \/ e.payload.form # "list"
    <3>1. ~(e.type = TaskDelegated /\ Listed(e.payload) # {})
      BY <1>3, <1>6, <2>2, ListedActors
    <3>2. NamedBefore(new, n + 2) \subseteq NamedBefore(new, n + 1)
      <4>. SUFFICES ASSUME NEW d \in Actors, NEW j \in 2..(n + 1),
                           new[j].type = TaskDelegated, new[j].actor = new[1].actor,
                           d \in Listed(new[j].payload)
                    PROVE  j \in 2..n
        BY <2>1 DEF NamedBefore
      <4>. QED  BY <1>1, <3>1
    <3>3. NamedBefore(new, n + 1) \subseteq NamedBefore(new, n + 2)
      <4>1. \A j \in 2..n : j \in 2..(n + 1)
        BY <1>1
      <4>. QED  BY <2>1, <4>1 DEF NamedBefore
    <3>4. NamedBefore(new, n + 2) = NamedBefore(events, n + 1)
      <4>1. n + 1 \in 1..(n + 1)
        BY <1>1
      <4>. QED  BY <1>5, <3>2, <3>3, <4>1
    <3>5. Cardinality(NamedBefore(events, n + 1) \ {c}) <= MaxDelegates
      BY DEF Lawful, NamesCapped, n, c
    <3>. QED  BY <1>2, <2>1, <3>4, <3>5 DEF NamesCapped
  <2>3. CASE e.type = TaskDelegated /\ e.payload.form = "list"
    <3>. DEFINE all == DelegatesOf(events) \cup (Listed(e.payload) \ {c})
    <3>1. Listed(e.payload) \subseteq Actors
      BY <1>3, <1>6, <2>3, ListedActors
    <3>2. NamedBefore(new, n + 2) = NamedBefore(new, n + 1) \cup Listed(e.payload)
      <4>1. \A j : j \in 2..(n + 1) <=> (j \in 2..n \/ j = n + 1)
        BY <1>1
      <4>2. new[n + 1].type = TaskDelegated /\ new[n + 1].actor = new[1].actor
            /\ new[n + 1].payload = e.payload
        BY <1>1, <1>2, <1>3, <2>3
      <4>. QED  BY <2>1, <3>1, <4>1, <4>2 DEF NamedBefore
    <3>3. NamedBefore(new, n + 2) \ {c} = all
      BY <1>1, <1>4, <1>5, <3>2
    <3>4. all \subseteq Actors
      BY <1>4, <3>1 DEF NamedBefore
    <3>5. ~(Cardinality(all) > MaxDelegates)
      BY <1>3, <2>3 DEF OverCap, CreatorOf, c
    <3>. HIDE DEF all
    <3>6. Cardinality(all) <= MaxDelegates
      BY <3>4, <3>5, SmallSet
    <3>. QED  BY <1>2, <2>1, <3>3, <3>6 DEF NamesCapped
  <2>. QED  BY <2>2, <2>3
<1>. QED  BY <1>7, <1>8, <1>9 DEF Lawful, new

(* An empty chain and a chain of its request alone are lawful.             *)
LEMMA FirstRowsLawful ==
    ASSUME NEW events,
           events = <<>> \/ \E e \in Event : events = <<e>> /\ e.type = RequestCreated
    PROVE  Lawful(events)
<1>1. CASE events = <<>>
  BY <1>1 DEF Lawful, ListsAccepted, RowsEntitled, NamesCapped
<1>2. CASE events # <<>>
  <2>1. PICK e \in Event : events = <<e>> /\ e.type = RequestCreated
    BY <1>2
  <2>2. Len(events) = 1 /\ DOMAIN events = {1} /\ events[1] = e
    BY <2>1
  <2>3. NamedBefore(events, Len(events) + 1) = {}
    BY <2>2 DEF NamedBefore
  <2>4. NamedBefore(events, Len(events) + 1) \ {events[1].actor} = {}
    BY <2>3
  <2>5. Cardinality({}) <= MaxDelegates
    BY FS_EmptySet, DelegatesAssumption
  <2>6. NamesCapped(events)
    BY <2>4, <2>5 DEF NamesCapped
  <2>. QED  BY <2>1, <2>2, <2>6 DEF Lawful, ListsAccepted, RowsEntitled
<1>. QED  BY <1>1, <1>2

ChainsLawful == \A p \in ProofIds : Lawful(chain[p])

(* Every step keeps every chain lawful.                                    *)
LEMMA LawfulStep ==
    ASSUME IInv, ChainsLawful, [Next]_vars
    PROVE  ChainsLawful'
<1>. SUFFICES ASSUME NEW p \in ProofIds
              PROVE  Lawful(chain'[p])
  BY DEF ChainsLawful, Lawful, ListsAccepted, RowsEntitled, NamesCapped, NamedBefore
<1>1. chain[p] \in Seq(Event) /\ Lawful(chain[p])
  BY DEF IInv, TypeOK, ChainsLawful
<1>2. CASE chain'[p] = chain[p]
  BY <1>1, <1>2
<1>3. CASE Starts(p)
  BY <1>3, FirstRowsLawful DEF Starts
<1>4. CASE Extends(p)
  <2>1. PICK r \in EventRequest, e \in Event :
               /\ chain[p] # <<>>
               /\ LockedRefusal(proofs[p], chain[p], r) = "ok"
               /\ chain'[p] = Append(chain[p], e)
               /\ e.type = r.type /\ e.actor = r.actor /\ e.payload = r.payload
    BY <1>4 DEF Extends
  <2>2. AuthorizeEvent(chain[p], e.actor, e.type, e.payload) = "ok"
    BY <2>1, Accepted
  <2>. QED  BY <1>1, <2>1, <2>2, AcceptedKeepsLawful
<1>. QED  BY <1>2, <1>3, <1>4, TableStep

(* No row is stored without the creator's authority, and the creator never *)
(* gives it to more than MaxDelegates others, for any number of actors,    *)
(* handlers and requests (event-authorization.md section 3, D7).           *)
THEOREM AuthorityHolds == Spec => []AuthorityFollowsChain
<1>1. Init => ChainsLawful
  BY InitChains, FirstRowsLawful DEF ChainsLawful
<1>2. IInv /\ ChainsLawful /\ [Next]_vars => ChainsLawful'
  BY LawfulStep
<1>3. ChainsLawful => AuthorityFollowsChain
  BY DEF ChainsLawful, Lawful, RowsEntitled, NamesCapped, AuthorityFollowsChain
<1>. QED  BY <1>1, <1>2, <1>3, Invariance, PTL DEF Spec

=============================================================================
