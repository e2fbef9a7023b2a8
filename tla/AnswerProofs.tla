---------------------------- MODULE AnswerProofs ----------------------------
(***************************************************************************)
(* Proofs that what a client is told stays true, for every value of the    *)
(* constants: an acknowledged event is stored, an export is a prefix of    *)
(* the chain, "created" means its own request, and head_mismatch is said   *)
(* of an event that could still be stored.                                 *)
(*                                                                         *)
(* The argument: a stored row never moves and a proof keeps its request    *)
(* (RowsStay, ProofStays), so an answer that was right when it was built   *)
(* stays right; and the invariant of ProofChainProofs says that it was.    *)
(*                                                                         *)
(* And proof that ProofChain implements ProofLog: the sessions, the lock,  *)
(* the failures and the crashes hide nothing but single entries of logs.   *)
(* Only the two commits change the tables. A commit of a new proof is      *)
(* Register, a commit of an event is Extend: what the abstract step asks   *)
(* of an entry was checked under the lock and still holds (StagedOK), but  *)
(* for the format, which is checked before the lock and needs an invariant *)
(* of its own (FormatKept), and for the names that delegations give, which *)
(* ChainsLawful counts.                                                    *)
(***************************************************************************)
EXTENDS ProofChainProofs, SequenceTheorems

-----------------------------------------------------------------------------
(* What no step undoes. *)

(* A chain keeps its rows, and gets at most one more. *)
LEMMA ChainGrows ==
    ASSUME IInv, [Next]_vars, NEW p \in ProofIds
    PROVE  \/ chain'[p] = chain[p]
           \/ \E e \in Event : chain'[p] = Append(chain[p], e)
<1>1. CASE Starts(p)
  <2>1. PICK e \in Event : chain[p] = <<>> /\ chain'[p] = <<e>>
    BY <1>1 DEF Starts
  <2>. QED  BY <2>1
<1>2. CASE Extends(p)
  BY <1>2 DEF Extends
<1>. QED  BY <1>1, <1>2, TableStep

LEMMA RowsStay ==
    ASSUME IInv, [Next]_vars, NEW p \in ProofIds
    PROVE  /\ chain[p] \in Seq(Event) /\ chain'[p] \in Seq(Event)
           /\ Len(chain[p]) <= Len(chain'[p])
           /\ \A i \in DOMAIN chain[p] :
                i \in DOMAIN chain'[p] /\ chain'[p][i] = chain[p][i]
<1>1. chain[p] \in Seq(Event)
  BY DEF IInv, TypeOK
<1>2. ASSUME NEW e \in Event, chain'[p] = Append(chain[p], e)
      PROVE  /\ chain'[p] \in Seq(Event) /\ Len(chain'[p]) = Len(chain[p]) + 1
             /\ \A i \in DOMAIN chain[p] :
                  i \in DOMAIN chain'[p] /\ chain'[p][i] = chain[p][i]
  BY <1>1, <1>2
<1>. QED  BY <1>1, <1>2, ChainGrows

(* So do the prefixes of a chain.                                          *)
LEMMA PrefixStays ==
    ASSUME IInv, [Next]_vars, NEW p \in ProofIds, NEW k \in 0..Len(chain[p])
    PROVE  SubSeq(chain'[p], 1, k) = SubSeq(chain[p], 1, k)
<1>1. /\ chain[p] \in Seq(Event) /\ chain'[p] \in Seq(Event)
      /\ Len(chain[p]) <= Len(chain'[p])
      /\ \A i \in DOMAIN chain[p] : chain'[p][i] = chain[p][i]
  BY RowsStay
<1>. QED  BY <1>1

(* A proof keeps its request_id and its version.                           *)
LEMMA ProofStays ==
    ASSUME IInv, [Next]_vars, NEW p \in ProofIds, Exists(p)
    PROVE  /\ Exists(p)'
           /\ proofs'[p].rid = proofs[p].rid
           /\ proofs'[p].version = proofs[p].version
<1>1. CASE UNCHANGED <<proofs, chain>>
  BY <1>1 DEF Exists
<1>2. ASSUME NEW h \in Handlers, CommitEvent(h)
      PROVE  /\ Exists(p)'
             /\ proofs'[p].rid = proofs[p].rid
             /\ proofs'[p].version = proofs[p].version
  <2>1. pc[h] = "staged" /\ req[h].op = "append" /\ Write(h)
    BY <1>2 DEF CommitEvent
  <2>2. CASE p # rows[h].pid
    BY <2>1, <2>2, WriteEffect DEF Exists
  <2>3. CASE p = rows[h].pid
    <3>1. StagedEventOK(h) /\ proofs[p] \in ProofRow
      BY <2>1 DEF IInv, HandlerOK, StagedOK, TypeOK, Exists
    <3>2. rows[h].row = [proofs[p] EXCEPT
                           !.status = StatusAfter(proofs[p].status, req[h].type)]
      BY <2>3, <3>1 DEF StagedEventOK
    <3>3. proofs'[p] = rows[h].row /\ rows[h].row # Absent
      BY <2>1, <2>3, WriteEffect
    <3>. QED  BY <3>1, <3>2, <3>3 DEF Exists, ProofRow
  <2>. QED  BY <2>2, <2>3
<1>3. ASSUME NEW h \in Handlers, CommitProof(h)
      PROVE  /\ Exists(p)'
             /\ proofs'[p].rid = proofs[p].rid
             /\ proofs'[p].version = proofs[p].version
  <2>1. pc[h] = "staged" /\ req[h].op = "create" /\ Write(h)
    BY <1>3 DEF CommitProof
  <2>2. StagedProofOK(h)
    BY <2>1 DEF IInv, HandlerOK, StagedOK
  <2>3. p # rows[h].pid
    BY <2>2 DEF StagedProofOK
  <2>. QED  BY <2>1, <2>3, WriteEffect DEF Exists
<1>4. CASE UNCHANGED vars
  BY <1>1, <1>4 DEF vars
<1>. QED  BY <1>1, <1>2, <1>3, <1>4, OtherSteps

-----------------------------------------------------------------------------
(* The steps of one handler. *)

Unmoved(h) ==
    pc'[h] = pc[h] /\ req'[h] = req[h] /\ rows'[h] = rows[h] /\ reply'[h] = reply[h]

(* An answer that promises nothing of the tables.                          *)
Promises == {"stored", "created", "exported"}

AnswersNo(h) ==
    \E code \in {"not_found", "closed", "bad_format", "unsigned", "error"} :
        pc'[h] = "closing" /\ reply'[h] = Refused(code)

StartsReading(h) == \E p \in ProofIds : GetProof(h, p) /\ Exists(p) /\ pc'[h] = "reading"

(* A stored proof with the request_id of an arriving or racing request.    *)
Repeats(h) ==
    \E p \in StoredAs(req'[h].rid) :
        /\ UNCHANGED <<proofs, chain>>
        /\ req'[h] \in ProofRequest
        /\ pc'[h] = "closing" /\ reply'[h] = IdempotencyReply(p, req'[h])

Acknowledges(h) ==
    CommitEvent(h) /\ pc'[h] = "closing" /\ reply'[h] = Stored(rows[h].event)

Registers(h) ==
    CommitProof(h) /\ pc'[h] = "closing" /\ reply'[h] = Created(rows[h].pid)

(* A step leaves a handler alone, takes it out of the states the answers   *)
(* speak of, or gives it one of the answers.                               *)
Moves(h) ==
    \/ Unmoved(h)
    \/ pc'[h] \notin {"reading", "closing"} /\ reply'[h] \in {reply[h], NoReply}
    \/ AnswersNo(h) \/ RefuseEvent(h)
    \/ StartsReading(h) \/ ReadEvents(h)
    \/ Repeats(h) \/ Acknowledges(h) \/ Registers(h)

LEMMA ArrivalMoves ==
    ASSUME IInv, NEW h \in Handlers, NEW g \in Handlers, Arrive(g)
    PROVE  Moves(h)
<1>0. TypeOK
  BY DEF IInv
<1>1. ASSUME NEW p \in ProofIds, NEW r, PostEvent(g, p, r)
      PROVE  Moves(h)
  <2>. DEFINE refusal == EarlyRefusal(proofs[p], r)
  <2>1. refusal \in {"ok", "not_found", "closed", "bad_format", "unsigned"}
    BY EarlyRefusalCodes
  <2>2. rows' = rows /\ req' = [req EXCEPT ![g] = r]
    BY <1>1 DEF PostEvent, Receive
  <2>3. CASE refusal # "ok" /\ Respond(g, Refused(refusal))
    <3>1. pc' = [pc EXCEPT ![g] = "closing"] /\ reply' = [reply EXCEPT ![g] = Refused(refusal)]
      BY <2>3 DEF Respond, Goto
    <3>. HIDE DEF refusal
    <3>2. CASE h = g
      <4>1. AnswersNo(h)
        BY <1>0, <2>1, <2>3, <3>1, <3>2 DEF TypeOK, AnswersNo
      <4>. QED  BY <4>1 DEF Moves
    <3>3. CASE h # g
      BY <1>0, <2>2, <3>1, <3>3 DEF TypeOK, Unmoved, Moves
    <3>. QED  BY <3>2, <3>3
  <2>4. CASE Goto(g, "checked") /\ UNCHANGED reply
    <3>1. pc' = [pc EXCEPT ![g] = "checked"]
      BY <2>4 DEF Goto
    <3>. QED  BY <1>0, <2>2, <2>4, <3>1 DEF TypeOK, Unmoved, Moves
  <2>. QED  BY <1>1, <2>3, <2>4 DEF PostEvent
<1>2. ASSUME NEW r \in ProofRequest, PostProof(g, r)
      PROVE  Moves(h)
  <2>1. /\ UNCHANGED <<proofs, chain, rows>> /\ req' = [req EXCEPT ![g] = r]
    BY <1>2 DEF PostProof, Receive
  <2>2. ASSUME NEW answer, Respond(g, answer), h # g
        PROVE  Moves(h)
    BY <1>0, <2>1, <2>2 DEF TypeOK, Unmoved, Moves, Respond, Goto
  <2>3. CASE Respond(g, Refused("unsigned"))
    <3>1. h = g => AnswersNo(h)
      BY <1>0, <2>3 DEF TypeOK, Respond, Goto, AnswersNo
    <3>. QED  BY <2>2, <2>3, <3>1 DEF Moves
  <2>4. CASE \E p \in StoredAs(r.rid) : Respond(g, IdempotencyReply(p, r))
    <3>1. PICK p \in StoredAs(r.rid) : Respond(g, IdempotencyReply(p, r))
      BY <2>4
    <3>2. CASE h = g
      <4>1. req'[h] = r /\ pc'[h] = "closing" /\ reply'[h] = IdempotencyReply(p, r)
        BY <1>0, <2>1, <3>1, <3>2 DEF TypeOK, Respond, Goto
      <4>2. Repeats(h)
        BY <1>2, <2>1, <3>1, <4>1 DEF Repeats
      <4>. QED  BY <4>2 DEF Moves
    <3>. QED  BY <2>2, <3>1, <3>2
  <2>5. CASE Goto(g, "checked") /\ UNCHANGED reply
    BY <1>0, <2>1, <2>5 DEF TypeOK, Goto, Unmoved, Moves
  <2>. QED  BY <1>2, <2>3, <2>4, <2>5 DEF PostProof
<1>3. ASSUME NEW p \in ProofIds, GetProof(g, p)
      PROVE  Moves(h)
  <2>1. req' = [req EXCEPT ![g] = [op |-> "get", pid |-> p]]
    BY <1>3 DEF GetProof, Receive
  <2>2. CASE Respond(g, Refused("not_found")) /\ UNCHANGED rows
    <3>1. h = g => AnswersNo(h)
      BY <1>0, <2>2 DEF TypeOK, Respond, Goto, AnswersNo
    <3>2. h # g => Unmoved(h)
      BY <1>0, <2>1, <2>2 DEF TypeOK, Respond, Goto, Unmoved
    <3>. QED  BY <3>1, <3>2 DEF Moves
  <2>3. CASE /\ Exists(p) /\ rows' = [rows EXCEPT ![g] = [status |-> proofs[p].status]]
             /\ Goto(g, "reading") /\ UNCHANGED reply
    <3>1. h = g => StartsReading(h)
      BY <1>0, <1>3, <2>3 DEF TypeOK, Goto, StartsReading
    <3>2. h # g => Unmoved(h)
      BY <1>0, <2>1, <2>3 DEF TypeOK, Goto, Unmoved
    <3>. QED  BY <3>1, <3>2 DEF Moves
  <2>. QED  BY <1>3, <2>2, <2>3 DEF GetProof
<1>4. ASSUME NEW i \in RequestIds, NEW a \in Signers, NEW b \in RequestPayloads,
             NEW w \in SentSpellings, NEW n \in Nonces, NEW s \in BOOLEAN
      PROVE  [op |-> "create", rid |-> i, actor |-> a, payload |-> b,
              spelling |-> w, nonce |-> n, signed |-> s] \in ProofRequest
  BY PayloadAssumption, SignersAssumption, SpellingsAssumption
     DEF ProofRequest, RequestPayloads
<1>. QED  BY <1>1, <1>2, <1>3, <1>4 DEF Arrive

LEMMA ServiceMoves ==
    ASSUME IInv, NEW h \in Handlers, NEW g \in Handlers, Serve(g)
    PROVE  Moves(h)
<1>0. TypeOK
  BY DEF IInv
<1>1. CASE BeginChainWrite(g) \/ StageEvent(g) \/ StageProof(g) \/ RollbackDuplicate(g)
           \/ CloseSession(g)
  <2>1. h = g => /\ pc'[h] \in {"locked", "staged", "raced", "idle"}
                 /\ reply'[h] \in {reply[h], NoReply}
    BY <1>0, <1>1 DEF TypeOK, Goto, BeginChainWrite, StageEvent, StageProof,
                      RollbackDuplicate, CloseSession
  <2>2. h # g => Unmoved(h)
    BY <1>0, <1>1 DEF TypeOK, Goto, Unmoved, BeginChainWrite, StageEvent, StageProof,
                      RollbackDuplicate, CloseSession
  <2>. QED  BY <2>1, <2>2 DEF Moves
<1>2. ASSUME NEW answer, Respond(g, answer), req' = req,
             \/ UNCHANGED rows
             \/ rows' = [rows EXCEPT ![g] = NoRows],
             h # g
      PROVE  Moves(h)
  BY <1>0, <1>2 DEF TypeOK, Respond, Goto, Unmoved, Moves
<1>3. ASSUME NEW answer, Respond(g, answer)
      PROVE  pc'[g] = "closing" /\ reply'[g] = answer
  BY <1>0, <1>3 DEF TypeOK, Respond, Goto
<1>4. CASE BusyTimeout(g) \/ CommitFails(g)
  <2>1. /\ Respond(g, Refused("error")) /\ req' = req
        /\ \/ UNCHANGED rows
           \/ rows' = [rows EXCEPT ![g] = NoRows]
    BY <1>4 DEF BusyTimeout, CommitFails
  <2>2. AnswersNo(g)
    BY <1>3, <2>1 DEF AnswersNo
  <2>. QED  BY <1>2, <2>1, <2>2 DEF Moves
<1>5. CASE RefuseEvent(g)
  <2>1. \E answer : Respond(g, answer) /\ req' = req /\ rows' = rows
    BY <1>5 DEF RefuseEvent
  <2>. QED  BY <1>2, <1>5, <2>1 DEF Moves
<1>6. CASE CommitEvent(g) \/ CommitProof(g)
  <2>1. /\ req' = req /\ rows' = [rows EXCEPT ![g] = NoRows]
    BY <1>6 DEF CommitEvent, CommitProof, Write
  <2>2. \/ CommitEvent(g) /\ Respond(g, Stored(rows[g].event))
        \/ CommitProof(g) /\ Respond(g, Created(rows[g].pid))
        \/ Respond(g, Refused("error"))
    BY <1>6 DEF CommitEvent, CommitProof
  <2>3. Acknowledges(g) \/ Registers(g) \/ AnswersNo(g)
    BY <1>3, <2>2 DEF Acknowledges, Registers, AnswersNo
  <2>. QED  BY <1>2, <2>1, <2>2, <2>3 DEF Moves
<1>7. CASE ReadRaced(g)
  <2>1. PICK p \in StoredAs(req[g].rid) : Respond(g, IdempotencyReply(p, req[g]))
    BY <1>7 DEF ReadRaced
  <2>2. UNCHANGED <<proofs, chain, req, rows>> /\ req[g] \in ProofRequest
    BY <1>7 DEF ReadRaced, IInv, HandlerOK, LocalOK
  <2>3. Repeats(g)
    <3>1. pc'[g] = "closing" /\ reply'[g] = IdempotencyReply(p, req[g])
      BY <1>3, <2>1
    <3>. QED  BY <2>1, <2>2, <3>1 DEF Repeats
  <2>. QED  BY <1>2, <2>1, <2>2, <2>3 DEF Moves
<1>8. CASE ReadEvents(g)
  <2>1. \E answer : Respond(g, answer) /\ req' = req /\ rows' = [rows EXCEPT ![g] = NoRows]
    BY <1>8 DEF ReadEvents
  <2>. QED  BY <1>2, <1>8, <2>1 DEF Moves
<1>. QED  BY <1>1, <1>4, <1>5, <1>6, <1>7, <1>8 DEF Serve

LEMMA HandlerMoves ==
    ASSUME IInv, [Next]_vars, NEW h \in Handlers
    PROVE  Moves(h)
<1>1. CASE UNCHANGED vars
  BY <1>1 DEF vars, Moves, Unmoved
<1>2. CASE Crash
  <2>1. pc'[h] = "idle" /\ reply'[h] = NoReply
    BY <1>2 DEF Crash
  <2>. QED  BY <2>1 DEF Moves
<1>. QED  BY <1>1, <1>2, ArrivalMoves, ServiceMoves DEF Next

-----------------------------------------------------------------------------
(* Acknowledged events. *)

AcknowledgementOK(h) ==
    pc[h] = "closing" /\ reply[h].code = "stored" =>
        LET events == chain[req[h].pid]
            k == reply[h].seq
        IN  /\ req[h].pid \in ProofIds
            /\ k \in DOMAIN events
            /\ events[k].id = reply[h].id
            /\ LinkHash(events[k]) = reply[h].head
            /\ events[k].actor = req[h].actor
            /\ events[k].type = req[h].type
            /\ events[k].payload = req[h].payload
            /\ events[k].nonce = req[h].nonce
            /\ events[k].head = req[h].head

LEMMA RefusalAnswer ==
    ASSUME IInv, NEW h \in Handlers, RefuseEvent(h)
    PROVE  LET refusal == LockedRefusal(proofs[req[h].pid], chain[req[h].pid], req[h])
           IN  refusal # "ok" /\ pc'[h] = "closing" /\ reply'[h] = Refused(refusal)
BY DEF IInv, TypeOK, RefuseEvent, Respond, Goto

(* No other answer has the code of one that promises something.            *)
LEMMA OtherAnswers ==
    ASSUME IInv, NEW h \in Handlers
    PROVE  /\ AnswersNo(h) \/ RefuseEvent(h) => reply'[h].code \notin Promises
           /\ Repeats(h) => reply'[h].code \in {"other_actor", "other_request", "created"}
           /\ Registers(h) => reply'[h].code = "created"
           /\ Acknowledges(h) => reply'[h].code = "stored"
<1>1. AnswersNo(h) => reply'[h].code \notin Promises
  BY DEF AnswersNo, Refused, Promises
<1>2. Repeats(h) => reply'[h].code \in {"other_actor", "other_request", "created"}
  BY DEF Repeats, IdempotencyReply, Refused, Created
<1>3. ASSUME RefuseEvent(h)
      PROVE  reply'[h].code \notin Promises
  <2>. DEFINE refusal == LockedRefusal(proofs[req[h].pid], chain[req[h].pid], req[h])
  <2>1. reply'[h] = Refused(refusal)
    BY <1>3, RefusalAnswer
  <2>2. refusal \notin Promises
    BY LockedRefusalCodes DEF Promises
  <2>. HIDE DEF refusal
  <2>. QED  BY <2>1, <2>2 DEF Refused
<1>. QED  BY <1>1, <1>2, <1>3 DEF Registers, Acknowledges, Created, Stored

LEMMA ExportAnswer ==
    ASSUME IInv, NEW h \in Handlers, ReadEvents(h)
    PROVE  /\ reply'[h] = Exported(rows[h].status, chain[req[h].pid])
           /\ reply'[h].code = "exported"
           /\ UNCHANGED <<proofs, chain, req>>
           /\ pc[h] = "reading" /\ req[h] \in ReadRequest /\ req[h].pid \in ProofIds
<1>1. TypeOK /\ HandlerOK(h)
  BY DEF IInv
<1>2. reply'[h] = Exported(rows[h].status, chain[req[h].pid])
  BY <1>1 DEF TypeOK, ReadEvents, Respond
<1>3. req[h] \in ReadRequest /\ UNCHANGED <<proofs, chain, req>> /\ pc[h] = "reading"
  BY <1>1 DEF ReadEvents, HandlerOK, LocalOK
<1>. QED  BY <1>2, <1>3 DEF Exported, ReadRequest

LEMMA AcknowledgementStep ==
    ASSUME IInv, [Next]_vars, NEW h \in Handlers, AcknowledgementOK(h)
    PROVE  AcknowledgementOK(h)'
<1>. SUFFICES ASSUME pc'[h] = "closing", reply'[h].code = "stored"
              PROVE  LET events == chain'[req'[h].pid]
                         k == reply'[h].seq
                     IN  /\ req'[h].pid \in ProofIds
                         /\ k \in DOMAIN events
                         /\ events[k].id = reply'[h].id
                         /\ LinkHash(events[k]) = reply'[h].head
                         /\ events[k].actor = req'[h].actor
                         /\ events[k].type = req'[h].type
                         /\ events[k].payload = req'[h].payload
                         /\ events[k].nonce = req'[h].nonce
                         /\ events[k].head = req'[h].head
  BY DEF AcknowledgementOK, LinkHash
<1>1. CASE Unmoved(h)
  <2>1. req[h].pid \in ProofIds /\ reply[h].seq \in DOMAIN chain[req[h].pid]
    BY <1>1 DEF Unmoved, AcknowledgementOK
  <2>2. /\ reply[h].seq \in DOMAIN chain'[req[h].pid]
        /\ chain'[req[h].pid][reply[h].seq] = chain[req[h].pid][reply[h].seq]
    BY <2>1, RowsStay
  <2>. QED  BY <1>1, <2>1, <2>2 DEF Unmoved, AcknowledgementOK, LinkHash
<1>2. CASE Acknowledges(h)
  <2>. DEFINE p == req[h].pid
              event == rows[h].event
  <2>1. /\ pc[h] = "staged" /\ req[h].op = "append" /\ Write(h) /\ req' = req
        /\ reply'[h] = Stored(event)
    BY <1>2 DEF Acknowledges, CommitEvent
  <2>2. StagedEventOK(h) /\ ChainLinked
    BY <2>1 DEF IInv, ChainsOK, HandlerOK, StagedOK
  <2>3. p = rows[h].pid /\ p \in ProofIds /\ event \in Event
        /\ chain[p] \in Seq(Event) /\ chain'[p] = Append(chain[p], event)
    BY <2>1, <2>2, WriteEffect DEF StagedEventOK
  <2>4. event.seq = Len(chain[p]) + 1
    <3>1. event.seq = IF chain[p] = <<>> THEN 1 ELSE chain[p][Len(chain[p])].seq + 1
      BY <2>2 DEF StagedEventOK, NewRow
    <3>2. chain[p] # <<>> => chain[p][Len(chain[p])].seq = Len(chain[p])
      BY <2>2, <2>3 DEF ChainLinked
    <3>. QED  BY <2>3, <3>1, <3>2
  <2>5. /\ event.actor = req[h].actor /\ event.type = req[h].type
        /\ event.payload = req[h].payload /\ event.nonce = req[h].nonce
        /\ event.head = req[h].head
    BY <2>2 DEF StagedEventOK, NewRow
  <2>6. /\ reply'[h].seq = event.seq /\ reply'[h].id = event.id
        /\ reply'[h].head = LinkHash(event)
    BY <2>1 DEF Stored
  <2>. HIDE DEF p, event
  <2>7. event.seq \in DOMAIN chain'[p] /\ chain'[p][event.seq] = event
    BY <2>3, <2>4
  <2>. QED  BY <2>1, <2>3, <2>5, <2>6, <2>7 DEF p
<1>3. ~StartsReading(h)
  BY DEF StartsReading
<1>. QED  BY <1>1, <1>2, <1>3, HandlerMoves, OtherAnswers, ExportAnswer DEF Moves, Promises

(* However many handlers run, and whatever commits fail or crashes happen, *)
(* an event answered 201 is in the chain at its sequence and head, and     *)
(* stays there (append_event).                                             *)
THEOREM AcknowledgedForGood == Spec => []AcknowledgedIsStored
<1>. DEFINE AnswersOK == \A h \in Handlers : AcknowledgementOK(h)
<1>1. Init => AnswersOK
  BY DEF Init, AcknowledgementOK
<1>2. IInv /\ AnswersOK /\ [Next]_vars => AnswersOK'
  BY AcknowledgementStep
<1>3. AnswersOK => AcknowledgedIsStored
  BY DEF AcknowledgementOK, AcknowledgedIsStored
<1>. HIDE DEF AnswersOK
<1>. QED  BY <1>1, <1>2, <1>3, Invariance, PTL DEF Spec

-----------------------------------------------------------------------------
(* Exports. The status is read before the events: the invariant remembers  *)
(* that it was the status of the chain as it stood then.                   *)

WasStatus(status, events) ==
    \E k \in DOMAIN events : status = StatusOf(SubSeq(events, 1, k))

ReadingOK(h) ==
    pc[h] = "reading" =>
        req[h].pid \in ProofIds /\ WasStatus(rows[h].status, chain[req[h].pid])

ExportOK(h) ==
    pc[h] = "closing" /\ reply[h].code = "exported" =>
        LET events == reply[h].events
        IN  /\ req[h].pid \in ProofIds
            /\ Len(events) \in 0..Len(chain[req[h].pid])
            /\ events = SubSeq(chain[req[h].pid], 1, Len(events))
            /\ reply[h].head = ChainHead(events)
            /\ WasStatus(reply[h].status, events)

(* A status a chain had is a status it had when it has grown.              *)
LEMMA StatusWas ==
    ASSUME IInv, [Next]_vars, NEW p \in ProofIds, NEW status,
           WasStatus(status, chain[p])
    PROVE  WasStatus(status, chain'[p])
<1>1. PICK k \in DOMAIN chain[p] : status = StatusOf(SubSeq(chain[p], 1, k))
  BY DEF WasStatus
<1>2. k \in DOMAIN chain'[p] /\ k \in 0..Len(chain[p])
  BY RowsStay
<1>3. SubSeq(chain'[p], 1, k) = SubSeq(chain[p], 1, k)
  BY <1>2, PrefixStays
<1>. QED  BY <1>1, <1>2, <1>3 DEF WasStatus

LEMMA ReadingStep ==
    ASSUME IInv, [Next]_vars, NEW h \in Handlers, ReadingOK(h)
    PROVE  ReadingOK(h)'
<1>. SUFFICES ASSUME pc'[h] = "reading"
              PROVE  req'[h].pid \in ProofIds
                     /\ WasStatus(rows'[h].status, chain'[req'[h].pid])
  BY DEF ReadingOK, WasStatus
<1>1. CASE Unmoved(h)
  BY <1>1, StatusWas DEF Unmoved, ReadingOK
<1>2. CASE StartsReading(h)
  <2>1. PICK p \in ProofIds : GetProof(h, p) /\ Exists(p)
    BY <1>2 DEF StartsReading
  <2>2. TypeOK /\ StatusFollowsChain
    BY DEF IInv, ChainsOK
  <2>3. /\ req'[h].pid = p /\ chain' = chain
    BY <2>1, <2>2 DEF TypeOK, GetProof, Receive
  <2>4. rows'[h].status = proofs[p].status
    <3>1. ~Respond(h, Refused("not_found"))
      BY <2>2 DEF TypeOK, Respond, Goto
    <3>. QED  BY <2>1, <2>2, <3>1 DEF TypeOK, GetProof
  <2>5. chain[p] \in Seq(Event) /\ chain[p] # <<>> /\ proofs[p].status = StatusOf(chain[p])
    BY <2>1, <2>2 DEF StatusFollowsChain, TypeOK
  <2>6. SubSeq(chain[p], 1, Len(chain[p])) = chain[p] /\ Len(chain[p]) \in DOMAIN chain[p]
    BY <2>5
  <2>7. WasStatus(proofs[p].status, chain[p])
    BY <2>5, <2>6 DEF WasStatus
  <2>. QED  BY <2>3, <2>4, <2>7
<1>3. ~AnswersNo(h) /\ ~RefuseEvent(h) /\ ~Repeats(h) /\ ~Acknowledges(h) /\ ~Registers(h)
  BY RefusalAnswer DEF AnswersNo, Repeats, Acknowledges, Registers
<1>4. ~ReadEvents(h)
  BY DEF IInv, TypeOK, ReadEvents, Respond, Goto
<1>. QED  BY <1>1, <1>2, <1>3, <1>4, HandlerMoves DEF Moves

LEMMA ExportStep ==
    ASSUME IInv, [Next]_vars, NEW h \in Handlers, ReadingOK(h), ExportOK(h)
    PROVE  ExportOK(h)'
<1>. DEFINE Goal == LET events == reply'[h].events
                    IN  /\ req'[h].pid \in ProofIds
                        /\ Len(events) \in 0..Len(chain'[req'[h].pid])
                        /\ events = SubSeq(chain'[req'[h].pid], 1, Len(events))
                        /\ reply'[h].head = ChainHead(events)
                        /\ WasStatus(reply'[h].status, events)
<1>. SUFFICES ASSUME pc'[h] = "closing", reply'[h].code = "exported"
              PROVE  Goal
  BY DEF ExportOK, ChainHead, LinkHash, WasStatus
<1>1. CASE Unmoved(h)
  <2>1. req[h].pid \in ProofIds /\ Len(reply[h].events) \in 0..Len(chain[req[h].pid])
    BY <1>1 DEF Unmoved, ExportOK
  <2>2. /\ SubSeq(chain'[req[h].pid], 1, Len(reply[h].events))
             = SubSeq(chain[req[h].pid], 1, Len(reply[h].events))
    BY <2>1, PrefixStays
  <2>3. Len(reply[h].events) \in 0..Len(chain'[req[h].pid])
    <3>1. chain[req[h].pid] \in Seq(Event) /\ chain'[req[h].pid] \in Seq(Event)
          /\ Len(chain[req[h].pid]) <= Len(chain'[req[h].pid])
      BY <2>1, RowsStay
    <3>. QED  BY <2>1, <3>1
  <2>. QED  BY <1>1, <2>1, <2>2, <2>3 DEF Unmoved, ExportOK
<1>2. CASE ReadEvents(h)
  <2>. DEFINE events == chain[req[h].pid]
  <2>1. /\ reply'[h] = Exported(rows[h].status, events)
        /\ chain' = chain /\ req' = req /\ pc[h] = "reading" /\ req[h].pid \in ProofIds
    BY <1>2, ExportAnswer
  <2>2. events \in Seq(Event)
    BY <2>1 DEF IInv, TypeOK
  <2>3. Len(events) \in 0..Len(events) /\ events = SubSeq(events, 1, Len(events))
    BY <2>2
  <2>4. WasStatus(rows[h].status, events)
    BY <2>1 DEF ReadingOK
  <2>5. /\ reply'[h].events = events /\ reply'[h].head = ChainHead(events)
        /\ reply'[h].status = rows[h].status
    BY <2>1 DEF Exported
  <2>. HIDE DEF events
  <2>6. chain'[req'[h].pid] = events
    BY <2>1 DEF events
  <2>. QED  BY <2>1, <2>3, <2>4, <2>5, <2>6
<1>3. ~StartsReading(h)
  BY DEF StartsReading
<1>. HIDE DEF Goal
<1>. QED  BY <1>1, <1>2, <1>3, HandlerMoves, OtherAnswers DEF Moves, Promises

(* Whatever is committed between the two SELECTs of GET /proofs/{id} and   *)
(* afterwards: the exported events are a prefix of the chain with their    *)
(* own head, and the status is one they had.                               *)
THEOREM ExportsAgree == Spec => []ExportIsConsistent
<1>. DEFINE ReadsOK == \A h \in Handlers : ReadingOK(h) /\ ExportOK(h)
<1>1. Init => ReadsOK
  BY DEF Init, ReadingOK, ExportOK
<1>2. IInv /\ ReadsOK /\ [Next]_vars => ReadsOK'
  BY ReadingStep, ExportStep
<1>3. ReadsOK => ExportIsConsistent
  BY DEF ExportOK, WasStatus, ExportIsConsistent
<1>. HIDE DEF ReadsOK
<1>. QED  BY <1>1, <1>2, <1>3, Invariance, PTL DEF Spec

-----------------------------------------------------------------------------
(* Creation. *)

RequestOwnsOne ==
    \A p, q \in ProofIds :
        Exists(p) /\ Exists(q) /\ proofs[p].rid = proofs[q].rid => p = q

OwnRequest(p, r) ==
    /\ Exists(p)
    /\ proofs[p].rid = r.rid
    /\ chain[p][1].actor = r.actor
    /\ SameRequest(p, r)

CreationOK(h) ==
    pc[h] = "closing" /\ reply[h].code = "created" =>
        reply[h].pid \in ProofIds /\ OwnRequest(reply[h].pid, req[h])

LEMMA InitOwners == ASSUME Init PROVE RequestOwnsOne
<1>1. CASE EmptyDatabase
  BY <1>1 DEF EmptyDatabase, Exists, RequestOwnsOne
<1>2. CASE OldDatabase
  <2>1. PICK v \in OldVersions, q \in ProofIds, rid \in RequestIds :
          proofs = [s \in ProofIds |->
                      IF s = q THEN [rid |-> rid, version |-> v, status |-> "pending"]
                               ELSE Absent]
    BY <1>2 DEF OldDatabase
  <2>2. \A s \in ProofIds : Exists(s) => s = q
    BY <2>1 DEF Exists
  <2>. QED  BY <2>2 DEF RequestOwnsOne
<1>. QED  BY <1>1, <1>2 DEF Init

LEMMA OwnersStep ==
    ASSUME IInv, RequestOwnsOne, [Next]_vars
    PROVE  RequestOwnsOne'
<1>. SUFFICES ASSUME NEW p \in ProofIds, NEW q \in ProofIds, Exists(p)', Exists(q)',
                     proofs'[p].rid = proofs'[q].rid
              PROVE  p = q
  BY DEF RequestOwnsOne, Exists
<1>1. CASE Exists(p) /\ Exists(q)
  BY <1>1, ProofStays DEF RequestOwnsOne
<1>2. ASSUME NEW h \in Handlers, CommitProof(h)
      PROVE  p = q
  <2>1. pc[h] = "staged" /\ req[h].op = "create" /\ Write(h) /\ StoredAs(rows[h].row.rid) = {}
    BY <1>2 DEF CommitProof
  <2>2. \A s \in ProofIds : Exists(s) => proofs[s].rid # rows[h].row.rid
    BY <2>1 DEF StoredAs
  <2>3. \A s \in ProofIds : s # rows[h].pid => proofs'[s] = proofs[s]
    BY <2>1, WriteEffect
  <2>4. proofs'[rows[h].pid] = rows[h].row
    BY <2>1, WriteEffect
  <2>. QED  BY <1>1, <2>2, <2>3, <2>4 DEF Exists
<1>3. ASSUME NEW h \in Handlers, CommitEvent(h)
      PROVE  \A s \in ProofIds : Exists(s)' => Exists(s)
  <2>1. pc[h] = "staged" /\ req[h].op = "append" /\ Write(h)
    BY <1>3 DEF CommitEvent
  <2>2. StagedEventOK(h)
    BY <2>1 DEF IInv, HandlerOK, StagedOK
  <2>3. Exists(rows[h].pid)
    BY <2>2 DEF StagedEventOK
  <2>. QED  BY <2>1, <2>3, WriteEffect DEF Exists
<1>4. CASE UNCHANGED <<proofs, chain>>
  BY <1>1, <1>4 DEF Exists
<1>5. CASE UNCHANGED vars
  BY <1>4, <1>5 DEF vars
<1>. QED  BY <1>1, <1>2, <1>3, <1>4, <1>5, OtherSteps

(* A proof's first row and its request never change.                       *)
LEMMA OwnRequestStays ==
    ASSUME IInv, [Next]_vars, NEW p \in ProofIds, NEW r, OwnRequest(p, r)
    PROVE  /\ Exists(p)' /\ proofs'[p].rid = r.rid
           /\ chain'[p][1].actor = r.actor
           /\ proofs'[p].version = CurrentVersion
           /\ chain'[p][1].payload = r.payload /\ chain'[p][1].nonce = r.nonce
           /\ chain'[p][1].spelling = r.spelling
<1>1. Exists(p) /\ StatusFollowsChain
  BY DEF IInv, ChainsOK, OwnRequest
<1>2. chain[p] \in Seq(Event) /\ chain[p] # <<>>
  BY <1>1 DEF IInv, TypeOK, StatusFollowsChain
<1>3. 1 \in DOMAIN chain[p]
  BY <1>2
<1>4. chain'[p][1] = chain[p][1]
  BY <1>3, RowsStay
<1>. QED  BY <1>1, <1>4, ProofStays DEF OwnRequest, SameRequest

LEMMA CreationStep ==
    ASSUME IInv, [Next]_vars, NEW h \in Handlers, CreationOK(h)
    PROVE  CreationOK(h)'
<1>. SUFFICES ASSUME pc'[h] = "closing", reply'[h].code = "created"
              PROVE  reply'[h].pid \in ProofIds /\ OwnRequest(reply[h].pid, req[h])'
  BY DEF CreationOK
<1>1. CASE Unmoved(h)
  <2>1. reply[h].pid \in ProofIds /\ OwnRequest(reply[h].pid, req[h])
    BY <1>1 DEF Unmoved, CreationOK
  <2>. QED  BY <1>1, <2>1, OwnRequestStays DEF Unmoved, OwnRequest, SameRequest, Exists
<1>2. CASE Repeats(h)
  <2>1. PICK p \in StoredAs(req'[h].rid) :
           UNCHANGED <<proofs, chain>> /\ reply'[h] = IdempotencyReply(p, req'[h])
    BY <1>2 DEF Repeats
  <2>2. /\ chain[p][1].actor = req'[h].actor /\ SameRequest(p, req'[h])
        /\ reply'[h].pid = p
    BY <2>1 DEF IdempotencyReply, Refused, Created
  <2>3. p \in ProofIds /\ Exists(p) /\ proofs[p].rid = req'[h].rid
    BY <2>1 DEF StoredAs
  <2>. QED  BY <2>1, <2>2, <2>3 DEF OwnRequest, SameRequest, Exists
<1>3. CASE Registers(h)
  <2>. DEFINE p == rows[h].pid
              event == rows[h].event
  <2>1. /\ pc[h] = "staged" /\ req[h].op = "create" /\ Write(h) /\ req' = req
        /\ reply'[h] = Created(p)
    BY <1>3 DEF Registers, CommitProof
  <2>2. StagedProofOK(h) /\ StatusFollowsChain
    BY <2>1 DEF IInv, ChainsOK, HandlerOK, StagedOK
  <2>3. /\ p \in ProofIds /\ event \in Event /\ chain[p] = <<>>
        /\ chain'[p] = Append(chain[p], event)
        /\ proofs'[p] = rows[h].row /\ rows[h].row # Absent
    BY <2>1, <2>2, WriteEffect DEF StagedProofOK, StatusFollowsChain
  <2>4. chain'[p][1] = event
    BY <2>3
  <2>5. /\ event.actor = req[h].actor /\ event.payload = req[h].payload
        /\ event.spelling = req[h].spelling /\ event.nonce = req[h].nonce
        /\ rows[h].row.rid = req[h].rid /\ rows[h].row.version = CurrentVersion
    BY <2>2 DEF StagedProofOK, NewRow
  <2>6. reply'[h].pid = p
    BY <2>1 DEF Created
  <2>. QED  BY <2>1, <2>3, <2>4, <2>5, <2>6 DEF OwnRequest, SameRequest, Exists
<1>4. ~StartsReading(h)
  BY DEF StartsReading
<1>. QED  BY <1>1, <1>2, <1>3, <1>4, HandlerMoves, OtherAnswers, ExportAnswer
          DEF Moves, Promises

(* A request_id has one proof, and who is answered "created" has the proof *)
(* of its own request, for any number of copies of any requests in flight  *)
(* (create_proof).                                                         *)
THEOREM CreatedForItsRequest == Spec => []CreatedIsOwnRequest
<1>. DEFINE CreationsOK == RequestOwnsOne /\ \A h \in Handlers : CreationOK(h)
<1>1. Init => CreationsOK
  BY InitOwners DEF Init, CreationOK
<1>2. IInv /\ CreationsOK /\ [Next]_vars => CreationsOK'
  BY OwnersStep, CreationStep
<1>3. CreationsOK => CreatedIsOwnRequest
  BY DEF RequestOwnsOne, CreationOK, OwnRequest, CreatedIsOwnRequest
<1>. HIDE DEF CreationsOK
<1>. QED  BY <1>1, <1>2, <1>3, Invariance, PTL DEF Spec

-----------------------------------------------------------------------------
(* The answer an SDK may sign again after. *)

(* An event refused for its head alone passes every other check.           *)
LEMMA OnlyTheHead ==
    ASSUME NEW row, NEW events, NEW r, LockedRefusal(row, events, r) = "head_mismatch"
    PROVE  /\ row.status \notin ClosedStatuses
           /\ r.nonce \notin NoncesOf(events)
           /\ r.head # ChainHead(events)
           /\ AuthorizeEvent(events, r.actor, r.type, r.payload) = "ok"
           /\ ~SecondResult(events, r.type)
<1>1. AuthorizeEvent(events, r.actor, r.type, r.payload) # "head_mismatch"
  BY AuthorizeEventCodes
<1>. QED  BY <1>1 DEF LockedRefusal

(* Only the locked section of append_event says head_mismatch.             *)
LEMMA HeadMismatchSource ==
    ASSUME IInv, [Next]_vars, NEW h \in Handlers,
           reply'[h] = Refused("head_mismatch"), reply[h] = NoReply
    PROVE  RefuseEvent(h)
<1>1. reply'[h].code = "head_mismatch"
  BY DEF Refused
<1>2. ~AnswersNo(h)
  BY <1>1 DEF AnswersNo, Refused
<1>3. ~Unmoved(h) /\ reply'[h] \notin {reply[h], NoReply}
  BY ReplyAssumption DEF Unmoved
<1>4. ~StartsReading(h)
  <2>1. ASSUME NEW p \in ProofIds, GetProof(h, p), pc'[h] = "reading"
        PROVE  reply'[h] = reply[h]
    BY <2>1 DEF IInv, TypeOK, GetProof, Respond, Goto
  <2>. QED  BY <1>3, <2>1 DEF StartsReading
<1>5. ~Repeats(h) /\ ~Acknowledges(h) /\ ~Registers(h) /\ ~ReadEvents(h)
  BY <1>1, OtherAnswers, ExportAnswer
<1>. QED  BY <1>2, <1>3, <1>4, <1>5, HandlerMoves DEF Moves

(* Whenever a client is told head_mismatch, its event would be stored if   *)
(* it signed the present head: the proof is open, the nonce new, the actor *)
(* entitled, the event no second result (append_event; append_signed_event *)
(* relies on it).                                                          *)
THEOREM HeadMismatchMeansRetry == Spec => HeadMismatchIsRetryable
<1>. DEFINE Retryable(h) ==
              reply'[h] = Refused("head_mismatch") /\ reply[h] = NoReply =>
                LET r == req[h]
                    events == chain[r.pid]
                IN  /\ proofs[r.pid].status \in OpenStatuses
                    /\ r.nonce \notin NoncesOf(events)
                    /\ r.head # ChainHead(events)
                    /\ AuthorizeEvent(events, r.actor, r.type, r.payload) = "ok"
                    /\ ~SecondResult(events, r.type)
<1>1. ASSUME IInv, [Next]_vars, NEW h \in Handlers
      PROVE  Retryable(h)
  <2>. SUFFICES ASSUME reply'[h] = Refused("head_mismatch"), reply[h] = NoReply
                PROVE  LET r == req[h]
                           events == chain[r.pid]
                       IN  /\ proofs[r.pid].status \in OpenStatuses
                           /\ r.nonce \notin NoncesOf(events)
                           /\ r.head # ChainHead(events)
                           /\ AuthorizeEvent(events, r.actor, r.type, r.payload) = "ok"
                           /\ ~SecondResult(events, r.type)
    OBVIOUS
  <2>1. RefuseEvent(h)
    BY <1>1, HeadMismatchSource
  <2>. DEFINE refusal == LockedRefusal(proofs[req[h].pid], chain[req[h].pid], req[h])
  <2>2. refusal = "head_mismatch"
    <3>1. reply'[h] = Refused(refusal)
      BY <1>1, <2>1, RefusalAnswer
    <3>. HIDE DEF refusal
    <3>. QED  BY <3>1 DEF Refused
  <2>3. proofs[req[h].pid] \in ProofRow
    <3>1. pc[h] = "locked" /\ req[h].op = "append" /\ TypeOK /\ LocalOK(h)
      BY <1>1, <2>1 DEF RefuseEvent, IInv, HandlerOK
    <3>2. req[h] \in EventRequest /\ Exists(req[h].pid)
      BY <3>1 DEF LocalOK, EventRequest, ProofRequest
    <3>. QED  BY <3>1, <3>2 DEF TypeOK, EventRequest, Exists
  <2>4. proofs[req[h].pid].status \in Statuses
    BY <2>3 DEF ProofRow
  <2>. QED  BY <2>2, <2>4, OnlyTheHead DEF Statuses
<1>2. IInv /\ [Next]_vars => \A h \in Handlers : Retryable(h)
  BY <1>1
<1>. QED  BY <1>2, Invariance, PTL DEF Spec, HeadMismatchIsRetryable

-----------------------------------------------------------------------------
(* The format of a request is checked before the lock; a proof keeps its   *)
(* version.                                                                *)

FormatKept(h) ==
    pc[h] \in {"checked", "locked", "staged"} /\ req[h].op = "append" =>
        FormatOk(proofs[req[h].pid].version, req[h])

LEMMA FormatStep ==
    ASSUME IInv, [Next]_vars, NEW h \in Handlers, FormatKept(h)
    PROVE  FormatKept(h)'
<1>0. TypeOK /\ HandlerOK(h)
  BY DEF IInv
<1>. SUFFICES ASSUME pc'[h] \in {"checked", "locked", "staged"}, req'[h].op = "append"
              PROVE  FormatOk(proofs'[req'[h].pid].version, req'[h])
  BY DEF FormatKept, FormatOk
<1>1. CASE pc[h] \in {"checked", "locked"} /\ req'[h] = req[h]
  <2>1. req[h] \in EventRequest /\ Exists(req[h].pid)
    BY <1>0, <1>1 DEF HandlerOK, LocalOK, EventRequest, ProofRequest
  <2>2. req[h].pid \in ProofIds
    BY <2>1 DEF EventRequest
  <2>3. proofs'[req[h].pid].version = proofs[req[h].pid].version
    BY <2>1, <2>2, ProofStays
  <2>. QED  BY <1>1, <2>3 DEF FormatKept
<1>2. CASE pc[h] = "staged" /\ req'[h] = req[h]
  <2>1. StagedEventOK(h) /\ rows[h] \in StagedRows
    BY <1>0, <1>2 DEF HandlerOK, LocalOK, StagedOK
  <2>2. Exists(req[h].pid) /\ req[h].pid \in ProofIds
    BY <2>1 DEF StagedEventOK, StagedRows
  <2>3. proofs'[req[h].pid].version = proofs[req[h].pid].version
    BY <2>2, ProofStays
  <2>. QED  BY <1>2, <2>3 DEF FormatKept
<1>3. ASSUME NEW p \in ProofIds, NEW r, r.pid = p, PostEvent(h, p, r)
      PROVE  FormatOk(proofs'[req'[h].pid].version, req'[h])
  <2>1. req'[h] = r /\ proofs' = proofs
    BY <1>0, <1>3 DEF TypeOK, PostEvent, Receive
  <2>2. EarlyRefusal(proofs[p], r) = "ok"
    BY <1>0, <1>3 DEF TypeOK, PostEvent, Respond, Goto
  <2>3. FormatOk(proofs[p].version, r)
    BY <2>2 DEF EarlyRefusal
  <2>. QED  BY <1>3, <2>1, <2>3
<1>4. ASSUME NEW g \in Handlers, Arrive(g)
      PROVE  \/ pc[h] \in {"checked", "locked", "staged"} /\ req'[h] = req[h]
             \/ \E p \in ProofIds : \E r : r.pid = p /\ PostEvent(h, p, r)
  <2>1. ASSUME NEW p \in ProofIds, NEW r, r.pid = p, PostEvent(g, p, r), h # g
        PROVE  pc'[h] = pc[h] /\ req'[h] = req[h]
    BY <1>0, <2>1 DEF TypeOK, PostEvent, Receive, Respond, Goto
  <2>2. ASSUME NEW r, r.op = "create", PostProof(g, r)
        PROVE  h # g /\ pc'[h] = pc[h] /\ req'[h] = req[h]
    <3>1. req' = [req EXCEPT ![g] = r]
      BY <2>2 DEF PostProof, Receive
    <3>2. h # g
      BY <1>0, <2>2, <3>1 DEF TypeOK
    <3>. QED  BY <1>0, <2>2, <3>1, <3>2 DEF TypeOK, PostProof, Respond, Goto
  <2>3. ASSUME NEW p \in ProofIds, GetProof(g, p)
        PROVE  h # g /\ pc'[h] = pc[h] /\ req'[h] = req[h]
    BY <1>0, <2>3 DEF TypeOK, GetProof, Receive, Respond, Goto
  <2>. QED  BY <1>4, <2>1, <2>2, <2>3 DEF Arrive
<1>5. ASSUME NEW g \in Handlers, Serve(g)
      PROVE  pc[h] \in {"checked", "locked", "staged"} /\ req'[h] = req[h]
  <2>1. CASE BeginChainWrite(g) \/ StageEvent(g) \/ StageProof(g)
    BY <1>0, <2>1 DEF TypeOK, BeginChainWrite, StageEvent, StageProof, Goto
  <2>2. CASE BusyTimeout(g) \/ RefuseEvent(g) \/ CommitEvent(g) \/ CommitProof(g)
             \/ ReadRaced(g) \/ CommitFails(g) \/ ReadEvents(g)
    <3>1. \E answer : Respond(g, answer) /\ req' = req
      BY <2>2 DEF BusyTimeout, RefuseEvent, CommitEvent, CommitProof, ReadRaced,
                  CommitFails, ReadEvents
    <3>. QED  BY <1>0, <3>1 DEF TypeOK, Respond, Goto
  <2>3. CASE RollbackDuplicate(g) \/ CloseSession(g)
    BY <1>0, <2>3 DEF TypeOK, RollbackDuplicate, CloseSession, Goto
  <2>. QED  BY <1>5, <2>1, <2>2, <2>3 DEF Serve
<1>6. ~Crash
  BY DEF Crash
<1>7. CASE UNCHANGED vars
  BY <1>1, <1>2, <1>7 DEF vars
<1>. QED  BY <1>1, <1>2, <1>3, <1>4, <1>5, <1>6, <1>7 DEF Next

-----------------------------------------------------------------------------
(* Logs as images of chains. *)

EntriesOf(events) == [i \in DOMAIN events |-> Entry(events[i])]

LEMMA EntriesLength ==
    ASSUME NEW events \in Seq(Event)
    PROVE  /\ Len(EntriesOf(events)) = Len(events)
           /\ DOMAIN EntriesOf(events) = DOMAIN events
           /\ EntriesOf(events) = <<>> <=> events = <<>>
           /\ \A i \in DOMAIN events : EntriesOf(events)[i] = Entry(events[i])
<1>1. DOMAIN EntriesOf(events) = 1..Len(events) /\ Len(events) \in Nat
  BY DEF EntriesOf
<1>2. EntriesOf(events) \in Seq({Entry(events[i]) : i \in DOMAIN events})
  BY <1>1 DEF EntriesOf
<1>3. Len(EntriesOf(events)) = Len(events)
  BY <1>1, <1>2, LenProperties
<1>4. EntriesOf(events) = <<>> <=> events = <<>>
  BY <1>2, <1>3, EmptySeq
<1>. QED  BY <1>1, <1>3, <1>4 DEF EntriesOf

LEMMA EntriesAppend ==
    ASSUME NEW events \in Seq(Event), NEW e \in Event
    PROVE  EntriesOf(Append(events, e)) = Append(EntriesOf(events), Entry(e))
<1>. DEFINE S == {Entry(events[i]) : i \in DOMAIN events} \cup {Entry(e)}
            new == EntriesOf(Append(events, e))
            old == EntriesOf(events)
<1>1. old \in Seq(S) /\ Len(old) = Len(events)
  <2>1. old \in Seq(S)
    BY DEF EntriesOf
  <2>. QED  BY <2>1, EntriesLength
<1>2. Append(old, Entry(e)) \in Seq(S) /\ Len(Append(old, Entry(e))) = Len(events) + 1
      /\ \A i \in 1..(Len(events) + 1) :
           Append(old, Entry(e))[i] = IF i <= Len(events) THEN old[i] ELSE Entry(e)
  BY <1>1
<1>3. new \in Seq(S) /\ Len(new) = Len(events) + 1
      /\ \A i \in 1..(Len(events) + 1) :
           new[i] = IF i <= Len(events) THEN Entry(events[i]) ELSE Entry(e)
  <2>1. Append(events, e) \in Seq(Event) /\ Len(Append(events, e)) = Len(events) + 1
        /\ DOMAIN Append(events, e) = 1..(Len(events) + 1)
        /\ \A i \in 1..(Len(events) + 1) :
             Append(events, e)[i] = IF i <= Len(events) THEN events[i] ELSE e
    OBVIOUS
  <2>2. \A i \in 1..(Len(events) + 1) :
           new[i] = IF i <= Len(events) THEN Entry(events[i]) ELSE Entry(e)
    BY <2>1 DEF EntriesOf
  <2>3. new \in Seq(S)
    BY <2>1, <2>2 DEF EntriesOf
  <2>. QED  BY <2>1, <2>2, <2>3, EntriesLength
<1>4. \A i \in 1..Len(events) : old[i] = Entry(events[i])
  BY DEF EntriesOf
<1>5. \A i \in 1..(Len(events) + 1) : new[i] = Append(old, Entry(e))[i]
  BY <1>2, <1>3, <1>4
<1>. HIDE DEF new, old, S
<1>6. new = Append(old, Entry(e))
  BY <1>2, <1>3, <1>5, SeqEqual
<1>. QED  BY <1>6 DEF new, old

LEMMA FirstEntries ==
    /\ EntriesOf(<<>>) = <<>>
    /\ \A e \in Event : EntriesOf(<<e>>) = <<Entry(e)>>
<1>1. <<>> \in Seq(Event) /\ EntriesOf(<<>>) = <<>>
  <2>1. <<>> \in Seq(Event)
    OBVIOUS
  <2>. QED  BY <2>1, EntriesLength
<1>2. ASSUME NEW e \in Event
      PROVE  EntriesOf(<<e>>) = <<Entry(e)>>
  <2>1. Append(<<>>, e) = <<e>> /\ Append(<<>>, Entry(e)) = <<Entry(e)>>
    OBVIOUS
  <2>. QED  BY <1>1, <2>1, EntriesAppend
<1>. QED  BY <1>1, <1>2

(* The first state of a chain is the first state of a log.                 *)
LEMMA FirstLogs == ASSUME Init PROVE Log!LogInit
<1>1. \A e \in Event : Len(EntriesOf(<<e>>)) = 1 /\ EntriesOf(<<e>>)[1] = Entry(e)
  <2>1. \A e \in Event : Len(<<Entry(e)>>) = 1 /\ <<Entry(e)>>[1] = Entry(e)
    OBVIOUS
  <2>. QED  BY <2>1, FirstEntries
<1>2. EntriesOf(<<>>) = <<>>
  BY FirstEntries
<1>3. CASE EmptyDatabase
  <2>1. \A p \in ProofIds : chain[p] = <<>> /\ proofs[p].rid = NoRequestId
    BY <1>3 DEF EmptyDatabase, Absent
  <2>. QED  BY <1>2, <2>1 DEF Log!LogInit, EntriesOf
<1>4. CASE OldDatabase
  <2>1. PICK v \in OldVersions, q \in ProofIds, rid \in RequestIds, id \in EventIds,
             a \in Actors, b \in RequestPayloads, w \in SentSpellings, n \in Nonces :
          /\ proofs = [s \in ProofIds |->
                        IF s = q THEN [rid |-> rid, version |-> v, status |-> "pending"]
                                 ELSE Absent]
          /\ chain  = [s \in ProofIds |->
                        IF s = q
                        THEN <<OldRow(id, a, b, w,
                                      IF v \in LegacyVersions THEN NoNonce ELSE n)>>
                        ELSE <<>>]
    BY <1>4 DEF OldDatabase
  <2>. DEFINE e == OldRow(id, a, b, w, IF v \in LegacyVersions THEN NoNonce ELSE n)
  <2>2. e \in Event
    BY OldRowType, PayloadAssumption, SpellingsAssumption DEF RequestPayloads
  <2>3. Entry(e).type = "request.created"
    BY DEF Entry, OldRow, NewRow, RequestCreated
  <2>. HIDE DEF e
  <2>4. /\ chain[q] = <<e>> /\ proofs[q].rid = rid
        /\ \A p \in ProofIds : p # q => chain[p] = <<>> /\ proofs[p].rid = NoRequestId
    BY <2>1 DEF Absent, e
  <2>5. Len(EntriesOf(chain[q])) = 1 /\ EntriesOf(chain[q])[1].type = "request.created"
    BY <1>1, <2>2, <2>3, <2>4
  <2>. QED  BY <1>2, <2>4, <2>5 DEF Log!LogInit, EntriesOf
<1>. QED  BY <1>3, <1>4 DEF Init

(* A commit of a new proof registers a log.                                *)
LEMMA CommitProofRegisters ==
    ASSUME IInv, NEW h \in Handlers, CommitProof(h)
    PROVE  Log!LogNext
<1>. DEFINE p == rows[h].pid
            event == rows[h].event
            row == rows[h].row
<1>1. /\ pc[h] = "staged" /\ req[h].op = "create" /\ Write(h) /\ StoredAs(row.rid) = {}
  BY DEF CommitProof
<1>2. StagedProofOK(h) /\ StatusFollowsChain /\ TypeOK
  BY <1>1 DEF IInv, ChainsOK, HandlerOK, StagedOK
<1>3. /\ p \in ProofIds /\ event \in Event /\ row \in ProofRow
      /\ proofs'[p] = row /\ chain'[p] = Append(chain[p], event)
      /\ \A q \in ProofIds : q # p => proofs'[q] = proofs[q] /\ chain'[q] = chain[q]
  BY <1>1, WriteEffect
<1>4. chain[p] = <<>> /\ row.rid \in RequestIds /\ row.version = CurrentVersion
      /\ event.type = RequestCreated
  BY <1>2, <1>3 DEF StagedProofOK, StatusFollowsChain, NewRow, ProofRow
<1>5. \A q \in ProofIds : proofs[q].rid # row.rid
  <2>. SUFFICES ASSUME NEW q \in ProofIds, proofs[q].rid = row.rid
                PROVE  FALSE
    OBVIOUS
  <2>1. ~Exists(q)
    BY <1>1 DEF StoredAs
  <2>. QED  BY <1>4, <2>1, NullsAssumption DEF Exists, Absent
<1>. HIDE DEF p, event, row
<1>6. chain'[p] = <<event>>
  BY <1>3, <1>4
<1>7. EntriesOf(chain[p]) = <<>> /\ EntriesOf(chain'[p]) = <<Entry(event)>>
  BY <1>3, <1>4, <1>6, FirstEntries
<1>. DEFINE before == [q \in ProofIds |-> EntriesOf(chain[q])]
            after == [q \in ProofIds |-> EntriesOf(chain'[q])]
<1>8. after = [before EXCEPT ![p] = <<Entry(event)>>]
  BY <1>3, <1>7
<1>9. [q \in ProofIds |-> proofs'[q].rid]
        = [[q \in ProofIds |-> proofs[q].rid] EXCEPT ![p] = row.rid]
  BY <1>3
<1>10. [q \in ProofIds |-> proofs'[q].version = CurrentVersion]
        = [[q \in ProofIds |-> proofs[q].version = CurrentVersion] EXCEPT ![p] = TRUE]
  BY <1>3, <1>4
<1>11. Entry(event).type = "request.created"
  BY <1>4 DEF Entry, RequestCreated
<1>12. after[p] = <<Entry(event)>> /\ before[p] = <<>>
  BY <1>3, <1>7
<1>13. /\ before = [q \in ProofIds |-> [i \in DOMAIN chain[q] |-> Entry(chain[q][i])]]
       /\ after = [q \in ProofIds |-> [i \in DOMAIN chain'[q] |-> Entry(chain'[q][i])]]
  BY DEF EntriesOf
<1>. HIDE DEF before, after
<1>14. /\ after[p][Len(after[p])] = Entry(event)
       /\ after[p] # before[p] /\ Len(after[p]) > 0
  BY <1>12
<1>15. Log!Added(p) = Entry(event)
  BY <1>13, <1>14 DEF Log!Added
<1>16. \A q \in ProofIds : [s \in ProofIds |-> proofs[s].rid][q] # row.rid
  BY <1>5
<1>17. Log!Register(p, row.rid, Log!Added(p))
  BY <1>3, <1>8, <1>9, <1>10, <1>11, <1>12, <1>13, <1>15, <1>16 DEF Log!Register
<1>18. /\ [q \in ProofIds |-> [i \in DOMAIN chain[q] |-> Entry(chain[q][i])]]'[p]
            # [q \in ProofIds |-> [i \in DOMAIN chain[q] |-> Entry(chain[q][i])]][p]
       /\ Len([q \in ProofIds |-> [i \in DOMAIN chain[q] |-> Entry(chain[q][i])]]'[p]) > 0
  BY <1>13, <1>14
<1>19. \E rid \in RequestIds : Log!Register(p, rid, Log!Added(p))
  BY <1>4, <1>17
<1>. QED  BY <1>3, <1>18, <1>19 DEF Log!LogNext, Log!Register, Log!Added

-----------------------------------------------------------------------------
(* Who is entitled to an entry. *)

(* A log names whom its chain names: only listed actors, only in accepted  *)
(* delegations, none in the first row.                                     *)
LEMMA NamesOfLog ==
    ASSUME NEW events \in Seq(Event), events # <<>>, Lawful(events)
    PROVE  Log!Named(EntriesOf(events)) = NamedBefore(events, Len(events) + 1)
<1>. DEFINE entries == EntriesOf(events)
<1>1. /\ DOMAIN entries = DOMAIN events /\ DOMAIN events = 1..Len(events)
      /\ Len(events) \in Nat /\ 1 \in DOMAIN events
      /\ \A i \in DOMAIN events : entries[i] = Entry(events[i])
  BY EntriesLength
<1>2. \A i \in DOMAIN events :
        /\ entries[i].type = events[i].type /\ entries[i].actor = events[i].actor
        /\ entries[i].payload = events[i].payload
  BY <1>1 DEF Entry
<1>3. (Len(events) + 1) - 1 = Len(events)
  BY <1>1
<1>4. events[1].type = RequestCreated
  BY <1>1 DEF Lawful, RowsEntitled
<1>5. \A i \in DOMAIN events : events[i].payload \in Payloads
  <2>1. \A i \in DOMAIN events : events[i] \in Event
    OBVIOUS
  <2>. QED  BY <2>1 DEF Event
<1>. HIDE DEF entries
<1>6. ASSUME NEW d \in Log!Named(entries)
      PROVE  d \in NamedBefore(events, Len(events) + 1)
  <2>1. PICK i \in DOMAIN entries :
              /\ entries[i].type = "task.delegated"
              /\ entries[i].actor = entries[1].actor
              /\ \E k \in DOMAIN entries[i].payload.dids : d = entries[i].payload.dids[k]
    BY DEF Log!Named, Log!Creator
  <2>2. i \in DOMAIN events /\ i # 1
    BY <1>1, <1>2, <1>4, <2>1 DEF RequestCreated
  <2>3. /\ events[i].type = TaskDelegated /\ events[i].actor = events[1].actor
        /\ d \in Listed(events[i].payload)
    BY <1>1, <1>2, <2>1, <2>2 DEF TaskDelegated, Listed
  <2>4. i \in 2..Len(events)
    BY <1>1, <2>2
  <2>5. d \in Actors
    BY <1>5, <2>2, <2>3, <2>4, ListedActors DEF Lawful, ListsAccepted
  <2>. QED  BY <1>3, <2>3, <2>4, <2>5 DEF NamedBefore
<1>7. ASSUME NEW d \in NamedBefore(events, Len(events) + 1)
      PROVE  d \in Log!Named(entries)
  <2>1. PICK i \in 2..Len(events) :
              /\ events[i].type = TaskDelegated /\ events[i].actor = events[1].actor
              /\ d \in Listed(events[i].payload)
    BY <1>3 DEF NamedBefore
  <2>2. i \in DOMAIN entries /\ i \in DOMAIN events
    BY <1>1
  <2>3. PICK k \in DOMAIN events[i].payload.dids : d = events[i].payload.dids[k]
    BY <2>1 DEF Listed
  <2>4. /\ entries[i].type = "task.delegated" /\ entries[i].actor = entries[1].actor
        /\ entries[i].payload = events[i].payload
    BY <1>1, <1>2, <2>1, <2>2 DEF TaskDelegated
  <2>. QED  BY <2>2, <2>3, <2>4 DEF Log!Named, Log!Creator
<1>. QED  BY <1>6, <1>7 DEF entries

LEMMA SameCardinality == \A S : Log!Cardinality(S) = Cardinality(S)
BY DEF Log!Cardinality, Cardinality

(* What LockedRefusal accepts, ProofLog calls entitled.                    *)
LEMMA AcceptedIsEntitled ==
    ASSUME NEW events \in Seq(Event), NEW e \in Event, events # <<>>, Lawful(events),
           AuthorizeEvent(events, e.actor, e.type, e.payload) = "ok",
           ~SecondResult(events, e.type)
    PROVE  Log!Entitled(EntriesOf(events), Entry(e))
<1>. DEFINE entries == EntriesOf(events)
            new == Append(events, e)
<1>1. Lawful(new)
  BY AcceptedKeepsLawful
<1>2. new \in Seq(Event) /\ new # <<>> /\ new[1] = events[1] /\ Len(new) = Len(events) + 1
  OBVIOUS
<1>3. /\ HasCreator(events) /\ e.type # RequestCreated
      /\ \/ e.actor = events[1].actor
         \/ e.actor \in DelegatesOf(events) /\ e.type \notin CreatorOnlyTypes
  BY Authorized DEF CreatorOf
<1>4. DelegatesOf(events) \subseteq NamedBefore(events, Len(events) + 1)
  BY <1>3, DelegatesAreNamed DEF Lawful
<1>5. Log!Named(entries) = NamedBefore(events, Len(events) + 1)
  BY NamesOfLog
<1>6. Log!Named(EntriesOf(new)) = NamedBefore(new, Len(new) + 1)
  BY <1>1, <1>2, NamesOfLog
<1>7. EntriesOf(new) = Append(entries, Entry(e))
  BY EntriesAppend
<1>8. /\ DOMAIN entries = DOMAIN events /\ 1 \in DOMAIN events
      /\ \A i \in DOMAIN events :
           entries[i].type = events[i].type /\ entries[i].actor = events[i].actor
  <2>1. /\ DOMAIN entries = DOMAIN events
        /\ \A i \in DOMAIN events : entries[i] = Entry(events[i])
    BY EntriesLength
  <2>2. 1 \in DOMAIN events
    OBVIOUS
  <2>. QED  BY <2>1, <2>2 DEF Entry
<1>9. Cardinality(NamedBefore(new, Len(new) + 1) \ {new[1].actor}) <= MaxDelegates
  BY <1>1, <1>2 DEF Lawful, NamesCapped
<1>10. Entry(e).type = e.type /\ Entry(e).actor = e.actor
  BY DEF Entry
<1>11. e.type = "result.created" => \A i \in DOMAIN entries : entries[i].type # "result.created"
  BY <1>8 DEF SecondResult, ResultCreated
<1>. HIDE DEF entries, new
<1>12. Cardinality(Log!Named(Append(entries, Entry(e))) \ {entries[1].actor}) <= MaxDelegates
  BY <1>2, <1>6, <1>7, <1>8, <1>9
<1>13. \/ Entry(e).actor = entries[1].actor
       \/ Entry(e).actor \in Log!Named(entries) /\ Entry(e).type \notin CreatorOnlyTypes
  BY <1>3, <1>4, <1>5, <1>8, <1>10
<1>14. Entry(e).type # "request.created"
  BY <1>3, <1>10 DEF RequestCreated
<1>15. Log!Entitled(entries, Entry(e))
  BY <1>10, <1>11, <1>12, <1>13, <1>14, SameCardinality DEF Log!Entitled, Log!Creator
<1>. QED  BY <1>15 DEF entries

-----------------------------------------------------------------------------
(* A commit of an event extends a log. *)

LEMMA CommitEventExtends ==
    ASSUME IInv, ChainsLawful, NEW h \in Handlers, FormatKept(h), CommitEvent(h),
           [Next]_vars
    PROVE  Log!LogNext
<1>. DEFINE p == req[h].pid
            event == rows[h].event
            r == req[h]
            events == chain[p]
            n == Len(events)
<1>1. /\ pc[h] = "staged" /\ r.op = "append" /\ Write(h)
  BY DEF CommitEvent
<1>2. /\ StagedEventOK(h) /\ \A q \in ProofIds : event.id \notin IdsOf(chain[q])
      /\ StatusFollowsChain /\ TypeOK
  BY <1>1 DEF IInv, ChainsOK, HandlerOK, StagedOK
<1>3. /\ p = rows[h].pid /\ p \in ProofIds /\ event \in Event /\ events \in Seq(Event)
      /\ chain'[p] = Append(events, event)
      /\ \A q \in ProofIds : q # p => proofs'[q] = proofs[q] /\ chain'[q] = chain[q]
  BY <1>1, <1>2, WriteEffect DEF StagedEventOK
<1>4. /\ Exists(p) /\ LockedRefusal(proofs[p], events, r) = "ok"
      /\ event.type = r.type /\ event.actor = r.actor /\ event.payload = r.payload
      /\ event.nonce = r.nonce /\ event.head = r.head
  BY <1>2 DEF StagedEventOK, NewRow
<1>5. /\ events # <<>> /\ n \in Nat /\ n >= 1 /\ n \in DOMAIN events /\ DOMAIN events = 1..n
  <2>1. events # <<>>
    BY <1>2, <1>3, <1>4 DEF StatusFollowsChain
  <2>. QED  BY <1>3, <2>1
<1>6. FormatOk(proofs[p].version, r)
  BY <1>1 DEF FormatKept
<1>7. /\ proofs[p].status \notin ClosedStatuses
      /\ AuthorizeEvent(events, r.actor, r.type, r.payload) = "ok"
      /\ r.nonce \notin NoncesOf(events)
      /\ ~SecondResult(events, r.type)
      /\ proofs[p].version = CurrentVersion => r.head = ChainHead(events)
  BY <1>4 DEF LockedRefusal
<1>8. events[n].type \notin ClosingTypes
  <2>1. proofs[p].status = StatusOf(events)
    BY <1>2, <1>3, <1>4 DEF StatusFollowsChain
  <2>. QED  BY <1>7, <2>1 DEF StatusOf, ClosedStatuses, ClosingTypes
<1>9. /\ proofs'[p].rid = proofs[p].rid /\ proofs'[p].version = proofs[p].version
  BY <1>3, <1>4, ProofStays
<1>10. Lawful(events)
  BY <1>3 DEF ChainsLawful
<1>. HIDE DEF p, event, r, events, n
<1>. DEFINE entries == EntriesOf(events)
            entry == Entry(event)
<1>11. /\ DOMAIN entries = DOMAIN events /\ Len(entries) = n /\ entries # <<>>
       /\ \A i \in DOMAIN events : entries[i] = Entry(events[i])
  BY <1>3, <1>5, EntriesLength DEF n
<1>12. \A i \in DOMAIN events :
         /\ entries[i].id = events[i].id /\ entries[i].type = events[i].type
         /\ entries[i].nonce = events[i].nonce
  BY <1>11 DEF Entry
<1>13. Log!Entitled(entries, entry)
  BY <1>3, <1>4, <1>5, <1>7, <1>10, AcceptedIsEntitled
<1>14. EntriesOf(chain'[p]) = Append(entries, entry)
  BY <1>3, EntriesAppend
<1>15. entry.id = event.id /\ entry.nonce = r.nonce /\ entry.head = r.head
  BY <1>4 DEF Entry
<1>16. entry.head = IF proofs[p].version = CurrentVersion THEN entries[n].id ELSE NoHead
  BY <1>5, <1>6, <1>7, <1>12, <1>15 DEF FormatOk, ChainHead, LinkHash, n
<1>17. \A i \in DOMAIN entries : entries[i].nonce # entry.nonce
  BY <1>7, <1>11, <1>12, <1>15 DEF NoncesOf
<1>. HIDE DEF entry
<1>18. ASSUME NEW q \in ProofIds, NEW i \in DOMAIN EntriesOf(chain[q])
       PROVE  EntriesOf(chain[q])[i].id # entry.id
  <2>1. chain[q] \in Seq(Event) /\ event.id \notin IdsOf(chain[q])
    BY <1>2 DEF TypeOK, event
  <2>2. i \in DOMAIN chain[q] /\ EntriesOf(chain[q])[i] = Entry(chain[q][i])
    BY <2>1, EntriesLength
  <2>3. EntriesOf(chain[q])[i].id = chain[q][i].id
    BY <2>2 DEF Entry
  <2>. QED  BY <1>15, <2>1, <2>2, <2>3 DEF IdsOf
<1>. DEFINE before == [q \in ProofIds |-> EntriesOf(chain[q])]
            after == [q \in ProofIds |-> EntriesOf(chain'[q])]
<1>19. after = [before EXCEPT ![p] = Append(@, entry)]
  BY <1>3, <1>14 DEF events
<1>20. [q \in ProofIds |-> proofs'[q].rid] = [q \in ProofIds |-> proofs[q].rid]
  BY <1>3, <1>9
<1>21. [q \in ProofIds |-> proofs'[q].version = CurrentVersion]
         = [q \in ProofIds |-> proofs[q].version = CurrentVersion]
  BY <1>3, <1>9
<1>22. before[p] = entries /\ after[p] = Append(entries, entry)
  BY <1>3, <1>14 DEF events
<1>23. /\ before = [q \in ProofIds |-> [i \in DOMAIN chain[q] |-> Entry(chain[q][i])]]
       /\ after = [q \in ProofIds |-> [i \in DOMAIN chain'[q] |-> Entry(chain'[q][i])]]
  BY DEF EntriesOf
<1>24. \A q \in ProofIds : \A i \in DOMAIN before[q] : before[q][i].id # entry.id
  BY <1>18
<1>25. \E S : entries \in Seq(S) /\ entry \in S
  <2>. DEFINE S == {Entry(events[i]) : i \in DOMAIN events} \cup {entry}
  <2>1. entries \in Seq(S) /\ entry \in S
    BY <1>3 DEF EntriesOf
  <2>. QED  BY <2>1
<1>. HIDE DEF before, after, entries
<1>26. /\ after[p][Len(after[p])] = entry
       /\ after[p] # before[p] /\ Len(after[p]) > 0
  <2>1. PICK S : entries \in Seq(S) /\ entry \in S
    BY <1>25
  <2>2. Len(Append(entries, entry)) = Len(entries) + 1 /\ Len(entries) \in Nat
        /\ Append(entries, entry)[Len(entries) + 1] = entry
    BY <2>1
  <2>. QED  BY <1>22, <2>2
<1>27. Log!Added(p) = entry
  BY <1>23, <1>26 DEF Log!Added
<1>28. before[p] # <<>> /\ before[p][Len(before[p])].type \notin ClosingTypes
       /\ before[p][Len(before[p])].id = entries[n].id
  BY <1>5, <1>8, <1>11, <1>12, <1>22
<1>29. entry.head = IF [q \in ProofIds |-> proofs[q].version = CurrentVersion][p]
                    THEN before[p][Len(before[p])].id ELSE NoHead
  BY <1>3, <1>16, <1>28
<1>30. Log!Extend(p, Log!Added(p))
  <2>1. /\ before[p] # <<>>
        /\ before[p][Len(before[p])].type \notin ClosingTypes
        /\ \A i \in DOMAIN before[p] : before[p][i].nonce # entry.nonce
        /\ Log!Entitled(before[p], entry)
    BY <1>13, <1>17, <1>22, <1>28
  <2>2. /\ after = [before EXCEPT ![p] = Append(@, entry)]
        /\ [q \in ProofIds |-> proofs[q].rid]' = [q \in ProofIds |-> proofs[q].rid]
        /\ [q \in ProofIds |-> proofs[q].version = CurrentVersion]'
             = [q \in ProofIds |-> proofs[q].version = CurrentVersion]
    BY <1>19, <1>20, <1>21
  <2>3. Log!Extend(p, entry)
    <3>1. /\ [q \in ProofIds |-> [i \in DOMAIN chain[q] |-> Entry(chain[q][i])]] = before
          /\ [q \in ProofIds |-> [i \in DOMAIN chain[q] |-> Entry(chain[q][i])]]' = after
      BY <1>23
    <3>. QED  BY <2>1, <2>2, <3>1, <1>24, <1>29, Zenon DEF Log!Extend
  <2>. QED  BY <1>27, <2>3, Zenon DEF Log!Extend
<1>. QED  BY <1>3, <1>23, <1>26, <1>30 DEF Log!LogNext, Log!Extend, Log!Added

-----------------------------------------------------------------------------
(* The proof API keeps the promise of ProofLog, for any number of          *)
(* handlers, proofs, clients and rows: what clients see of it is a set of  *)
(* logs that grow by one entitled entry at a time.                         *)
THEOREM ImplementsProofLog == Spec => ImplementsLog
<1>. DEFINE FormatsKept == \A h \in Handlers : FormatKept(h)
            LInv == IInv /\ ChainsLawful /\ FormatsKept
<1>1. Init => ChainsLawful /\ FormatsKept
  BY InitChains, FirstRowsLawful DEF Init, ChainsLawful, FormatKept
<1>2. LInv /\ [Next]_vars => LInv'
  BY NextInvariant, LawfulStep, FormatStep
<1>3. ASSUME LInv, [Next]_vars
      PROVE  Log!LogNext \/ UNCHANGED Log!logVars
  <2>1. CASE UNCHANGED <<proofs, chain>>
    BY <2>1 DEF Log!logVars
  <2>2. CASE UNCHANGED vars
    BY <2>1, <2>2 DEF vars
  <2>3. CASE \E h \in Handlers : CommitEvent(h)
    BY <1>3, <2>3, CommitEventExtends
  <2>4. CASE \E h \in Handlers : CommitProof(h)
    BY <1>3, <2>4, CommitProofRegisters
  <2>. QED  BY <1>3, <2>1, <2>2, <2>3, <2>4, OtherSteps
<1>. HIDE DEF FormatsKept
<1>4. Init => Log!LogInit
  BY FirstLogs
<1>5. LInv /\ [Next]_vars => [Log!LogNext]_(Log!logVars)
  BY <1>3
<1>6. Init => LInv
  BY <1>1, InitInvariant
<1>. HIDE DEF LInv
<1>. QED  BY <1>2, <1>4, <1>5, <1>6, PTL DEF Spec, ImplementsLog, Log!LogSpec
=============================================================================
