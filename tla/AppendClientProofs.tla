------------------------- MODULE AppendClientProofs -------------------------
(***************************************************************************)
(* Proofs that the answers of the SDK's append_signed_event are true and   *)
(* stay true, for any number of clients, calls, retries and handlers, on a *)
(* network that keeps abandoned requests for as long as it likes.          *)
(*                                                                         *)
(* The argument: a row enters the chain only right after the head its      *)
(* signer signed. So it is enough to know, of every request of a client    *)
(* that may still be served (Live), that the head it signed is in the      *)
(* chain, and how far down (LiveSeen). When the API refuses the head the   *)
(* SDK has just read, every live request of the client is signed over that *)
(* head or an earlier one and the chain has moved past all of them         *)
(* (Stale): none can be stored any more.                                   *)
(***************************************************************************)
EXTENDS AppendClient, AnswerProofs

-----------------------------------------------------------------------------
(* The invariant. *)

CallRecord ==
    [st : {"idle"} \cup Waiting \cup Finished, n : Nat,
     head : EventIds \cup {NoHead}, read : BOOLEAN, left : Nat, since : Nat,
     current : EventIds \cup {NoHead}, firsts : SUBSET EventIds]

ClientTypes ==
    /\ wants \in [Clients -> SentTypes]
    /\ made \in Nat
    /\ calls \in [Clients -> CallRecord]
    /\ DOMAIN serving = Handlers

(* The proof the clients append to is there, its first row is nobody's, and *)
(* no link appears in it twice.                                             *)
TheProofOK ==
    /\ Exists(TheProof) /\ proofs[TheProof].version = CurrentVersion
    /\ chain[TheProof] # <<>> /\ chain[TheProof][1].nonce = FirstNonce
    /\ \A i, j \in DOMAIN chain[TheProof] :
         chain[TheProof][i].id = chain[TheProof][j].id => i = j

(* A link among the first k of the chain.                                  *)
Seen(id, k) ==
    \E i \in DOMAIN chain[TheProof] : i <= k /\ chain[TheProof][i].id = id

(* A request that may still be stored: in transit, or with a handler that  *)
(* has not decided.                                                        *)
Deciding == {"checked", "locked", "staged"}
Live(r) ==
    \/ \E m \in net : m.req = r
    \/ \E h \in Handlers : pc[h] \in Deciding /\ req[h] = r

LiveSeen(c, k) ==
    \A head \in EventIds : Live(SignedEvent(c, head)) => Seen(head, k)

(* The event is not stored and none of its requests can be.                *)
Stale(c) == RowsOf(c) = {} /\ LiveSeen(c, Len(chain[TheProof]) - 1)

(* A message, and when its call waits for it, what the call waits for.     *)
MessageOK(m) ==
    /\ m.from \in Clients /\ m.call \in Nat /\ m.call <= calls[m.from].n
    /\ m = Message(m.from, m.call, m.req)
    /\ \/ m.req = HeadQuery
       \/ \E head \in EventIds : m.req = SignedEvent(m.from, head)
    /\ Awaited(m) =>
         m.req = IF calls[m.from].st = "posting"
                 THEN SignedEvent(m.from, calls[m.from].head) ELSE HeadQuery

(* A handler answers one connection at a time, and only its own request is *)
(* outstanding when the call waits.                                        *)
Connection(h) == {serving[h]} \ {NoClient}

ServingOK(h) ==
    \A m \in Connection(h) :
        /\ MessageOK(m)
        /\ pc[h] # "idle" /\ req[h] = m.req
        /\ Awaited(m) =>
             /\ m \notin net
             /\ \A g \in Handlers : serving[g] = m => g = h

RequestOK(h) ==
    pc[h] # "idle" =>
        \/ req[h] = HeadQuery
        \/ \E c \in Clients, head \in EventIds : req[h] = SignedEvent(c, head)

(* What an answer on its way means for the call that waits for it.         *)
AnswerOK(h) ==
    \A m \in Connection(h) : pc[h] = "closing" /\ Awaited(m) =>
        LET c == m.from
        IN  /\ reply[h].code = "head_mismatch" =>
                 /\ calls[c].st = "posting"
                 /\ Seen(calls[c].head, Len(chain[TheProof]) - 1)
                 /\ calls[c].read => Stale(c)
            /\ reply[h].code = "exported" /\ calls[c].st # "posting" =>
                 calls[c].since <= Len(reply[h].events)

HeadReadOK(c, k) ==
    /\ k >= calls[c].since
    /\ chain[TheProof][k].id = calls[c].head
    /\ LiveSeen(c, k)

StoredFor(c, i) ==
    /\ chain[TheProof][i].nonce = c /\ chain[TheProof][i].type = wants[c]
    /\ chain[TheProof][i].prev = calls[c].head

NewHeadOK(c, k) ==
    /\ k >= calls[c].since
    /\ chain[TheProof][k].id = calls[c].current
    /\ calls[c].current # calls[c].head

ClosingOK(c) ==
    wants[c] \in ClosingTypes =>
        /\ \A head \in EventIds :
             Live(SignedEvent(c, head)) => head \in calls[c].firsts
        /\ \A i \in RowsOf(c) : chain[TheProof][i].prev \in calls[c].firsts

CallOK(c) ==
    LET call == calls[c]
    IN  /\ call.n <= made
        /\ LiveSeen(c, Len(chain[TheProof]))
        /\ call.st \in {"reading", "rereading"} =>
             call.since <= Len(chain[TheProof]) /\ LiveSeen(c, call.since)
        /\ call.st = "posting" /\ call.read => \E k \in DOMAIN chain[TheProof] : HeadReadOK(c, k)
        /\ call.st = "rereading" => Seen(call.head, call.since - 1)
        /\ call.st \in {"rereading", "mismatch"} /\ call.read => Stale(c)
        /\ call.st = "mismatch" => \E k \in DOMAIN chain[TheProof] : NewHeadOK(c, k)
        /\ call.st = "returned" => \E i \in DOMAIN chain[TheProof] : StoredFor(c, i)
        /\ ClosingOK(c)

AnswersOK ==
    \A h \in Handlers : AcknowledgementOK(h) /\ ReadingOK(h) /\ ExportOK(h)

NetworkOK ==
    /\ \A m \in net : MessageOK(m)
    /\ \A h \in Handlers : ServingOK(h) /\ RequestOK(h) /\ AnswerOK(h)

CInv ==
    /\ IInv /\ AnswersOK
    /\ ClientTypes /\ TheProofOK
    /\ NetworkOK
    /\ \A c \in Clients : CallOK(c)

-----------------------------------------------------------------------------
(* The clients' requests. *)

LEMMA SignedEventType ==
    ASSUME ClientTypes, NEW c \in Clients, NEW head \in EventIds
    PROVE  /\ SignedEvent(c, head) \in EventRequest
           /\ SignedEvent(c, head).op = "append"
           /\ SignedEvent(c, head).pid = TheProof
           /\ SignedEvent(c, head).nonce = c
           /\ SignedEvent(c, head).head = head
           /\ SignedEvent(c, head).type = wants[c]
<1>1. wants[c] \in EventTypes /\ c \in Nonces /\ Author \in Actors /\ Body \in Payloads
  BY ClientsAssumption, SentTypesAssumption, SignersAssumption, PayloadAssumption
     DEF ClientTypes, RequestPayloads
<1>. QED  BY <1>1, ClientsAssumption DEF SignedEvent, EventRequest, Spellings

(* Requests of different clients, or over different heads, are different.  *)
LEMMA SignedEventInjective ==
    ASSUME NEW c, NEW head, NEW d, NEW other
    PROVE  /\ SignedEvent(c, head) = SignedEvent(d, other) => c = d /\ head = other
           /\ SignedEvent(c, head) # HeadQuery
<1>1. SignedEvent(c, head).nonce = c /\ SignedEvent(c, head).head = head
      /\ SignedEvent(c, head).op = "append"
  BY DEF SignedEvent
<1>2. SignedEvent(d, other).nonce = d /\ SignedEvent(d, other).head = other
  BY DEF SignedEvent
<1>3. HeadQuery.op = "get"
  BY DEF HeadQuery
<1>. QED  BY <1>1, <1>2, <1>3

LEMMA QueryType == HeadQuery \in ReadRequest /\ HeadQuery.op = "get" /\ HeadQuery.pid = TheProof
BY ClientsAssumption DEF HeadQuery, ReadRequest

(* What is served is a request of a client, for TheProof.                  *)
LEMMA ServedRequest ==
    ASSUME CInv, NEW h \in Handlers, pc[h] # "idle"
    PROVE  /\ req[h].pid = TheProof
           /\ req[h] \notin ProofRequest
           /\ req[h].op # "create"
           /\ req[h].op = "append" =>
                \E c \in Clients, head \in EventIds : req[h] = SignedEvent(c, head)
<1>1. RequestOK(h) /\ ClientTypes
  BY DEF CInv, NetworkOK
<1>2. CASE req[h] = HeadQuery
  BY <1>2, QueryType DEF ProofRequest
<1>3. ASSUME NEW c \in Clients, NEW head \in EventIds, req[h] = SignedEvent(c, head)
      PROVE  req[h].pid = TheProof /\ req[h].op = "append" /\ req[h] \notin ProofRequest
  BY <1>1, <1>3, SignedEventType DEF ProofRequest
<1>. QED  BY <1>1, <1>2, <1>3 DEF RequestOK

-----------------------------------------------------------------------------
(* The initial states. *)

LEMMA ClientInitInvariant == ClientInit => CInv
<1>. SUFFICES ASSUME ClientInit PROVE CInv
  OBVIOUS
<1>1. AllIdle
  BY DEF ClientInit, AllIdle
<1>2. /\ proofs = OnlyFor(TheProof, [rid |-> FirstRequest, version |-> CurrentVersion,
                                     status |-> "pending"], Absent)
      /\ chain = OnlyFor(TheProof, <<OldRow(FirstId, Author, Body, "bare", FirstNonce)>>,
                         <<>>)
  BY DEF ClientInit, OnlyFor
<1>3. /\ CurrentVersion \in Versions /\ TheProof \in ProofIds
      /\ FirstRequest \in RequestIds /\ FirstId \in EventIds
      /\ Author \in Actors /\ Body \in Payloads /\ FirstNonce \in Nonces \cup {NoNonce}
      /\ "bare" \in Spellings
  BY ClientsAssumption, SignersAssumption, PayloadAssumption
     DEF Versions, RequestPayloads, Spellings
<1>4. /\ proofs \in [ProofIds -> ProofRow \cup {Absent}]
      /\ chain \in [ProofIds -> Seq(Event)] /\ ChainsOK /\ Exists(TheProof)
  BY <1>2, <1>3, OneProofTables
<1>5. IInv
  BY <1>1, <1>4, IdleInvariant
<1>6. AnswersOK
  BY <1>1 DEF AllIdle, AnswersOK, AcknowledgementOK, ReadingOK, ExportOK
<1>7. ClientTypes
  BY DEF ClientInit, ClientTypes, CallRecord, NoCall
<1>. DEFINE row == OldRow(FirstId, Author, Body, "bare", FirstNonce)
<1>8. row.nonce = FirstNonce
  BY DEF OldRow, NewRow
<1>. HIDE DEF row
<1>9. proofs[TheProof].version = CurrentVersion /\ chain[TheProof] = <<row>>
  BY <1>2, <1>3 DEF OnlyFor, row
<1>10. TheProofOK
  BY <1>4, <1>8, <1>9 DEF TheProofOK
<1>11. NetworkOK
  BY <1>1 DEF ClientInit, AllIdle, NetworkOK, Connection, ServingOK, RequestOK, AnswerOK
<1>12. \A r : ~Live(r)
  BY <1>1 DEF ClientInit, AllIdle, Live, Deciding
<1>13. \A c \in Clients : RowsOf(c) = {}
  BY <1>8, <1>9, ClientsAssumption DEF RowsOf
<1>14. \A c \in Clients : calls[c] = NoCall /\ made = 0
  BY DEF ClientInit
<1>15. \A c \in Clients : CallOK(c)
  BY <1>12, <1>13, <1>14 DEF CallOK, NoCall, LiveSeen, ClosingOK
<1>. QED  BY <1>5, <1>6, <1>7, <1>10, <1>11, <1>15 DEF CInv

-----------------------------------------------------------------------------
(* The steps of the server, as the clients' requests see them. *)

(* A handler goes on with the request it has, or is done with it.          *)
Kept(h) ==
    /\ \/ serving'[h] = NoClient
       \/ serving'[h] = serving[h] /\ pc'[h] # "idle"
    /\ pc'[h] # "idle" => pc[h] # "idle" /\ req'[h] = req[h]
    /\ pc'[h] \in Deciding => pc[h] \in Deciding

(* An idle handler takes a request from the network.                       *)
Taken(h, m) ==
    /\ net' = net \ {m}
    /\ serving'[h] = m /\ pc[h] = "idle" /\ pc'[h] # "idle" /\ req'[h] = m.req
    /\ pc'[h] = "closing" => reply'[h].code \notin {"head_mismatch", "exported"}
    /\ \A g \in Handlers \ {h} : Kept(g)

ServerMove ==
    /\ [Next]_vars
    /\ UNCHANGED <<wants, made, calls>> /\ DOMAIN serving' = Handlers
    /\ \/ UNCHANGED net /\ \A h \in Handlers : Kept(h)
       \/ \E h \in Handlers, m \in net : Taken(h, m)

(* What a service step does to the handlers' places and requests.          *)
LEMMA ServeRequests ==
    ASSUME TypeOK, NEW h \in Handlers, Serve(h)
    PROVE  /\ pc[h] # "idle"
           /\ \A g \in Handlers \ {h} : pc'[g] = pc[g] /\ req'[g] = req[g]
           /\ pc'[h] = "idle" \/ req'[h] = req[h]
           /\ pc'[h] \in Deciding => pc[h] \in Deciding
<1>1. CASE BeginChainWrite(h) \/ StageEvent(h) \/ StageProof(h) \/ RollbackDuplicate(h)
  BY <1>1 DEF TypeOK, BeginChainWrite, StageEvent, StageProof, RollbackDuplicate,
              Goto, Deciding
<1>2. ASSUME pc[h] # "idle", NEW answer, Respond(h, answer), req' = req
      PROVE  /\ \A g \in Handlers \ {h} : pc'[g] = pc[g] /\ req'[g] = req[g]
             /\ req'[h] = req[h] /\ pc'[h] \notin Deciding
  BY <1>2 DEF TypeOK, Respond, Goto, Deciding
<1>3. CASE BusyTimeout(h) \/ RefuseEvent(h) \/ CommitEvent(h) \/ CommitProof(h)
           \/ ReadRaced(h) \/ CommitFails(h) \/ ReadEvents(h)
  <2>1. pc[h] # "idle" /\ req' = req /\ \E answer : Respond(h, answer)
    BY <1>3, Zenon DEF BusyTimeout, RefuseEvent, CommitEvent, CommitProof, ReadRaced,
                CommitFails, ReadEvents
  <2>. QED  BY <1>2, <2>1
<1>4. CASE CloseSession(h)
  BY <1>4 DEF TypeOK, CloseSession, Goto, Deciding
<1>. QED  BY <1>1, <1>3, <1>4 DEF Serve

LEMMA ServerStepMoves ==
    ASSUME CInv, NEW h \in Handlers, ServerStep(h)
    PROVE  ServerMove
<1>1. /\ Serve(h) /\ UNCHANGED <<wants, made, calls, net>>
      /\ serving' = [serving EXCEPT ![h] = IF pc'[h] = "idle" THEN NoClient ELSE @]
  BY DEF ServerStep
<1>2. TypeOK /\ DOMAIN serving = Handlers
  BY DEF CInv, IInv, ClientTypes
<1>3. /\ pc[h] # "idle"
      /\ \A g \in Handlers \ {h} : pc'[g] = pc[g] /\ req'[g] = req[g]
      /\ pc'[h] = "idle" \/ req'[h] = req[h]
      /\ pc'[h] \in Deciding => pc[h] \in Deciding
  BY <1>1, <1>2, ServeRequests
<1>4. \A g \in Handlers : serving[g] = NoClient \/ pc[g] # "idle"
  BY DEF CInv, NetworkOK, ServingOK, Connection
<1>5. Kept(h)
  BY <1>1, <1>2, <1>3 DEF Kept
<1>6. ASSUME NEW g \in Handlers, g # h
      PROVE  Kept(g)
  <2>1. serving'[g] = serving[g] /\ pc'[g] = pc[g] /\ req'[g] = req[g]
    BY <1>1, <1>2, <1>3, <1>6
  <2>. QED  BY <1>4, <2>1 DEF Kept
<1>7. Next /\ DOMAIN serving' = Handlers
  <2>1. \E g \in Handlers : Arrive(g) \/ Serve(g)
    BY <1>1
  <2>. QED  BY <1>1, <1>2, <2>1 DEF Next
<1>. HIDE DEF Kept
<1>. QED  BY <1>1, <1>5, <1>6, <1>7 DEF ServerMove

LEMMA ServerCrashMoves ==
    ASSUME CInv, ServerCrash
    PROVE  ServerMove
<1>1. ASSUME NEW h \in Handlers
      PROVE  Kept(h)
  <2>1. pc'[h] = "idle" /\ serving'[h] = NoClient
    BY DEF ServerCrash, Crash
  <2>. QED  BY <2>1 DEF Kept, Deciding
<1>2. /\ Next /\ UNCHANGED <<wants, made, calls, net>>
      /\ serving' = [h \in Handlers |-> NoClient]
  BY DEF ServerCrash, Next
<1>. QED  BY <1>1, <1>2 DEF ServerMove

(* A delivery starts its handler and touches no other.                     *)
LEMMA Delivered ==
    ASSUME CInv, NEW h \in Handlers, NEW m \in net, net' = net \ {m},
           serving' = [serving EXCEPT ![h] = m], UNCHANGED <<wants, made, calls>>,
           Arrive(h), pc[h] = "idle", req' = [req EXCEPT ![h] = m.req],
           NEW label \in {"closing", "checked", "reading"}, Goto(h, label),
           label = "closing" => reply'[h].code \notin {"head_mismatch", "exported"}
    PROVE  ServerMove
<1>1. TypeOK /\ DOMAIN serving = Handlers
  BY DEF CInv, IInv, ClientTypes
<1>2. /\ pc'[h] = label /\ req'[h] = m.req /\ serving'[h] = m
      /\ \A g \in Handlers \ {h} :
           pc'[g] = pc[g] /\ req'[g] = req[g] /\ serving'[g] = serving[g]
  BY <1>1 DEF TypeOK, Goto
<1>3. \A g \in Handlers : serving[g] = NoClient \/ pc[g] # "idle"
  BY DEF CInv, NetworkOK, ServingOK, Connection
<1>4. \A g \in Handlers \ {h} : Kept(g)
  BY <1>2, <1>3 DEF Kept
<1>5. Taken(h, m)
  BY <1>2, <1>4 DEF Taken
<1>6. Next
  BY DEF Next
<1>7. DOMAIN serving' = Handlers
  BY <1>1
<1>. QED  BY <1>5, <1>6, <1>7 DEF ServerMove

LEMMA DeliverMoves ==
    ASSUME CInv, NEW h \in Handlers, Deliver(h)
    PROVE  ServerMove
<1>1. TypeOK /\ DOMAIN serving = Handlers /\ ClientTypes
  BY DEF CInv, IInv, ClientTypes
<1>2. PICK m \in net :
        /\ \/ m.req.op = "get" /\ GetProof(h, TheProof)
           \/ m.req.op = "append" /\ PostEvent(h, TheProof, m.req)
        /\ net' = net \ {m}
        /\ serving' = [serving EXCEPT ![h] = m]
        /\ UNCHANGED <<wants, made, calls>>
  BY DEF Deliver
<1>3. MessageOK(m)
  BY DEF CInv, NetworkOK
<1>4. /\ TheProof \in ProofIds /\ Author \in Signers /\ Body \in SentPayloads
      /\ HeadQuery = [op |-> "get", pid |-> TheProof]
  BY ClientsAssumption DEF RequestPayloads, HeadQuery
<1>5. CASE m.req.op = "get" /\ GetProof(h, TheProof)
  <2>1. m.req = HeadQuery
    <3>1. \A c, head : SignedEvent(c, head).op = "append"
      BY DEF SignedEvent
    <3>. QED  BY <1>3, <1>5, <3>1 DEF MessageOK
  <2>2. Arrive(h)
    BY <1>4, <1>5 DEF Arrive
  <2>3. /\ pc[h] = "idle" /\ req' = [req EXCEPT ![h] = HeadQuery]
        /\ \/ Respond(h, Refused("not_found"))
           \/ Goto(h, "reading")
    BY <1>4, <1>5 DEF GetProof, Receive
  <2>4. ASSUME Respond(h, Refused("not_found"))
        PROVE  reply'[h].code = "not_found" /\ Goto(h, "closing")
    BY <1>1, <2>4 DEF TypeOK, Respond, Refused
  <2>. QED  BY <1>2, <2>1, <2>2, <2>3, <2>4, Delivered
<1>6. CASE m.req.op = "append" /\ PostEvent(h, TheProof, m.req)
  <2>1. PICK head \in EventIds : m.req = SignedEvent(m.from, head)
    BY <1>3, <1>6, QueryType DEF MessageOK
  <2>2. m.from \in Clients
    BY <1>3 DEF MessageOK
  <2>3. head \in IdsOf(chain[TheProof])
    <3>1. CallOK(m.from)
      BY <2>2 DEF CInv
    <3>2. Live(SignedEvent(m.from, head))
      BY <2>1 DEF Live
    <3>3. Seen(head, Len(chain[TheProof]))
      BY <3>1, <3>2 DEF CallOK, LiveSeen
    <3>. QED  BY <3>3 DEF Seen, IdsOf
  <2>4. Arrive(h)
    <3>1. /\ wants[m.from] \in SentTypes /\ m.from \in Nonces
          /\ TheProof \in ProofIds /\ Author \in Signers /\ Body \in SentPayloads
          /\ "bare" \in SentSpellings
      BY <1>1, <2>2, ClientsAssumption DEF ClientTypes, RequestPayloads
    <3>2. PostEvent(h, TheProof,
                    [op |-> "append", pid |-> TheProof, actor |-> Author,
                     type |-> wants[m.from], payload |-> Body, spelling |-> "bare",
                     nonce |-> m.from, head |-> head, signed |-> TRUE])
      BY <1>6, <2>1 DEF SignedEvent
    <3>. QED  BY <2>3, <3>1, <3>2 DEF Arrive
  <2>. DEFINE refusal == EarlyRefusal(proofs[TheProof], m.req)
  <2>5. /\ pc[h] = "idle" /\ req' = [req EXCEPT ![h] = m.req]
        /\ \/ Respond(h, Refused(refusal))
           \/ Goto(h, "checked")
    BY <1>6 DEF PostEvent, Receive
  <2>6. refusal \in {"ok", "not_found", "closed", "bad_format", "unsigned"}
    BY EarlyRefusalCodes
  <2>. HIDE DEF refusal
  <2>7. ASSUME Respond(h, Refused(refusal))
        PROVE  /\ reply'[h].code \notin {"head_mismatch", "exported"}
               /\ Goto(h, "closing")
    BY <1>1, <2>6, <2>7 DEF TypeOK, Respond, Refused
  <2>. QED  BY <1>2, <2>4, <2>5, <2>7, Delivered
<1>. QED  BY <1>2, <1>5, <1>6

-----------------------------------------------------------------------------
(* What the server's steps do to the requests in flight and to the chain.  *)

LEMMA LiveShrinks ==
    ASSUME CInv, ServerMove, NEW r, Live(r)'
    PROVE  Live(r)
<1>1. ASSUME NEW h \in Handlers, Kept(h), pc'[h] \in Deciding, req'[h] = r
      PROVE  Live(r)
  <2>1. pc'[h] # "idle"
    BY <1>1 DEF Deciding
  <2>. QED  BY <1>1, <2>1 DEF Kept, Live
<1>2. ASSUME NEW h \in Handlers, NEW m \in net, Taken(h, m)
      PROVE  Live(r)
  <2>1. CASE \E n \in net' : n.req = r
    BY <1>2, <2>1 DEF Taken, Live
  <2>2. ASSUME NEW g \in Handlers, pc'[g] \in Deciding, req'[g] = r
        PROVE  Live(r)
    BY <1>1, <1>2, <2>2 DEF Taken, Live
  <2>. QED  BY <2>1, <2>2 DEF Live
<1>3. CASE UNCHANGED net /\ \A h \in Handlers : Kept(h)
  BY <1>1, <1>3 DEF Live
<1>. QED  BY <1>2, <1>3 DEF ServerMove

(* A stored request passed the nonce and the head check.                   *)
LEMMA AcceptedHead ==
    ASSUME NEW row, NEW events, NEW r, LockedRefusal(row, events, r) = "ok"
    PROVE  /\ r.nonce \notin NoncesOf(events)
           /\ row.version = CurrentVersion => r.head = ChainHead(events)
BY DEF LockedRefusal

(* The row of a request that was live, right after the head it signed.     *)
AppendedFor(c, head, e) ==
    /\ chain'[TheProof] = Append(chain[TheProof], e)
    /\ Live(SignedEvent(c, head))
    /\ head = ChainHead(chain[TheProof]) /\ e.prev = head
    /\ e.nonce = c /\ e.type = wants[c]
    /\ e.id \notin IdsOf(chain[TheProof])
    /\ c \notin NoncesOf(chain[TheProof])

LEMMA TheChainStep ==
    ASSUME CInv, ServerMove
    PROVE  \/ chain'[TheProof] = chain[TheProof]
           \/ \E c \in Clients, head \in EventIds, e \in Event : AppendedFor(c, head, e)
<1>1. /\ IInv /\ TypeOK /\ ClientTypes /\ [Next]_vars /\ TheProof \in ProofIds
      /\ proofs[TheProof].version = CurrentVersion
  BY ClientsAssumption DEF CInv, IInv, ServerMove, TheProofOK
<1>2. ASSUME NEW h \in Handlers, CommitEvent(h)
      PROVE  \E c \in Clients, head \in EventIds, e \in Event : AppendedFor(c, head, e)
  <2>1. pc[h] = "staged" /\ req[h].op = "append" /\ Write(h)
    BY <1>2 DEF CommitEvent
  <2>2. PICK c \in Clients, head \in EventIds : req[h] = SignedEvent(c, head)
    BY <2>1, ServedRequest
  <2>3. /\ req[h].pid = TheProof /\ req[h].nonce = c /\ req[h].head = head
        /\ req[h].type = wants[c]
    BY <1>1, <2>2, SignedEventType
  <2>. DEFINE e == rows[h].event
  <2>4. /\ StagedEventOK(h) /\ e.id \notin IdsOf(chain[TheProof])
    BY <1>1, <2>1 DEF IInv, HandlerOK, StagedOK
  <2>5. /\ rows[h].pid = TheProof
        /\ LockedRefusal(proofs[TheProof], chain[TheProof], req[h]) = "ok"
        /\ e = NewRow(chain[TheProof], e.id, req[h].type, req[h].actor,
                      req[h].payload, req[h].spelling, req[h].nonce, req[h].head)
    BY <2>3, <2>4 DEF StagedEventOK
  <2>6. head = ChainHead(chain[TheProof]) /\ c \notin NoncesOf(chain[TheProof])
    BY <1>1, <2>3, <2>5, AcceptedHead
  <2>7. e.prev = ChainHead(chain[TheProof]) /\ e.nonce = c /\ e.type = wants[c]
    BY <2>3, <2>5 DEF NewRow
  <2>8. chain'[TheProof] = Append(chain[TheProof], e) /\ e \in Event
    BY <1>1, <2>1, <2>5, WriteEffect
  <2>9. Live(SignedEvent(c, head))
    BY <2>1, <2>2 DEF Live, Deciding
  <2>. HIDE DEF e
  <2>. QED  BY <2>4, <2>6, <2>7, <2>8, <2>9 DEF AppendedFor
<1>3. ASSUME NEW h \in Handlers
      PROVE  ~CommitProof(h)
  BY ServedRequest DEF CommitProof
<1>4. CASE UNCHANGED vars
  BY <1>4 DEF vars
<1>. QED  BY <1>1, <1>2, <1>3, <1>4, OtherSteps

(* What is in the chain stays where it is.                                 *)
LEMMA TheRowsStay ==
    ASSUME CInv, ServerMove
    PROVE  /\ chain[TheProof] \in Seq(Event) /\ chain'[TheProof] \in Seq(Event)
           /\ Len(chain[TheProof]) <= Len(chain'[TheProof])
           /\ \A i \in DOMAIN chain[TheProof] :
                i \in DOMAIN chain'[TheProof]
                /\ chain'[TheProof][i] = chain[TheProof][i]
BY ClientsAssumption, RowsStay DEF CInv, ServerMove

LEMMA SeenStays ==
    ASSUME CInv, ServerMove, NEW id, NEW k \in Int, NEW m \in Int, k <= m, Seen(id, k)
    PROVE  Seen(id, m)'
<1>1. PICK i \in DOMAIN chain[TheProof] : i <= k /\ chain[TheProof][i].id = id
  BY DEF Seen
<1>2. i \in DOMAIN chain'[TheProof] /\ chain'[TheProof][i].id = id /\ i \in Int
  BY <1>1, TheRowsStay
<1>. QED  BY <1>1, <1>2 DEF Seen

LEMMA LiveSeenStays ==
    ASSUME CInv, ServerMove, NEW c \in Clients, NEW k \in Int, NEW m \in Int, k <= m,
           LiveSeen(c, k)
    PROVE  LiveSeen(c, m)'
<1>. SUFFICES ASSUME NEW head \in EventIds, Live(SignedEvent(c, head))'
              PROVE  Seen(head, m)'
  BY DEF LiveSeen
<1>1. SignedEvent(c, head)' = SignedEvent(c, head)
  BY DEF ServerMove, SignedEvent
<1>2. Live(SignedEvent(c, head))
  BY <1>1, LiveShrinks
<1>. QED  BY <1>2, SeenStays DEF LiveSeen

(* No request signed over a head before the last is ever stored.           *)
LEMMA StaleStays ==
    ASSUME CInv, ServerMove, NEW c \in Clients, Stale(c)
    PROVE  Stale(c)'
<1>1. chain[TheProof] \in Seq(Event) /\ chain'[TheProof] \in Seq(Event)
      /\ Len(chain[TheProof]) <= Len(chain'[TheProof])
  BY TheRowsStay
<1>2. /\ Len(chain[TheProof]) \in Int /\ Len(chain'[TheProof]) \in Int
      /\ Len(chain[TheProof]) - 1 <= Len(chain'[TheProof]) - 1
  BY <1>1
<1>3. LiveSeen(c, Len(chain[TheProof]) - 1)'
  <2>. DEFINE k == Len(chain[TheProof]) - 1
              m == Len(chain'[TheProof]) - 1
  <2>1. k \in Int /\ m \in Int /\ k <= m /\ LiveSeen(c, k)
    BY <1>2 DEF Stale
  <2>2. \A l \in Int : k <= l => LiveSeen(c, l)'
    <3>. HIDE DEF k
    <3>. QED  BY <2>1, LiveSeenStays
  <2>. QED  BY <2>1, <2>2 DEF LiveSeen, Seen
<1>4. RowsOf(c)' = {}
  <2>1. CASE chain'[TheProof] = chain[TheProof]
    BY <2>1 DEF Stale, RowsOf
  <2>2. ASSUME NEW d \in Clients, NEW head \in EventIds, NEW e \in Event,
               AppendedFor(d, head, e)
        PROVE  RowsOf(c)' = {}
    <3>. DEFINE n == Len(chain[TheProof])
    <3>1. n \in Nat \ {0} /\ head = chain[TheProof][n].id
      BY <1>1, <2>2 DEF CInv, TheProofOK, AppendedFor, ChainHead, LinkHash
    <3>2. ~Seen(head, n - 1)
      BY <1>1, <3>1 DEF Seen, CInv, TheProofOK
    <3>3. c # d
      <4>1. LiveSeen(c, n - 1) /\ Live(SignedEvent(d, head))
        BY <2>2 DEF AppendedFor, Stale
      <4>. QED  BY <3>2, <4>1 DEF LiveSeen
    <3>4. \A i \in DOMAIN chain'[TheProof] :
             \/ i \in DOMAIN chain[TheProof] /\ chain'[TheProof][i] = chain[TheProof][i]
             \/ chain'[TheProof][i] = e
      BY <1>1, <2>2 DEF AppendedFor
    <3>5. e.nonce # c
      BY <2>2, <3>3 DEF AppendedFor
    <3>6. RowsOf(c) = {}
      BY DEF Stale
    <3>. QED  BY <3>4, <3>5, <3>6 DEF RowsOf
  <2>. QED  BY <2>1, <2>2, TheChainStep
<1>. QED  BY <1>3, <1>4 DEF Stale

LEMMA TheProofStep ==
    ASSUME CInv, ServerMove
    PROVE  TheProofOK'
<1>1. IInv /\ [Next]_vars /\ TheProof \in ProofIds /\ TheProofOK
  BY ClientsAssumption DEF CInv, ServerMove
<1>2. Exists(TheProof)' /\ proofs'[TheProof].version = CurrentVersion
  BY <1>1, ProofStays DEF TheProofOK
<1>3. chain[TheProof] \in Seq(Event) /\ chain[TheProof] # <<>>
  BY <1>1, TheRowsStay DEF TheProofOK
<1>4. chain'[TheProof] # <<>> /\ chain'[TheProof][1] = chain[TheProof][1]
  <2>1. 1 \in DOMAIN chain[TheProof]
    BY <1>3
  <2>. QED  BY <2>1, <1>3, TheRowsStay
<1>5. ASSUME NEW c \in Clients, NEW head \in EventIds, NEW e \in Event,
             AppendedFor(c, head, e)
      PROVE  \A i, j \in DOMAIN chain'[TheProof] :
               chain'[TheProof][i].id = chain'[TheProof][j].id => i = j
  <2>1. \A i \in DOMAIN chain'[TheProof] :
           \/ i \in DOMAIN chain[TheProof] /\ chain'[TheProof][i] = chain[TheProof][i]
           \/ i = Len(chain[TheProof]) + 1 /\ chain'[TheProof][i] = e
    BY <1>3, <1>5 DEF AppendedFor
  <2>2. \A i \in DOMAIN chain[TheProof] : chain[TheProof][i].id # e.id
    BY <1>5 DEF AppendedFor, IdsOf
  <2>. QED  BY <1>1, <2>1, <2>2 DEF TheProofOK
<1>6. \A i, j \in DOMAIN chain'[TheProof] :
        chain'[TheProof][i].id = chain'[TheProof][j].id => i = j
  BY <1>1, <1>5, TheChainStep DEF TheProofOK
<1>. QED  BY <1>1, <1>2, <1>4, <1>6 DEF TheProofOK

-----------------------------------------------------------------------------
(* The server's steps keep what is known of the calls.                     *)

LEMMA ServerCallFrame ==
    ASSUME ServerMove
    PROVE  /\ \A m : Awaited(m)' <=> Awaited(m)
           /\ \A m : MessageOK(m)' <=> MessageOK(m)
           /\ \A c, head : SignedEvent(c, head)' = SignedEvent(c, head)
<1>1. UNCHANGED <<wants, made, calls>>
  BY DEF ServerMove
<1>2. \A c, head : SignedEvent(c, head)' = SignedEvent(c, head)
  BY <1>1 DEF SignedEvent
<1>3. \A m : Awaited(m)' <=> Awaited(m)
  BY <1>1 DEF Awaited
<1>4. \A m : MessageOK(m)' <=> MessageOK(m)
  BY <1>1, <1>2, <1>3 DEF MessageOK
<1>. QED  BY <1>2, <1>3, <1>4

LEMMA ServerConnections ==
    ASSUME CInv, ServerMove
    PROVE  /\ \A m \in net' : MessageOK(m)'
           /\ \A h \in Handlers : ServingOK(h)' /\ RequestOK(h)'
<1>1. /\ \A m \in net : MessageOK(m)
      /\ \A h \in Handlers : ServingOK(h) /\ RequestOK(h)
  BY DEF CInv, NetworkOK
<1>2. net' \subseteq net
  BY DEF ServerMove, Taken
<1>3. \A m \in net' : MessageOK(m)'
  BY <1>1, <1>2, ServerCallFrame
<1>4. ASSUME NEW h \in Handlers, Kept(h)
      PROVE  ServingOK(h)' /\ RequestOK(h)'
  <2>1. RequestOK(h)'
    BY <1>1, <1>4, ServerCallFrame DEF Kept, RequestOK, HeadQuery
  <2>2. ASSUME NEW m, m # NoClient, serving'[h] = m
        PROVE  /\ MessageOK(m)'
               /\ pc'[h] # "idle" /\ req'[h] = m.req
               /\ Awaited(m)' =>
                    /\ m \notin net'
                    /\ \A g \in Handlers : serving'[g] = m => g = h
    <3>1. serving[h] = m /\ pc'[h] # "idle" /\ req'[h] = req[h] /\ m \in Connection(h)
      BY <1>4, <2>2 DEF Kept, Connection
    <3>2. /\ req'[h] = m.req /\ MessageOK(m)'
          /\ Awaited(m)' => m \notin net /\ \A g \in Handlers : serving[g] = m => g = h
      BY <1>1, <3>1, ServerCallFrame DEF ServingOK
    <3>3. ASSUME m \notin net, \A g \in Handlers : serving[g] = m => g = h
          PROVE  \A g \in Handlers : serving'[g] = m => g = h
      <4>1. \A g \in Handlers : Kept(g) => serving'[g] \in {NoClient, serving[g]}
        BY DEF Kept
      <4>2. ASSUME NEW k \in Handlers, NEW n \in net, Taken(k, n)
            PROVE  \A g \in Handlers : serving'[g] = m => g = h
        BY <2>2, <3>3, <4>1, <4>2 DEF Taken
      <4>3. CASE \A g \in Handlers : Kept(g)
        BY <2>2, <3>3, <4>1, <4>3
      <4>. QED  BY <4>2, <4>3 DEF ServerMove
    <3>. QED  BY <1>2, <3>1, <3>2, <3>3
  <2>. QED  BY <2>1, <2>2 DEF ServingOK, Connection
<1>5. ASSUME NEW h \in Handlers, NEW m \in net, Taken(h, m)
      PROVE  ServingOK(h)' /\ RequestOK(h)'
  <2>1. /\ serving'[h] = m /\ pc'[h] # "idle" /\ req'[h] = m.req /\ net' = net \ {m}
        /\ \A g \in Handlers \ {h} : Kept(g)
    BY <1>5 DEF Taken
  <2>2. MessageOK(m) /\ MessageOK(m)'
    BY <1>1, ServerCallFrame
  <2>3. RequestOK(h)'
    <3>1. m.from \in Clients /\ (m.req = HeadQuery
                                 \/ \E head \in EventIds : m.req = SignedEvent(m.from, head))
      BY <2>2 DEF MessageOK
    <3>. QED  BY <2>1, <3>1, ServerCallFrame DEF RequestOK, HeadQuery
  <2>4. ASSUME m # NoClient, Awaited(m)', NEW g \in Handlers, serving'[g] = m
        PROVE  g = h
    <3>1. Awaited(m)
      BY <2>4, ServerCallFrame
    <3>2. g # h => serving[g] = m /\ m \in Connection(g)
      BY <2>1, <2>4, <3>1 DEF Kept, Connection
    <3>. QED  BY <1>1, <3>1, <3>2 DEF ServingOK
  <2>. QED  BY <2>1, <2>2, <2>3, <2>4 DEF ServingOK, Connection
<1>6. \A h \in Handlers : ServingOK(h)' /\ RequestOK(h)'
  <2>1. CASE \A h \in Handlers : Kept(h)
    BY <1>4, <2>1
  <2>2. ASSUME NEW k \in Handlers, NEW m \in net, Taken(k, m)
        PROVE  \A h \in Handlers : ServingOK(h)' /\ RequestOK(h)'
    <3>1. \A h \in Handlers \ {k} : Kept(h)
      BY <2>2 DEF Taken
    <3>. QED  BY <1>4, <1>5, <2>2, <3>1
  <2>. QED  BY <2>1, <2>2 DEF ServerMove
<1>. QED  BY <1>3, <1>6

(* The awaited call whose request a handler refuses for its head alone.    *)
LEMMA RefusedCall ==
    ASSUME CInv, NEW h \in Handlers, pc[h] = "locked", req[h].op = "append",
           LockedRefusal(proofs[req[h].pid], chain[req[h].pid], req[h]) = "head_mismatch",
           NEW m \in Connection(h), Awaited(m), NEW c, c = m.from
    PROVE  /\ calls[c].st = "posting"
           /\ Seen(calls[c].head, Len(chain[TheProof]) - 1)
           /\ calls[c].read => Stale(c)
<1>. DEFINE head == calls[c].head
            n == Len(chain[TheProof])
<1>1. ServingOK(h)
  BY DEF CInv, NetworkOK
<1>2. req[h] = m.req /\ MessageOK(m) /\ c \in Clients /\ CallOK(c)
  BY <1>1 DEF ServingOK, MessageOK, CInv
<1>3. calls[c].st = "posting" /\ req[h] = SignedEvent(c, head)
  BY <1>2, QueryType DEF MessageOK
<1>4. /\ ClientTypes /\ TheProofOK /\ chain[TheProof] \in Seq(Event)
      /\ n \in Nat \ {0}
  <2>1. chain[TheProof] \in Seq(Event) /\ chain[TheProof] # <<>>
    BY ClientsAssumption DEF CInv, IInv, TypeOK, TheProofOK
  <2>. QED  BY <2>1 DEF CInv
<1>5. head \in EventIds
  <2>1. req[h] = HeadQuery \/ \E k \in EventIds : req[h] = SignedEvent(c, k)
    BY <1>2 DEF MessageOK
  <2>. QED  BY <1>3, <2>1, SignedEventInjective
<1>6. req[h].pid = TheProof /\ req[h].nonce = c /\ req[h].head = head
  BY <1>2, <1>3, <1>4, <1>5, SignedEventType
<1>7. c \notin NoncesOf(chain[TheProof]) /\ head # ChainHead(chain[TheProof])
  BY <1>6, OnlyTheHead
<1>8. \A k \in DOMAIN chain[TheProof] : chain[TheProof][k].id = head => k <= n - 1
  BY <1>4, <1>7 DEF ChainHead, LinkHash
<1>9. Seen(head, n - 1)
  <2>1. Live(SignedEvent(c, head))
    BY <1>3 DEF Live, Deciding
  <2>2. LiveSeen(c, n)
    BY <1>2 DEF CallOK
  <2>3. Seen(head, n)
    BY <1>5, <2>1, <2>2 DEF LiveSeen
  <2>. QED  BY <1>8, <2>3 DEF Seen
<1>10. ASSUME calls[c].read
       PROVE  Stale(c)
  <2>1. PICK k \in DOMAIN chain[TheProof] : HeadReadOK(c, k)
    BY <1>2, <1>3, <1>10 DEF CallOK
  <2>2. k <= n - 1 /\ k \in Int /\ n - 1 \in Int
    BY <1>4, <1>8, <2>1 DEF HeadReadOK
  <2>3. LiveSeen(c, k)
    BY <2>1 DEF HeadReadOK
  <2>4. LiveSeen(c, n - 1)
    <3>1. \A i \in DOMAIN chain[TheProof] : i <= k => i <= n - 1
      BY <1>4, <2>2
    <3>. QED  BY <2>3, <3>1 DEF LiveSeen, Seen
  <2>5. RowsOf(c) = {}
    BY <1>7 DEF RowsOf, NoncesOf
  <2>. QED  BY <2>4, <2>5 DEF Stale
<1>. QED  BY <1>3, <1>9, <1>10

LEMMA ServerAnswers ==
    ASSUME CInv, ServerMove, NEW h \in Handlers
    PROVE  AnswerOK(h)'
<1>1. /\ IInv /\ [Next]_vars /\ calls' = calls
      /\ Len(chain[TheProof]) \in Int /\ Len(chain'[TheProof]) \in Int
      /\ Len(chain[TheProof]) <= Len(chain'[TheProof])
  BY TheRowsStay DEF CInv, ServerMove
<1>. DEFINE Mismatch(c) == /\ calls[c].st = "posting"
                           /\ Seen(calls[c].head, Len(chain[TheProof]) - 1)
                           /\ calls[c].read => Stale(c)
            Fresh(c) == calls[c].st # "posting" => calls[c].since <= Len(reply[h].events)
<1>2. SUFFICES ASSUME pc'[h] = "closing", NEW m, m # NoClient, serving'[h] = m,
                      Awaited(m)'
               PROVE  /\ reply'[h].code = "head_mismatch" => Mismatch(m.from)'
                      /\ reply'[h].code = "exported" => Fresh(m.from)'
  BY DEF AnswerOK, Connection
<1>. DEFINE c == m.from
<1>3. Awaited(m) /\ c \in Clients
  <2>1. ServingOK(h)' /\ m \in Connection(h)'
    BY <1>2, ServerConnections DEF Connection
  <2>. QED  BY <1>2, <2>1, ServerCallFrame DEF ServingOK, MessageOK
<1>4. ASSUME NEW k \in net, Taken(h, k)
      PROVE  reply'[h].code \notin {"head_mismatch", "exported"}
  BY <1>2, <1>4 DEF Taken
<1>5. CASE Kept(h)
  <2>1. serving[h] = m /\ pc[h] # "idle" /\ req'[h] = req[h] /\ m \in Connection(h)
    BY <1>2, <1>5 DEF Kept, Connection
  <2>2. ASSUME Mismatch(c)
        PROVE  Mismatch(c)'
    <3>1. \A k \in Int : Len(chain[TheProof]) - 1 <= k => Seen(calls[c].head, k)'
      <4>1. ASSUME NEW k \in Int, Len(chain[TheProof]) - 1 <= k,
                   NEW id, id = calls[c].head
            PROVE  Seen(id, k)'
        BY <1>1, <2>2, <4>1, SeenStays
      <4>. QED  BY <1>1, <4>1 DEF Seen
    <3>2. Seen(calls[c].head, Len(chain[TheProof]) - 1)'
      BY <1>1, <3>1 DEF Seen
    <3>3. calls[c].read => Stale(c)'
      BY <1>3, <2>2, StaleStays
    <3>. QED  BY <1>1, <2>2, <3>2, <3>3
  <2>3. CASE Unmoved(h)
    <3>1. AnswerOK(h) /\ pc[h] = "closing" /\ reply'[h] = reply[h]
      BY <1>2, <2>3 DEF CInv, NetworkOK, Unmoved
    <3>2. /\ reply[h].code = "head_mismatch" => Mismatch(c)
          /\ reply[h].code = "exported" => Fresh(c)
      BY <1>3, <2>1, <3>1 DEF AnswerOK
    <3>. QED  BY <1>1, <2>2, <3>1, <3>2
  <2>4. CASE RefuseEvent(h)
    <3>. DEFINE refusal == LockedRefusal(proofs[req[h].pid], chain[req[h].pid], req[h])
    <3>1. /\ pc[h] = "locked" /\ req[h].op = "append" /\ reply'[h] = Refused(refusal)
          /\ reply'[h].code \notin Promises
      BY <1>1, <2>4, RefusalAnswer, OtherAnswers DEF RefuseEvent
    <3>2. reply'[h].code = refusal
      BY <3>1 DEF Refused
    <3>3. refusal = "head_mismatch" => Mismatch(c)
      BY <1>3, <2>1, <3>1, RefusedCall
    <3>. QED  BY <2>2, <3>1, <3>2, <3>3 DEF Promises
  <2>5. CASE ReadEvents(h)
    <3>1. /\ reply'[h].code = "exported" /\ req[h].pid = TheProof
          /\ reply'[h] = Exported(rows[h].status, chain[req[h].pid])
      BY <1>1, <2>1, <2>5, ExportAnswer, ServedRequest
    <3>2. reply'[h].events = chain[TheProof]
      BY <3>1 DEF Exported
    <3>3. CallOK(c)
      BY <1>3 DEF CInv
    <3>4. calls[c].st # "posting" => calls[c].since <= Len(chain[TheProof])
      BY <1>3, <3>3 DEF CallOK, Awaited, Waiting
    <3>. QED  BY <1>1, <3>1, <3>2, <3>4
  <2>6. ASSUME AnswersNo(h) \/ Repeats(h) \/ Acknowledges(h) \/ Registers(h)
        PROVE  reply'[h].code \notin {"head_mismatch", "exported"}
    <3>1. AnswersNo(h) => reply'[h].code \notin {"head_mismatch", "exported"}
      BY DEF AnswersNo, Refused
    <3>. QED  BY <1>1, <2>6, <3>1, OtherAnswers
  <2>7. ~StartsReading(h) /\ pc'[h] \in {"reading", "closing"}
    BY <1>2 DEF StartsReading
  <2>8. Moves(h)
    BY <1>1, HandlerMoves
  <2>. HIDE DEF Mismatch, Fresh
  <2>. QED  BY <2>3, <2>4, <2>5, <2>6, <2>7, <2>8 DEF Moves
<1>. HIDE DEF Mismatch, Fresh
<1>. QED  BY <1>4, <1>5 DEF ServerMove, Taken

LEMMA ServerRows ==
    ASSUME CInv, ServerMove, NEW c \in Clients
    PROVE  \A i \in RowsOf(c)' :
             \/ i \in RowsOf(c) /\ chain'[TheProof][i] = chain[TheProof][i]
             \/ \E head \in EventIds :
                  Live(SignedEvent(c, head)) /\ chain'[TheProof][i].prev = head
<1>1. chain[TheProof] \in Seq(Event)
  BY TheRowsStay
<1>2. CASE chain'[TheProof] = chain[TheProof]
  BY <1>2 DEF RowsOf
<1>3. ASSUME NEW d \in Clients, NEW head \in EventIds, NEW e \in Event,
             AppendedFor(d, head, e), NEW i \in RowsOf(c)'
      PROVE  \/ i \in RowsOf(c) /\ chain'[TheProof][i] = chain[TheProof][i]
             \/ Live(SignedEvent(c, head)) /\ chain'[TheProof][i].prev = head
  <2>1. i \in DOMAIN chain'[TheProof] /\ chain'[TheProof][i].nonce = c
    BY <1>3 DEF RowsOf
  <2>2. \/ i \in DOMAIN chain[TheProof] /\ chain'[TheProof][i] = chain[TheProof][i]
        \/ chain'[TheProof][i] = e
    BY <1>1, <1>3, <2>1 DEF AppendedFor
  <2>3. CASE i \in DOMAIN chain[TheProof] /\ chain'[TheProof][i] = chain[TheProof][i]
    BY <2>1, <2>3 DEF RowsOf
  <2>4. CASE chain'[TheProof][i] = e
    <3>1. c = d
      BY <1>3, <2>1, <2>4 DEF AppendedFor
    <3>. QED  BY <1>3, <2>4, <3>1 DEF AppendedFor
  <2>. QED  BY <2>2, <2>3, <2>4
<1>. QED  BY <1>2, <1>3, TheChainStep

LEMMA ServerCalls ==
    ASSUME CInv, ServerMove, NEW c \in Clients
    PROVE  CallOK(c)'
<1>. DEFINE call == calls[c]
            n == Len(chain[TheProof])
            m == Len(chain'[TheProof])
<1>1. /\ UNCHANGED <<wants, made, calls>> /\ CallOK(c) /\ call \in CallRecord
      /\ call.since \in Int /\ n \in Int /\ m \in Int /\ n <= m
  BY TheRowsStay DEF CInv, ClientTypes, ServerMove, CallRecord
<1>2. \A k \in DOMAIN chain[TheProof] :
        /\ k \in Int /\ k \in DOMAIN chain'[TheProof]
        /\ chain'[TheProof][k] = chain[TheProof][k]
  BY TheRowsStay
<1>3. ASSUME NEW k \in Int, LiveSeen(c, k)
      PROVE  \A l \in Int : k <= l => LiveSeen(c, l)'
  BY <1>3, LiveSeenStays
<1>4. LiveSeen(c, Len(chain[TheProof]))'
  <2>1. LiveSeen(c, n)
    BY <1>1 DEF CallOK
  <2>2. \A l \in Int : n <= l => LiveSeen(c, l)'
    BY <1>1, <1>3, <2>1
  <2>. QED  BY <1>1, <2>2 DEF LiveSeen, Seen
<1>5. call.st \in {"reading", "rereading"} =>
        call.since <= m /\ LiveSeen(c, calls[c].since)'
  <2>1. SUFFICES ASSUME call.st \in {"reading", "rereading"}
                 PROVE  call.since <= m /\ LiveSeen(c, calls[c].since)'
    OBVIOUS
  <2>2. call.since <= n /\ LiveSeen(c, call.since)
    BY <1>1, <2>1 DEF CallOK
  <2>3. \A l \in Int : call.since <= l => LiveSeen(c, l)'
    BY <1>1, <1>3, <2>2
  <2>4. LiveSeen(c, calls[c].since)'
    BY <1>1, <2>3 DEF LiveSeen, Seen
  <2>. QED  BY <1>1, <2>2, <2>4
<1>6. call.st = "posting" /\ call.read =>
        \E k \in DOMAIN chain'[TheProof] : HeadReadOK(c, k)'
  <2>1. ASSUME NEW k \in DOMAIN chain[TheProof], HeadReadOK(c, k)
        PROVE  k \in DOMAIN chain'[TheProof] /\ HeadReadOK(c, k)'
    <3>1. k \in Int /\ LiveSeen(c, k)
      BY <1>2, <2>1 DEF HeadReadOK
    <3>2. LiveSeen(c, k)'
      BY <1>3, <3>1
    <3>. QED  BY <1>1, <1>2, <2>1, <3>2 DEF HeadReadOK
  <2>. QED  BY <1>1, <2>1 DEF CallOK
<1>7. call.st = "rereading" => Seen(calls[c].head, calls[c].since - 1)'
  <2>1. call.st = "rereading" => Seen(call.head, call.since - 1)
    BY <1>1 DEF CallOK
  <2>. QED  BY <1>1, <1>2, <2>1 DEF Seen
<1>8. call.st \in {"rereading", "mismatch"} /\ call.read => Stale(c)'
  BY <1>1, StaleStays DEF CallOK
<1>9. call.st = "mismatch" => \E k \in DOMAIN chain'[TheProof] : NewHeadOK(c, k)'
  BY <1>1, <1>2 DEF CallOK, NewHeadOK
<1>10. call.st = "returned" => \E i \in DOMAIN chain'[TheProof] : StoredFor(c, i)'
  BY <1>1, <1>2 DEF CallOK, StoredFor
<1>11. ClosingOK(c)'
  <2>1. SUFFICES ASSUME wants[c] \in ClosingTypes
                 PROVE  /\ \A head \in EventIds :
                             Live(SignedEvent(c, head))' => head \in call.firsts
                        /\ \A i \in RowsOf(c)' : chain'[TheProof][i].prev \in call.firsts
    BY <1>1 DEF ClosingOK
  <2>2. /\ \A head \in EventIds : Live(SignedEvent(c, head)) => head \in call.firsts
        /\ \A i \in RowsOf(c) : chain[TheProof][i].prev \in call.firsts
    BY <1>1, <2>1 DEF CallOK, ClosingOK
  <2>3. \A head \in EventIds : Live(SignedEvent(c, head))' => Live(SignedEvent(c, head))
    <3>1. ASSUME NEW head \in EventIds, NEW r, r = SignedEvent(c, head), Live(r)'
          PROVE  Live(r)
      BY <3>1, LiveShrinks
    <3>. QED  BY <3>1, ServerCallFrame DEF Live
  <2>. QED  BY <2>2, <2>3, ServerRows
<1>12. call.n <= made
  BY <1>1 DEF CallOK
<1>. QED  BY <1>1, <1>4, <1>5, <1>6, <1>7, <1>8, <1>9, <1>10, <1>11, <1>12 DEF CallOK

LEMMA ServerStepInvariant ==
    ASSUME CInv, ServerMove
    PROVE  CInv'
<1>1. IInv /\ [Next]_vars
  BY DEF CInv, ServerMove
<1>2. IInv'
  BY <1>1, NextInvariant
<1>3. AnswersOK'
  BY <1>1, AcknowledgementStep, ReadingStep, ExportStep DEF CInv, AnswersOK
<1>4. ClientTypes'
  BY DEF CInv, ServerMove, ClientTypes
<1>5. NetworkOK'
  BY ServerConnections, ServerAnswers DEF NetworkOK
<1>. QED  BY <1>2, <1>3, <1>4, <1>5, TheProofStep, ServerCalls DEF CInv

-----------------------------------------------------------------------------
(* The steps of the clients: one call goes on, the server does not move.   *)

Sent(c, call) ==
    IF call.st = "posting" THEN SignedEvent(c, call.head) ELSE HeadQuery

(* No request of call n is on its way or being answered.                   *)
Forgotten(c, n) ==
    /\ \A m \in net : m.from = c => m.call # n
    /\ \A h \in Handlers : \A m \in Connection(h)' : m.from = c => m.call # n

ClientMove(c, call) ==
    /\ UNCHANGED <<vars, wants>>
    /\ made' \in Nat /\ made <= made' /\ call.n <= made' /\ calls[c].n <= call.n
    /\ call \in CallRecord /\ calls' = [calls EXCEPT ![c] = call]
    /\ call.st = "posting" => call.head \in EventIds
    /\ DOMAIN serving' = Handlers
    /\ \A h \in Handlers : serving'[h] \in {serving[h], NoClient}
    /\ \/ /\ call.st \in Waiting /\ Forgotten(c, call.n)
          /\ net' = net \cup {Message(c, call.n, Sent(c, call))}
       \/ call.st \notin Waiting /\ UNCHANGED net

LEMMA LiveAfter ==
    ASSUME NEW c, NEW call, ClientMove(c, call), NEW d, NEW head,
           Live(SignedEvent(d, head))'
    PROVE  \/ Live(SignedEvent(d, head))
           \/ d = c /\ call.st = "posting" /\ head = call.head
<1>1. SignedEvent(d, head)' = SignedEvent(d, head) /\ pc' = pc /\ req' = req
  BY DEF ClientMove, SignedEvent, vars
<1>2. \A m \in net' : m \in net \/ m.req = Sent(c, call)
  BY DEF ClientMove, Message
<1>3. SignedEvent(d, head) = Sent(c, call) =>
        d = c /\ call.st = "posting" /\ head = call.head
  BY SignedEventInjective DEF Sent
<1>. QED  BY <1>1, <1>2, <1>3 DEF Live

LEMMA LiveSeenAfter ==
    ASSUME NEW c, NEW call, ClientMove(c, call), NEW d, NEW k, LiveSeen(d, k),
           d = c /\ call.st = "posting" => Seen(call.head, k)
    PROVE  LiveSeen(d, k)'
<1>1. \A head : Seen(head, k)' <=> Seen(head, k)
  BY DEF Seen, ClientMove, vars
<1>2. ASSUME NEW head \in EventIds, Live(SignedEvent(d, head))'
      PROVE  Seen(head, k)'
  BY <1>1, <1>2, LiveAfter DEF LiveSeen
<1>. QED  BY <1>2 DEF LiveSeen

LEMMA StaleAfter ==
    ASSUME NEW c, NEW call, ClientMove(c, call), NEW d, Stale(d),
           d = c => call.st # "posting"
    PROVE  Stale(d)'
<1>1. RowsOf(d)' = RowsOf(d) /\ chain' = chain
  BY DEF RowsOf, ClientMove, vars
<1>2. LiveSeen(d, Len(chain[TheProof]) - 1)
  BY DEF Stale
<1>3. \A k : k = Len(chain[TheProof]) - 1 => LiveSeen(d, k)'
  BY <1>2, LiveSeenAfter
<1>4. LiveSeen(d, Len(chain[TheProof]) - 1)'
  BY <1>1, <1>3 DEF LiveSeen, Seen
<1>. QED  BY <1>1, <1>4 DEF Stale

(* The calls of the other clients are not concerned.                       *)
LEMMA OtherCalls ==
    ASSUME CInv, NEW c \in Clients, NEW call, ClientMove(c, call),
           NEW d \in Clients, d # c
    PROVE  CallOK(d)'
<1>1. /\ CallOK(d) /\ calls'[d] = calls[d] /\ wants' = wants /\ chain' = chain
      /\ made \in Int /\ made' \in Int /\ made <= made' /\ calls[d].n \in Int
  BY DEF CInv, ClientTypes, CallRecord, ClientMove, vars
<1>2. \A k : LiveSeen(d, k) => LiveSeen(d, k)'
  BY LiveSeenAfter
<1>3. LiveSeen(d, Len(chain[TheProof]))'
  <2>1. \A k : k = Len(chain[TheProof]) => LiveSeen(d, k)'
    BY <1>1, <1>2 DEF CallOK
  <2>. QED  BY <1>1, <2>1 DEF LiveSeen, Seen
<1>4. calls[d].st \in {"reading", "rereading"} => LiveSeen(d, calls[d].since)'
  <2>1. ASSUME NEW k, k = calls[d].since, calls[d].st \in {"reading", "rereading"}
        PROVE  LiveSeen(d, k)'
    BY <1>1, <1>2, <2>1 DEF CallOK
  <2>. QED  BY <1>1, <2>1 DEF LiveSeen, Seen
<1>5. \A k : HeadReadOK(d, k) => HeadReadOK(d, k)'
  BY <1>1, <1>2 DEF HeadReadOK
<1>6. Stale(d) => Stale(d)'
  BY StaleAfter
<1>7. ClosingOK(d)'
  <2>1. RowsOf(d)' = RowsOf(d)
    BY <1>1 DEF RowsOf
  <2>2. \A head : Live(SignedEvent(d, head))' => Live(SignedEvent(d, head))
    BY LiveAfter
  <2>. QED  BY <1>1, <2>1, <2>2 DEF CallOK, ClosingOK
<1>8. Seen(calls[d].head, calls[d].since - 1)' <=> Seen(calls[d].head, calls[d].since - 1)
  BY <1>1 DEF Seen
<1>9. \A k : (NewHeadOK(d, k)' <=> NewHeadOK(d, k)) /\ (StoredFor(d, k)' <=> StoredFor(d, k))
  BY <1>1 DEF NewHeadOK, StoredFor
<1>. QED  BY <1>1, <1>3, <1>4, <1>5, <1>6, <1>7, <1>8, <1>9 DEF CallOK

LEMMA ClientConnections ==
    ASSUME CInv, NEW c \in Clients, NEW call, ClientMove(c, call)
    PROVE  NetworkOK'
<1>1. /\ UNCHANGED <<vars, wants>> /\ call \in CallRecord /\ ClientTypes /\ NetworkOK
      /\ calls' = [calls EXCEPT ![c] = call] /\ calls[c].n <= call.n
      /\ \A h \in Handlers : serving'[h] \in {serving[h], NoClient}
  BY DEF CInv, ClientMove
<1>2. \A d, head : SignedEvent(d, head)' = SignedEvent(d, head)
  BY <1>1 DEF SignedEvent
<1>3. ASSUME NEW m, m \in net \/ \E h \in Handlers : m \in Connection(h)', MessageOK(m)
      PROVE  /\ MessageOK(m)'
             /\ Awaited(m)' => Awaited(m) /\ m.from # c
  <2>1. m.from \in Clients
    BY <1>3 DEF MessageOK
  <2>2. Awaited(m)' => m.from # c
    <3>1. CASE call.st \in Waiting
      BY <1>1, <1>3, <3>1 DEF ClientMove, Forgotten, Awaited, ClientTypes
    <3>2. CASE call.st \notin Waiting
      BY <1>1, <3>2 DEF Awaited, ClientTypes
    <3>. QED  BY <3>1, <3>2
  <2>3. m.from # c => calls'[m.from] = calls[m.from]
    BY <1>1, <2>1 DEF ClientTypes
  <2>4. Awaited(m)' => Awaited(m)
    BY <2>2, <2>3 DEF Awaited
  <2>5. m.call <= calls'[m.from].n
    <3>1. m.call \in Nat /\ m.call <= calls[m.from].n /\ calls[m.from].n \in Nat /\ call.n \in Nat
      BY <1>1, <1>3, <2>1 DEF MessageOK, ClientTypes, CallRecord
    <3>. QED  BY <1>1, <2>1, <2>3, <3>1 DEF ClientTypes
  <2>6. /\ m.from \in Clients /\ m.call \in Nat /\ m = Message(m.from, m.call, m.req)
        /\ \/ m.req = HeadQuery
           \/ \E head \in EventIds : m.req = SignedEvent(m.from, head)
        /\ Awaited(m) => m.req = IF calls[m.from].st = "posting"
                                 THEN SignedEvent(m.from, calls[m.from].head) ELSE HeadQuery
    BY <1>3 DEF MessageOK
  <2>7. MessageOK(m)'
    BY <1>2, <2>2, <2>3, <2>4, <2>5, <2>6 DEF MessageOK, Message, HeadQuery
  <2>. QED  BY <2>2, <2>4, <2>7
<1>4. ASSUME NEW m, m = Message(c, call.n, Sent(c, call)), call.st \in Waiting
      PROVE  MessageOK(m)'
  <2>1. m.from = c /\ m.call = call.n /\ m.req = Sent(c, call)
    BY <1>4 DEF Message
  <2>2. calls'[c] = call /\ call.n \in Nat
    BY <1>1 DEF ClientTypes, CallRecord
  <2>3. call.st = "posting" => call.head \in EventIds
    BY DEF ClientMove
  <2>4. call.n <= calls'[m.from].n
    BY <2>1, <2>2
  <2>5. /\ m = Message(m.from, m.call, m.req)
        /\ m.req = IF calls'[m.from].st = "posting"
                   THEN SignedEvent(m.from, calls'[m.from].head) ELSE HeadQuery
    BY <1>4, <2>1, <2>2 DEF Sent, Message
  <2>. QED  BY <1>2, <2>1, <2>2, <2>3, <2>4, <2>5 DEF MessageOK, Message, HeadQuery
<1>5. \A m \in net' : MessageOK(m)'
  BY <1>1, <1>3, <1>4 DEF NetworkOK, ClientMove
<1>6. ASSUME NEW h \in Handlers
      PROVE  ServingOK(h)' /\ RequestOK(h)' /\ AnswerOK(h)'
  <2>1. RequestOK(h)'
    BY <1>1, <1>2 DEF NetworkOK, RequestOK, HeadQuery, vars
  <2>2. ASSUME NEW m \in Connection(h)'
        PROVE  /\ m \in Connection(h) /\ MessageOK(m)'
               /\ Awaited(m)' => Awaited(m) /\ m.from # c
    <3>1. m \in Connection(h)
      BY <1>1, <2>2 DEF Connection
    <3>2. MessageOK(m)
      BY <1>1, <3>1 DEF NetworkOK, ServingOK
    <3>. QED  BY <1>3, <2>2, <3>1, <3>2
  <2>3. ServingOK(h)'
    <3>1. ASSUME NEW m \in Connection(h)'
          PROVE  /\ MessageOK(m)' /\ pc'[h] # "idle" /\ req'[h] = m.req
                 /\ Awaited(m)' =>
                      m \notin net' /\ \A g \in Handlers : serving'[g] = m => g = h
      <4>1. /\ pc[h] # "idle" /\ req[h] = m.req /\ m # NoClient
            /\ Awaited(m) => m \notin net /\ \A g \in Handlers : serving[g] = m => g = h
        BY <1>1, <2>2, <3>1 DEF NetworkOK, ServingOK, Connection
      <4>2. m.from # c /\ m \notin net => m \notin net'
        BY DEF ClientMove, Message
      <4>. QED  BY <1>1, <2>2, <3>1, <4>1, <4>2 DEF vars
    <3>. QED  BY <3>1 DEF ServingOK
  <2>4. AnswerOK(h)'
    <3>1. ASSUME NEW m \in Connection(h)', pc'[h] = "closing", Awaited(m)'
          PROVE  LET d == m.from
                 IN  /\ reply'[h].code = "head_mismatch" =>
                          /\ calls'[d].st = "posting"
                          /\ Seen(calls[d].head, Len(chain[TheProof]) - 1)'
                          /\ calls'[d].read => Stale(d)'
                     /\ reply'[h].code = "exported" /\ calls'[d].st # "posting" =>
                          calls'[d].since <= Len(reply'[h].events)
      <4>1. /\ m \in Connection(h) /\ Awaited(m) /\ m.from # c /\ m.from \in Clients
        BY <1>1, <2>2, <3>1 DEF MessageOK, NetworkOK, ServingOK
      <4>2. calls'[m.from] = calls[m.from]
        BY <1>1, <4>1 DEF ClientTypes
      <4>3. AnswerOK(h) /\ pc' = pc /\ reply' = reply
        BY <1>1 DEF NetworkOK, vars
      <4>4. Stale(m.from) => Stale(m.from)'
        <5>1. ASSUME NEW d, d # c, Stale(d) PROVE Stale(d)'
          BY <5>1, StaleAfter
        <5>. QED  BY <4>1, <5>1
      <4>5. Seen(calls[m.from].head, Len(chain[TheProof]) - 1)'
              <=> Seen(calls[m.from].head, Len(chain[TheProof]) - 1)
        BY <1>1, <4>2 DEF Seen, vars
      <4>. QED  BY <3>1, <4>1, <4>2, <4>3, <4>4, <4>5 DEF AnswerOK
    <3>. QED  BY <3>1 DEF AnswerOK
  <2>. QED  BY <2>1, <2>3, <2>4
<1>. QED  BY <1>5, <1>6 DEF NetworkOK

LEMMA ClientMoveInvariant ==
    ASSUME CInv, NEW c \in Clients, NEW call, ClientMove(c, call), CallOK(c)'
    PROVE  CInv'
<1>1. IInv /\ [Next]_vars /\ UNCHANGED vars
  BY DEF CInv, ClientMove
<1>2. IInv'
  BY <1>1, NextInvariant
<1>3. AnswersOK'
  BY <1>1, AcknowledgementStep, ReadingStep, ExportStep DEF CInv, AnswersOK
<1>4. ClientTypes'
  BY DEF CInv, ClientMove, ClientTypes
<1>5. TheProofOK'
  BY <1>1 DEF CInv, TheProofOK, Exists, vars
<1>. QED  BY <1>2, <1>3, <1>4, <1>5, ClientConnections, OtherCalls DEF CInv

-----------------------------------------------------------------------------
(* Each step of a client. *)

(* What every call keeps: its requests signed links of the chain, and when *)
(* its event closes the proof, links its calls began with.                 *)
LEMMA AlwaysAfter ==
    ASSUME CInv, NEW c \in Clients, NEW call, ClientMove(c, call),
           call.st = "posting" => Seen(call.head, Len(chain[TheProof])),
           wants[c] \in ClosingTypes =>
             /\ calls[c].firsts \subseteq call.firsts
             /\ call.st = "posting" => call.head \in call.firsts
    PROVE  /\ LiveSeen(c, Len(chain[TheProof]))'
           /\ ClosingOK(c)'
           /\ calls'[c] = call /\ call.n <= made' /\ chain' = chain /\ wants' = wants
<1>1. /\ CallOK(c) /\ ClientTypes /\ chain' = chain /\ wants' = wants
      /\ calls' = [calls EXCEPT ![c] = call] /\ call.n <= made'
  BY DEF CInv, ClientMove, vars
<1>2. calls'[c] = call
  BY <1>1 DEF ClientTypes
<1>3. LiveSeen(c, Len(chain[TheProof]))'
  <2>1. \A k : k = Len(chain[TheProof]) => LiveSeen(c, k)'
    BY <1>1, LiveSeenAfter DEF CallOK
  <2>. QED  BY <1>1, <2>1 DEF LiveSeen, Seen
<1>4. ClosingOK(c)'
  <2>1. RowsOf(c)' = RowsOf(c)
    BY <1>1 DEF RowsOf
  <2>2. \A head : Live(SignedEvent(c, head))' =>
                    \/ Live(SignedEvent(c, head))
                    \/ call.st = "posting" /\ head = call.head
    BY LiveAfter
  <2>. QED  BY <1>1, <1>2, <2>1, <2>2 DEF CallOK, ClosingOK
<1>. QED  BY <1>1, <1>2, <1>3, <1>4

(* A call that ends without an answer about the chain.                     *)
LEMMA RaiseStep ==
    ASSUME CInv, NEW c \in Clients, Raise(c), UNCHANGED <<vars, wants, made>>,
           DOMAIN serving' = Handlers,
           \A h \in Handlers : serving'[h] \in {serving[h], NoClient}
    PROVE  CInv'
<1>. DEFINE call == [[NoCall EXCEPT !.n = calls[c].n, !.firsts = calls[c].firsts]
                       EXCEPT !.st = "failed"]
<1>1. /\ ClientTypes /\ CallOK(c) /\ calls[c] \in CallRecord
      /\ calls' = [calls EXCEPT ![c] = call] /\ net' = net
  BY DEF CInv, ClientTypes, Raise, End
<1>2. /\ call \in CallRecord /\ call.st = "failed" /\ call.n = calls[c].n
      /\ call.firsts = calls[c].firsts
  BY <1>1 DEF CallRecord, NoCall, Waiting, Finished
<1>. HIDE DEF call
<1>3. ClientMove(c, call)
  <2>1. made' = made /\ made \in Nat /\ calls[c].n <= made /\ calls[c].n \in Nat
    BY <1>1 DEF ClientTypes, CallOK, CallRecord
  <2>. QED  BY <1>1, <1>2, <2>1 DEF ClientMove, Waiting
<1>4. CallOK(c)'
  BY <1>2, <1>3, AlwaysAfter DEF CallOK
<1>. QED  BY <1>3, <1>4, ClientMoveInvariant

LEMMA LoseConnectionStep ==
    ASSUME CInv, NEW c \in Clients, LoseConnection(c)
    PROVE  CInv'
<1>1. Raise(c) /\ UNCHANGED <<vars, wants, made, serving>> /\ DOMAIN serving = Handlers
  BY DEF LoseConnection, CInv, ClientTypes
<1>. QED  BY <1>1, RaiseStep

LEMMA CallStep ==
    ASSUME CInv, NEW c \in Clients, Call(c)
    PROVE  CInv'
<1>. DEFINE last == calls[c]
            new == [NoCall EXCEPT !.n = made + 1, !.firsts = last.firsts]
<1>1. /\ ClientTypes /\ CallOK(c) /\ NetworkOK /\ last \in CallRecord
      /\ made \in Nat /\ made' = made + 1 /\ last.n <= made /\ last.n \in Nat
      /\ UNCHANGED <<vars, wants, serving>> /\ DOMAIN serving = Handlers
  BY DEF CInv, ClientTypes, CallOK, CallRecord, Call
<1>2. chain[TheProof] \in Seq(Event) /\ Len(chain[TheProof]) \in Nat
  BY ClientsAssumption DEF CInv, IInv, TypeOK
<1>3. \A m : MessageOK(m) /\ m.from = c => m.call # made + 1
  BY <1>1 DEF MessageOK
<1>4. Forgotten(c, made + 1)
  <2>1. \A h \in Handlers : \A m \in Connection(h)' : MessageOK(m)
    BY <1>1 DEF NetworkOK, ServingOK, Connection
  <2>. QED  BY <1>1, <1>3, <2>1 DEF Forgotten, NetworkOK
<1>5. PICK retries \in 0..MaxRetries :
        \/ Read(c, [new EXCEPT !.st = "reading", !.read = TRUE, !.left = retries])
        \/ \E head \in IdsOf(chain[TheProof]) :
             Post(c, [new EXCEPT !.left = retries, !.firsts = @ \cup {head}], head)
  BY DEF Call
<1>6. retries \in Nat
  BY ClientsAssumption
<1>7. /\ new \in CallRecord /\ new.n = made + 1 /\ new.firsts = last.firsts
      /\ new.read = FALSE
  <2>1. last.firsts \in SUBSET EventIds /\ made + 1 \in Nat
    BY <1>1 DEF CallRecord
  <2>. QED  BY <2>1 DEF CallRecord, NoCall, NoHead
<1>. HIDE DEF new
<1>8. CASE Read(c, [new EXCEPT !.st = "reading", !.read = TRUE, !.left = retries])
  <2>. DEFINE call == [[new EXCEPT !.st = "reading", !.read = TRUE, !.left = retries]
                         EXCEPT !.since = Len(chain[TheProof])]
  <2>1. /\ call \in CallRecord /\ call.st = "reading" /\ call.n = made + 1
        /\ call.firsts = last.firsts /\ call.since = Len(chain[TheProof])
    BY <1>2, <1>6, <1>7 DEF CallRecord, Waiting
  <2>2. /\ calls' = [calls EXCEPT ![c] = call]
        /\ net' = net \cup {Message(c, call.n, HeadQuery)}
    BY <1>8 DEF Read
  <2>. HIDE DEF call
  <2>3. ClientMove(c, call)
    BY <1>1, <1>4, <2>1, <2>2 DEF ClientMove, Waiting, Sent
  <2>4. LiveSeen(c, calls[c].since)'
    BY <2>1, <2>3, AlwaysAfter DEF LiveSeen, Seen
  <2>5. call.since <= Len(chain'[TheProof])
    BY <1>2, <2>1, <2>3, AlwaysAfter
  <2>6. CallOK(c)'
    BY <2>1, <2>3, <2>4, <2>5, AlwaysAfter DEF CallOK
  <2>. QED  BY <2>3, <2>6, ClientMoveInvariant
<1>9. ASSUME NEW head \in IdsOf(chain[TheProof]),
             Post(c, [new EXCEPT !.left = retries, !.firsts = @ \cup {head}], head)
      PROVE  CInv'
  <2>. DEFINE call == [[new EXCEPT !.left = retries, !.firsts = @ \cup {head}]
                         EXCEPT !.st = "posting", !.head = head]
  <2>1. head \in EventIds /\ Seen(head, Len(chain[TheProof]))
    <3>1. PICK i \in DOMAIN chain[TheProof] : chain[TheProof][i].id = head
      BY <1>9 DEF IdsOf
    <3>2. i <= Len(chain[TheProof]) /\ chain[TheProof][i] \in Event
      BY <1>2, <3>1
    <3>. QED  BY <3>1, <3>2 DEF Seen, Event
  <2>2. /\ call \in CallRecord /\ call.st = "posting" /\ call.n = made + 1
        /\ call.firsts = last.firsts \cup {head} /\ call.head = head /\ call.read = FALSE
    BY <1>6, <1>7, <2>1 DEF CallRecord, Waiting
  <2>3. /\ calls' = [calls EXCEPT ![c] = call]
        /\ net' = net \cup {Message(c, call.n, SignedEvent(c, head))}
    BY <1>9 DEF Post
  <2>. HIDE DEF call
  <2>4. ClientMove(c, call)
    BY <1>1, <1>4, <2>1, <2>2, <2>3 DEF ClientMove, Waiting, Sent
  <2>5. CallOK(c)'
    BY <2>1, <2>2, <2>4, AlwaysAfter DEF CallOK
  <2>. QED  BY <2>4, <2>5, ClientMoveInvariant
<1>. QED  BY <1>5, <1>8, <1>9

(* The connection of an answer is the only one its call has.               *)
LEMMA AnsweredCall ==
    ASSUME CInv, NEW h \in Handlers, Answer(h), NEW c, c = serving[h].from
    PROVE  /\ c \in Clients /\ calls[c].st \in Waiting /\ calls[c] \in CallRecord
           /\ pc[h] = "closing" /\ serving[h] \in Connection(h) /\ Awaited(serving[h])
           /\ req[h] = IF calls[c].st = "posting"
                       THEN SignedEvent(c, calls[c].head) ELSE HeadQuery
           /\ calls[c].st = "posting" => calls[c].head \in EventIds
           /\ Forgotten(c, calls[c].n)
           /\ DOMAIN serving' = Handlers
           /\ \A g \in Handlers : serving'[g] \in {serving[g], NoClient}
           /\ UNCHANGED <<vars, wants, made>>
<1>1. /\ pc[h] = "closing" /\ serving[h] # NoClient /\ Awaited(serving[h])
      /\ UNCHANGED <<vars, wants, made>>
      /\ serving' = [serving EXCEPT ![h] = NoClient] /\ ClientTypes /\ NetworkOK
  BY DEF CInv, Answer
<1>2. PICK m : m = serving[h]
  OBVIOUS
<1>3. m \in Connection(h) /\ m # NoClient
  BY <1>1, <1>2 DEF Connection
<1>4. /\ MessageOK(m) /\ req[h] = m.req /\ m \notin net
      /\ \A g \in Handlers : serving[g] = m => g = h
  BY <1>1, <1>2, <1>3 DEF NetworkOK, ServingOK
<1>5. /\ c = m.from /\ c \in Clients /\ calls[c].st \in Waiting /\ calls[c].n = m.call
      /\ calls[c] \in CallRecord /\ m = Message(c, m.call, m.req)
  BY <1>1, <1>2, <1>4 DEF MessageOK, Awaited, ClientTypes
<1>6. m.req = IF calls[c].st = "posting" THEN SignedEvent(c, calls[c].head) ELSE HeadQuery
  BY <1>1, <1>2, <1>4, <1>5 DEF MessageOK
<1>7. ASSUME calls[c].st = "posting"
      PROVE  calls[c].head \in EventIds
  <2>1. m.req = HeadQuery \/ \E k \in EventIds : m.req = SignedEvent(c, k)
    BY <1>4, <1>5 DEF MessageOK
  <2>. QED  BY <1>6, <1>7, <2>1, SignedEventInjective
<1>8. ASSUME NEW x, MessageOK(x), x.from = c, x.call = calls[c].n
      PROVE  x = m
  <2>1. Awaited(x)
    BY <1>5, <1>8 DEF Awaited
  <2>2. x = Message(c, x.call, x.req) /\ x.req = m.req /\ x.call = m.call
    BY <1>5, <1>6, <1>8, <2>1 DEF MessageOK
  <2>. QED  BY <1>5, <2>2
<1>9. Forgotten(c, calls[c].n)
  <2>1. ASSUME NEW x \in net, x.from = c, x.call = calls[c].n
        PROVE  FALSE
    <3>1. MessageOK(x)
      BY <1>1 DEF NetworkOK
    <3>. QED  BY <1>4, <1>8, <2>1, <3>1
  <2>2. ASSUME NEW g \in Handlers, NEW x \in Connection(g)', x.from = c,
               x.call = calls[c].n
        PROVE  FALSE
    <3>1. g # h /\ x \in Connection(g) /\ x = serving[g]
      BY <1>1, <2>2 DEF Connection, ClientTypes
    <3>2. MessageOK(x)
      BY <1>1, <3>1 DEF NetworkOK, ServingOK
    <3>. QED  BY <1>4, <1>8, <2>2, <3>1, <3>2
  <2>. QED  BY <2>1, <2>2 DEF Forgotten
<1>10. /\ DOMAIN serving' = Handlers
       /\ \A g \in Handlers : serving'[g] \in {serving[g], NoClient}
  BY <1>1 DEF ClientTypes
<1>. QED  BY <1>1, <1>2, <1>3, <1>4, <1>5, <1>6, <1>7, <1>9, <1>10

(* A call that goes on or ends with what it was told.                      *)
LEMMA GoesOn ==
    ASSUME CInv, NEW h \in Handlers, Answer(h), NEW c, c = serving[h].from,
           NEW call \in CallRecord, call.n = calls[c].n,
           calls' = [calls EXCEPT ![c] = call],
           call.st = "posting" => call.head \in EventIds,
           \/ /\ call.st \in Waiting
              /\ net' = net \cup {Message(c, call.n, Sent(c, call))}
           \/ call.st \notin Waiting /\ UNCHANGED net
    PROVE  ClientMove(c, call)
<1>1. CallOK(c) /\ ClientTypes
  BY AnsweredCall DEF CInv
<1>2. made \in Nat /\ made' = made /\ calls[c].n <= made /\ call.n \in Nat
  BY <1>1, AnsweredCall DEF CallOK, ClientTypes, CallRecord
<1>. QED  BY <1>2, AnsweredCall DEF ClientMove

(* A stored event's answer: its row is the client's, over the signed head. *)
LEMMA StoredAnswerStep ==
    ASSUME CInv, NEW h \in Handlers, Answer(h), NEW c, c = serving[h].from,
           calls[c].st = "posting", reply[h].code = "stored",
           End(c, calls[c], "returned")
    PROVE  CInv'
<1>. DEFINE call == [calls[c] EXCEPT !.st = "returned"]
            k == reply[h].seq
<1>1. /\ ClientTypes /\ TheProofOK /\ IInv /\ CallOK(c) /\ AcknowledgementOK(h)
      /\ c \in Clients /\ calls[c] \in CallRecord /\ pc[h] = "closing"
      /\ req[h] = SignedEvent(c, calls[c].head) /\ calls[c].head \in EventIds
  BY AnsweredCall DEF CInv, AnswersOK
<1>2. /\ call \in CallRecord /\ call.n = calls[c].n /\ call.st = "returned"
      /\ call.firsts = calls[c].firsts /\ call.head = calls[c].head
      /\ calls' = [calls EXCEPT ![c] = call] /\ net' = net
  BY <1>1 DEF CallRecord, Finished, End
<1>. HIDE DEF call
<1>3. ClientMove(c, call)
  BY <1>2, GoesOn DEF Waiting
<1>4. /\ req[h].pid = TheProof /\ req[h].nonce = c /\ req[h].type = wants[c]
      /\ req[h].head = calls[c].head
  BY <1>1, SignedEventType
<1>5. /\ k \in DOMAIN chain[TheProof] /\ chain[TheProof][k].nonce = c
      /\ chain[TheProof][k].type = wants[c] /\ chain[TheProof][k].head = calls[c].head
  BY <1>1, <1>4 DEF AcknowledgementOK
<1>6. chain[TheProof][k].prev = calls[c].head
  <2>1. k > 1
    <3>1. chain[TheProof] \in Seq(Event)
      BY <1>1, ClientsAssumption DEF IInv, TypeOK
    <3>2. k # 1
      BY <1>1, <1>5, ClientsAssumption DEF TheProofOK
    <3>. QED  BY <1>5, <3>1, <3>2
  <2>2. ChainLinked /\ TheProof \in ProofIds /\ proofs[TheProof].version = CurrentVersion
    BY <1>1, ClientsAssumption DEF IInv, ChainsOK, TheProofOK
  <2>. QED  BY <1>5, <2>1, <2>2 DEF ChainLinked
<1>7. \E i \in DOMAIN chain'[TheProof] : StoredFor(c, i)'
  BY <1>2, <1>3, <1>5, <1>6, AlwaysAfter, <1>1 DEF StoredFor
<1>8. CallOK(c)'
  BY <1>1, <1>2, <1>3, <1>7, AlwaysAfter DEF CallOK
<1>. QED  BY <1>1, <1>3, <1>8, ClientMoveInvariant

(* 409 head_mismatch: the head is read again.                              *)
LEMMA MismatchAnswerStep ==
    ASSUME CInv, NEW h \in Handlers, Answer(h), NEW c, c = serving[h].from,
           calls[c].st = "posting", reply[h].code = "head_mismatch",
           Read(c, [calls[c] EXCEPT !.st = "rereading"])
    PROVE  CInv'
<1>. DEFINE n == Len(chain[TheProof])
            call == [[calls[c] EXCEPT !.st = "rereading"] EXCEPT !.since = n]
<1>1. /\ c \in Clients /\ calls[c] \in CallRecord
      /\ Seen(calls[c].head, n - 1) /\ (calls[c].read => Stale(c))
      /\ n \in Nat
  <2>1. AnswerOK(h) /\ chain[TheProof] \in Seq(Event)
    BY ClientsAssumption DEF CInv, NetworkOK, IInv, TypeOK
  <2>. QED  BY <2>1, AnsweredCall DEF AnswerOK
<1>2. /\ call \in CallRecord /\ call.n = calls[c].n /\ call.st = "rereading"
      /\ call.firsts = calls[c].firsts /\ call.head = calls[c].head
      /\ call.read = calls[c].read /\ call.since = n
      /\ calls' = [calls EXCEPT ![c] = call]
      /\ net' = net \cup {Message(c, call.n, HeadQuery)}
  BY <1>1 DEF CallRecord, Waiting, Read
<1>. HIDE DEF call
<1>3. ClientMove(c, call)
  BY <1>2, GoesOn DEF Waiting, Sent
<1>4. /\ calls'[c] = call /\ chain' = chain
  BY <1>1, <1>2, <1>3, AlwaysAfter
<1>5. call.since <= Len(chain'[TheProof]) /\ LiveSeen(c, calls[c].since)'
  <2>1. LiveSeen(c, Len(chain[TheProof]))'
    BY <1>1, <1>2, <1>3, AlwaysAfter
  <2>. QED  BY <1>1, <1>2, <1>4, <2>1 DEF LiveSeen, Seen
<1>6. Seen(calls[c].head, calls[c].since - 1)'
  BY <1>1, <1>2, <1>4 DEF Seen
<1>7. call.read => Stale(c)'
  BY <1>1, <1>2, <1>3, StaleAfter
<1>8. CallOK(c)'
  BY <1>1, <1>2, <1>3, <1>4, <1>5, <1>6, <1>7, AlwaysAfter DEF CallOK
<1>. QED  BY <1>1, <1>3, <1>8, ClientMoveInvariant

(* The head a call reads in an export, consistent or not, was the chain's  *)
(* since it asked: the link of the last row the server read for it.        *)
LEMMA ReadHead ==
    ASSUME CInv, NEW h \in Handlers, Answer(h), NEW c, c = serving[h].from,
           calls[c].st # "posting", reply[h].code = "exported",
           NEW export \in Received(reply[h]),
           NEW read, read = HeadRead(export.events, export.head), read # NoHead,
           NEW k, k = Len(reply[h].events)
    PROVE  /\ k \in DOMAIN chain[TheProof] /\ chain[TheProof][k].id = read
           /\ k \in Nat /\ k >= calls[c].since /\ read \in EventIds
<1>. DEFINE rep == reply[h]
            rowsOf == chain[TheProof]
<1>1. /\ c \in Clients /\ pc[h] = "closing" /\ req[h] = HeadQuery
      /\ calls[c] \in CallRecord /\ serving[h] \in Connection(h) /\ Awaited(serving[h])
  BY AnsweredCall
<1>2. req[h].pid = TheProof
  BY <1>1, QueryType
<1>3. /\ rowsOf \in Seq(Event) /\ TheProofOK /\ ExportOK(h) /\ AnswerOK(h)
      /\ FirstId # NoHead
  BY ClientsAssumption, IdsAssumption
     DEF CInv, IInv, TypeOK, AnswersOK, NetworkOK, NoHead
<1>4. k \in 0..Len(rowsOf) /\ rep.events = SubSeq(rowsOf, 1, k) /\ rep.head = ChainHead(rep.events)
  BY <1>1, <1>2, <1>3 DEF ExportOK
<1>5. calls[c].since <= k /\ calls[c].since \in Nat
  BY <1>1, <1>3 DEF AnswerOK, CallRecord
<1>6. rep.events \in Seq(Event) /\ Len(rep.events) = k
  BY <1>3, <1>4
<1>7. k # 0 => ChainHead(rep.events) = rowsOf[k].id
  BY <1>3, <1>4, <1>6 DEF ChainHead, LinkHash
<1>8. /\ export.events \in {rep.events, SubSeq(rep.events, 1, Len(rep.events) - 1)}
      /\ export.events # rep.events => export.head = rep.head
  BY DEF Received
<1>9. read = ChainHead(export.events) /\ read = export.head
  BY DEF HeadRead
<1>10. export.events = rep.events
  <2>. SUFFICES ASSUME export.events # rep.events PROVE FALSE
    OBVIOUS
  <2>1. export.events = SubSeq(rep.events, 1, k - 1) /\ read = rep.head
    BY <1>6, <1>8, <1>9
  <2>2. k \in Nat
    BY <1>3, <1>4
  <2>3. CASE k - 1 <= 0
    <3>1. export.events = <<>>
      BY <1>6, <2>1, <2>2, <2>3
    <3>. QED  BY <1>9, <3>1 DEF ChainHead
  <2>4. CASE k - 1 > 0
    <3>1. export.events \in Seq(Event) /\ Len(export.events) = k - 1
          /\ export.events[k - 1] = rep.events[k - 1]
      BY <1>6, <2>1, <2>2, <2>4
    <3>2. rep.events[k - 1] = rowsOf[k - 1]
      BY <1>3, <1>4, <2>2, <2>4
    <3>3. ChainHead(export.events) = rowsOf[k - 1].id
      BY <2>4, <3>1, <3>2 DEF ChainHead, LinkHash
    <3>4. rowsOf[k - 1].id = rowsOf[k].id
      <4>1. k # 0
        BY <2>2, <2>4
      <4>. QED  BY <1>4, <1>7, <1>9, <2>1, <3>3, <4>1
    <3>5. k \in DOMAIN rowsOf /\ k - 1 \in DOMAIN rowsOf
      BY <1>3, <1>4, <2>2, <2>4
    <3>6. k = k - 1
      BY <1>3, <3>4, <3>5 DEF TheProofOK
    <3>. QED  BY <2>2, <3>6
  <2>. QED  BY <2>2, <2>3, <2>4
<1>11. k # 0
  <2>1. ASSUME k = 0 PROVE rep.events = <<>>
    <3>1. Len(rep.events) = 0
      BY <1>6, <2>1
    <3>. QED  BY <1>6, <3>1
  <2>. QED  BY <1>9, <1>10, <2>1 DEF ChainHead
<1>12. read = rowsOf[k].id
  BY <1>7, <1>9, <1>10, <1>11
<1>13. k \in DOMAIN rowsOf /\ k \in Nat
  BY <1>3, <1>4, <1>11
<1>14. rowsOf[k].id \in EventIds
  <2>1. rowsOf[k] \in Event
    BY <1>3, <1>13
  <2>. QED  BY <2>1 DEF Event
<1>. QED  BY <1>5, <1>12, <1>13, <1>14

(* A call posts its event over the head it has read.                       *)
LEMMA PostReadStep ==
    ASSUME CInv, NEW h \in Handlers, Answer(h), NEW c, c = serving[h].from,
           calls[c].st \in {"reading", "rereading"},
           NEW k \in DOMAIN chain[TheProof], k \in Nat, k >= calls[c].since,
           NEW read \in EventIds, chain[TheProof][k].id = read,
           NEW call \in CallRecord, call.n = calls[c].n, call.since = calls[c].since,
           call.st = "posting", call.head = read,
           calls' = [calls EXCEPT ![c] = call],
           net' = net \cup {Message(c, call.n, SignedEvent(c, read))},
           wants[c] \in ClosingTypes => call.firsts = calls[c].firsts \cup {read}
    PROVE  CInv'
<1>1. /\ c \in Clients /\ CallOK(c) /\ calls[c].since \in Nat
      /\ chain[TheProof] \in Seq(Event)
  BY AnsweredCall, ClientsAssumption DEF CInv, CallRecord, IInv, TypeOK
<1>2. ClientMove(c, call)
  BY GoesOn DEF Waiting, Sent
<1>3. Seen(read, k) /\ Seen(read, Len(chain[TheProof]))
  BY <1>1 DEF Seen
<1>4. LiveSeen(c, k)'
  <2>1. LiveSeen(c, calls[c].since)
    BY <1>1 DEF CallOK
  <2>2. LiveSeen(c, k)
    BY <1>1, <2>1 DEF LiveSeen, Seen
  <2>. QED  BY <1>2, <1>3, <2>2, LiveSeenAfter
<1>5. /\ LiveSeen(c, Len(chain[TheProof]))' /\ ClosingOK(c)'
      /\ calls'[c] = call /\ call.n <= made' /\ chain' = chain
  BY <1>1, <1>2, <1>3, AlwaysAfter
<1>6. HeadReadOK(c, k)'
  BY <1>4, <1>5 DEF HeadReadOK
<1>7. CallOK(c)'
  BY <1>5, <1>6 DEF CallOK
<1>. QED  BY <1>1, <1>2, <1>7, ClientMoveInvariant

(* A call gives up: the head it read is past the one that was refused.     *)
LEMMA GiveUpStep ==
    ASSUME CInv, NEW h \in Handlers, Answer(h), NEW c, c = serving[h].from,
           calls[c].st = "rereading",
           NEW k \in DOMAIN chain[TheProof], k \in Nat, k >= calls[c].since,
           NEW read \in EventIds, chain[TheProof][k].id = read,
           End(c, [calls[c] EXCEPT !.current = read], "mismatch")
    PROVE  CInv'
<1>. DEFINE call == [[calls[c] EXCEPT !.current = read] EXCEPT !.st = "mismatch"]
<1>1. /\ c \in Clients /\ CallOK(c) /\ calls[c] \in CallRecord /\ TheProofOK
      /\ calls[c].since \in Nat /\ chain[TheProof] \in Seq(Event)
  BY AnsweredCall, ClientsAssumption DEF CInv, CallRecord, IInv, TypeOK
<1>2. /\ call \in CallRecord /\ call.n = calls[c].n /\ call.st = "mismatch"
      /\ call.firsts = calls[c].firsts /\ call.head = calls[c].head
      /\ call.read = calls[c].read /\ call.since = calls[c].since
      /\ call.current = read
      /\ calls' = [calls EXCEPT ![c] = call] /\ net' = net
  BY <1>1 DEF CallRecord, Finished, End
<1>. HIDE DEF call
<1>3. ClientMove(c, call)
  BY <1>2, GoesOn DEF Waiting
<1>4. /\ LiveSeen(c, Len(chain[TheProof]))' /\ ClosingOK(c)'
      /\ calls'[c] = call /\ call.n <= made' /\ chain' = chain
  BY <1>1, <1>2, <1>3, AlwaysAfter
<1>5. read # calls[c].head
  <2>1. PICK i \in DOMAIN chain[TheProof] :
          i <= calls[c].since - 1 /\ chain[TheProof][i].id = calls[c].head
    BY <1>1 DEF CallOK, Seen
  <2>2. i < k
    BY <1>1, <2>1
  <2>. QED  BY <1>1, <2>1, <2>2 DEF TheProofOK
<1>6. NewHeadOK(c, k)'
  BY <1>2, <1>4, <1>5 DEF NewHeadOK
<1>7. call.read => Stale(c)'
  BY <1>1, <1>2, <1>3, StaleAfter DEF CallOK
<1>8. CallOK(c)'
  BY <1>2, <1>4, <1>6, <1>7 DEF CallOK
<1>. QED  BY <1>1, <1>3, <1>8, ClientMoveInvariant

LEMMA ExportReadStep ==
    ASSUME CInv, NEW h \in Handlers, Answer(h), NEW c, c = serving[h].from,
           calls[c].st # "posting", reply[h].code = "exported",
           NEW export \in Received(reply[h]), GetExport(c, export.events, export.head)
    PROVE  CInv'
<1>. DEFINE read == HeadRead(export.events, export.head)
            k == Len(reply[h].events)
<1>1. /\ c \in Clients /\ calls[c] \in CallRecord /\ UNCHANGED <<vars, wants, made>>
      /\ DOMAIN serving' = Handlers
      /\ \A g \in Handlers : serving'[g] \in {serving[g], NoClient}
  BY AnsweredCall
<1>2. CASE read = NoHead /\ Raise(c)
  BY <1>1, <1>2, RaiseStep
<1>3. ASSUME read # NoHead
      PROVE  /\ k \in DOMAIN chain[TheProof] /\ chain[TheProof][k].id = read
             /\ k \in Nat /\ k >= calls[c].since /\ read \in EventIds
  BY <1>3, ReadHead
<1>4. CASE /\ read # NoHead /\ calls[c].st = "reading"
           /\ Post(c, [calls[c] EXCEPT !.firsts = @ \cup {read}], read)
  <2>. DEFINE call == [[calls[c] EXCEPT !.firsts = @ \cup {read}]
                         EXCEPT !.st = "posting", !.head = read]
  <2>1. read \in EventIds
    BY <1>3, <1>4
  <2>2. /\ calls' = [calls EXCEPT ![c] = call]
        /\ net' = net \cup {Message(c, call.n, SignedEvent(c, read))}
    BY <1>4 DEF Post
  <2>. HIDE DEF read
  <2>3. /\ call \in CallRecord /\ call.n = calls[c].n /\ call.since = calls[c].since
        /\ call.st = "posting" /\ call.head = read
        /\ call.firsts = calls[c].firsts \cup {read}
    BY <1>1, <2>1 DEF CallRecord, Waiting
  <2>. HIDE DEF call, k
  <2>. QED  BY <1>3, <1>4, <2>2, <2>3, PostReadStep
<1>5. CASE read # NoHead /\ calls[c].st = "rereading" /\ AfterMismatch(c, calls[c], read)
  <2>1. CASE End(c, [calls[c] EXCEPT !.current = read], "mismatch")
    <3>. HIDE DEF read, k
    <3>. QED  BY <1>3, <1>5, <2>1, GiveUpStep
  <2>2. CASE /\ calls[c].left # 0 /\ wants[c] \notin ClosingTypes
             /\ Post(c, [calls[c] EXCEPT !.left = @ - 1, !.read = TRUE], read)
    <3>. DEFINE call == [[calls[c] EXCEPT !.left = @ - 1, !.read = TRUE]
                           EXCEPT !.st = "posting", !.head = read]
    <3>1. read \in EventIds /\ calls[c].left \in Nat
      BY <1>1, <1>3, <1>5 DEF CallRecord
    <3>2. /\ calls' = [calls EXCEPT ![c] = call]
          /\ net' = net \cup {Message(c, call.n, SignedEvent(c, read))}
      BY <2>2 DEF Post
    <3>. HIDE DEF read
    <3>3. calls[c].left - 1 \in Nat
      BY <2>2, <3>1
    <3>4. /\ call \in CallRecord /\ call.n = calls[c].n /\ call.since = calls[c].since
          /\ call.st = "posting" /\ call.head = read
      BY <1>1, <3>1, <3>3 DEF CallRecord, Waiting
    <3>. HIDE DEF call, k
    <3>. QED  BY <1>3, <1>5, <2>2, <3>2, <3>4, PostReadStep
  <2>. QED  BY <1>5, <2>1, <2>2 DEF AfterMismatch
<1>. QED  BY <1>2, <1>4, <1>5 DEF GetExport

LEMMA ClientAnswerStep ==
    ASSUME CInv, NEW h \in Handlers, Answer(h)
    PROVE  CInv'
<1>. DEFINE c == serving[h].from
<1>1. /\ c \in Clients /\ UNCHANGED <<vars, wants, made>> /\ DOMAIN serving' = Handlers
      /\ \A g \in Handlers : serving'[g] \in {serving[g], NoClient}
  BY AnsweredCall
<1>2. CASE Raise(c)
  BY <1>1, <1>2, RaiseStep
<1>3. CASE calls[c].st = "posting" /\ GetPostAnswer(c, reply[h])
  <2>1. CASE reply[h].code = "stored" /\ End(c, calls[c], "returned")
    BY <1>3, <2>1, StoredAnswerStep
  <2>2. CASE /\ reply[h].code = "head_mismatch"
             /\ Read(c, [calls[c] EXCEPT !.st = "rereading"])
    BY <1>3, <2>2, MismatchAnswerStep
  <2>. QED  BY <1>2, <1>3, <2>1, <2>2 DEF GetPostAnswer
<1>4. ASSUME calls[c].st # "posting", reply[h].code = "exported",
             NEW export \in Received(reply[h]), GetExport(c, export.events, export.head)
      PROVE  CInv'
  BY <1>4, ExportReadStep
<1>. QED  BY <1>2, <1>3, <1>4 DEF Answer

LEMMA ClientNextInvariant == CInv /\ [ClientNext]_allVars => CInv'
<1>. SUFFICES ASSUME CInv, [ClientNext]_allVars PROVE CInv'
  OBVIOUS
<1>1. ASSUME NEW c \in Clients, Call(c) \/ LoseConnection(c)
      PROVE  CInv'
  BY <1>1, CallStep, LoseConnectionStep
<1>2. ASSUME NEW h \in Handlers, Deliver(h) \/ ServerStep(h)
      PROVE  CInv'
  BY <1>2, DeliverMoves, ServerStepMoves, ServerStepInvariant
<1>3. ASSUME NEW h \in Handlers, Answer(h)
      PROVE  CInv'
  BY <1>3, ClientAnswerStep
<1>4. CASE ServerCrash
  BY <1>4, ServerCrashMoves, ServerStepInvariant
<1>5. CASE UNCHANGED allVars
  <2>1. ServerMove
    <3>1. \A h \in Handlers : serving[h] = NoClient \/ pc[h] # "idle"
      BY DEF CInv, NetworkOK, ServingOK, Connection
    <3>2. /\ UNCHANGED <<wants, made, calls, net, serving, pc, req>> /\ [Next]_vars
          /\ DOMAIN serving = Handlers
      BY <1>5 DEF allVars, clientVars, vars, CInv, ClientTypes
    <3>. QED  BY <3>1, <3>2 DEF ServerMove, Kept
  <2>. QED  BY <2>1, ServerStepInvariant
<1>. QED  BY <1>1, <1>2, <1>3, <1>4, <1>5 DEF ClientNext

(* The clients' calls and everything in flight for them agree with the     *)
(* chain in every reachable state (client.py, append_signed_event).        *)
THEOREM ClientInvariance == ClientSpec => []CInv
BY ClientInitInvariant, ClientNextInvariant, PTL DEF ClientSpec

-----------------------------------------------------------------------------
(* The properties of AppendClient. *)

(* A HeadMismatchError for a head the SDK read itself is final: the event  *)
(* is not stored then, and no abandoned request for it can store it later, *)
(* for any number of clients, calls and retries (append_signed_event).     *)
THEOREM RejectionIsFinal == ClientSpec => []RejectedIsNotStored
<1>1. CInv => RejectedIsNotStored
  BY DEF CInv, CallOK, Stale, RejectedIsNotStored
<1>. QED  BY <1>1, ClientInvariance, PTL

(* A call that returns has its event in the chain, once, right after the   *)
(* head it signed last (append_signed_event).                              *)
THEOREM ReturnedForGood == ClientSpec => []ReturnedIsStored
<1>1. ASSUME CInv, NEW c \in Clients, calls[c].st = "returned"
      PROVE  \E i \in DOMAIN chain[TheProof] :
               /\ RowsOf(c) = {i}
               /\ chain[TheProof][i].prev = calls[c].head
               /\ chain[TheProof][i].type = wants[c]
  <2>1. PICK i \in DOMAIN chain[TheProof] : StoredFor(c, i)
    BY <1>1 DEF CInv, CallOK
  <2>2. \A j \in DOMAIN chain[TheProof] : chain[TheProof][j].nonce = c => j = i
    BY <1>1, <2>1, ClientsAssumption DEF CInv, IInv, ChainsOK, NonceUsedOnce, StoredFor
  <2>3. RowsOf(c) = {i}
    BY <2>1, <2>2 DEF RowsOf, StoredFor
  <2>. QED  BY <2>1, <2>3 DEF StoredFor
<1>2. CInv => ReturnedIsStored
  BY <1>1 DEF ReturnedIsStored
<1>. QED  BY <1>2, ClientInvariance, PTL

(* A stored closing event follows a head one of its client's calls began   *)
(* with, never one met while trying again (proof-closure.md D-C4).         *)
THEOREM ClosedWhereItBegan == ClientSpec => []ClosedOnFirstHead
<1>1. CInv => ClosedOnFirstHead
  BY DEF CInv, CallOK, ClosingOK, ClosedOnFirstHead
<1>. QED  BY <1>1, ClientInvariance, PTL

(* A head the SDK read and signs was the head of the chain since it asked, *)
(* whatever an inconsistent export said, and the head it reports with a    *)
(* HeadMismatchError is a later one than the refused (current_head).       *)
THEOREM HeadsWereCurrent == ClientSpec => []SignedHeadWasCurrent
<1>1. CInv => SignedHeadWasCurrent
  BY DEF CInv, CallOK, HeadReadOK, NewHeadOK, SignedHeadWasCurrent
<1>. QED  BY <1>1, ClientInvariance, PTL

=============================================================================
