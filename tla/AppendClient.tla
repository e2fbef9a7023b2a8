---------------------------- MODULE AppendClient ----------------------------
(***************************************************************************)
(* The SDK's append_signed_event (flop_proof_sdk/client.py) against the    *)
(* proof API of ProofChain. A call reads the head of the chain with GET    *)
(* /proofs/{id} unless its caller gives one, signs it, posts the event,    *)
(* and on 409 head_mismatch reads the head again and signs the same nonce  *)
(* on it, as often as its caller allows.                                   *)
(*                                                                         *)
(* A client stands for one event its application wants in the chain of     *)
(* TheProof, and is named by the nonce chosen for it. The application may  *)
(* call again for the same event after any failure. A request whose        *)
(* connection was given up stays in transit and may still be delivered; an *)
(* answer may be lost; the server may crash; what answers a GET may be     *)
(* inconsistent.                                                           *)
(***************************************************************************)
EXTENDS ProofChain

CONSTANTS
    Clients,           \* the nonces of the events the applications want
    Author, Body,      \* who signs every event of this instance, and its payload
    TheProof, FirstId, FirstNonce, FirstRequest,
    MaxRetries,        \* the "retries" argument
    MaxCalls,          \* bound: calls all the applications make
    NoClient

ASSUME ClientsAssumption ==
    /\ Clients \subseteq Nonces \ {FirstNonce}
    /\ Author \in Signers /\ Body \in RequestPayloads /\ "bare" \in SentSpellings
    /\ TheProof \in ProofIds /\ FirstId \in EventIds
    /\ FirstNonce \in Nonces /\ FirstRequest \in RequestIds
    /\ MaxRetries \in Nat /\ MaxCalls \in Nat
    /\ NoClient \notin Clients

VARIABLES
    wants,   \* the type of each client's event
    made,    \* the number of calls made so far
    calls,   \* where each client's current (or last) call stands
    net,     \* requests on their way to the API
    serving  \* the call whose connection each handler answers on

clientVars == <<wants, made, calls, net, serving>>
allVars    == <<vars, clientVars>>

Waiting  == {"reading", "posting", "rereading"}
Finished == {"returned", "mismatch", "failed"}

NoCall == [st |-> "idle", n |-> 0, head |-> NoHead, read |-> FALSE,
           left |-> 0, since |-> 0, current |-> NoHead, firsts |-> {}]

ClientInit ==
    /\ proofs = [p \in ProofIds |->
                   IF p = TheProof
                   THEN [rid |-> FirstRequest, version |-> CurrentVersion,
                         status |-> "pending"]
                   ELSE Absent]
    /\ chain = [p \in ProofIds |->
                  IF p = TheProof
                  THEN <<OldRow(FirstId, Author, Body, "bare", FirstNonce)>>
                  ELSE <<>>]
    /\ lock  = NoHandler
    /\ pc    = [h \in Handlers |-> "idle"]
    /\ req   = [h \in Handlers |-> NoRequest]
    /\ rows  = [h \in Handlers |-> NoRows]
    /\ reply = [h \in Handlers |-> NoReply]
    /\ wants \in [Clients -> SentTypes]
    /\ made  = 0
    /\ calls = [c \in Clients |-> NoCall]
    /\ net   = {}
    /\ serving = [h \in Handlers |-> NoClient]

-----------------------------------------------------------------------------
(* The SDK's sign spells every signature without padding.                  *)
(*                                                                         *)
(* The requests of a call, and whether it still waits for an answer: calls *)
(* are numbered, and a call has one request outstanding at a time.         *)
Message(c, n, r) == [from |-> c, call |-> n, req |-> r]
Awaited(m) ==
    /\ calls[m.from].st \in Waiting
    /\ calls[m.from].n = m.call

SignedEvent(c, head) ==
    [op |-> "append", pid |-> TheProof, actor |-> Author, type |-> wants[c],
     payload |-> Body, spelling |-> "bare", nonce |-> c, head |-> head,
     signed |-> TRUE]

HeadQuery == [op |-> "get", pid |-> TheProof]

(* A call goes on with a request to the API, of which it is the sender.    *)
Read(c, call) ==
    /\ calls' = [calls EXCEPT ![c] = [call EXCEPT !.since = Len(chain[TheProof])]]
    /\ net' = net \cup {Message(c, call.n, HeadQuery)}

Post(c, call, head) ==
    /\ calls' = [calls EXCEPT ![c] = [call EXCEPT !.st = "posting", !.head = head]]
    /\ net' = net \cup {Message(c, call.n, SignedEvent(c, head))}

End(c, call, st) ==
    /\ calls' = [calls EXCEPT ![c] = [call EXCEPT !.st = st]]
    /\ UNCHANGED net

(* Every other exception: the caller learns nothing of the chain.          *)
Raise(c) ==
    End(c, [NoCall EXCEPT !.n = calls[c].n, !.firsts = calls[c].firsts], "failed")

(* The application calls append_signed_event, with prior_head (any link it *)
(* may have kept) or without.                                              *)
Call(c) ==
    LET last == calls[c]
        call == [NoCall EXCEPT !.n = made + 1, !.firsts = last.firsts]
    IN  /\ last.st \notin Waiting /\ made < MaxCalls
        /\ made' = made + 1
        /\ \E retries \in 0..MaxRetries :
              \/ Read(c, [call EXCEPT !.st = "reading", !.read = TRUE,
                                      !.left = retries])
              \/ \E head \in IdsOf(chain[TheProof]) :
                   Post(c, [call EXCEPT !.left = retries,
                                        !.firsts = @ \cup {head}], head)
        /\ UNCHANGED <<vars, wants, serving>>

(* Mutation: the head is taken from the events without comparing it.       *)
HeadReadUnchecked(events, head) == ChainHead(events)

(* current_head: the link computed from the exported events, NoHead when   *)
(* there are none or it is not the head the export states.                 *)
HeadRead(events, head) ==
    IF ChainHead(events) = head THEN head ELSE NoHead

(* Mutation: a closing event is signed again like any other. *)
AfterMismatchAnyType(c, call, head) ==
    IF call.left = 0
    THEN End(c, [call EXCEPT !.current = head], "mismatch")
    ELSE Post(c, [call EXCEPT !.left = @ - 1, !.read = TRUE], head)

(* The head was read again: give up, or sign the same nonce on it.         *)
AfterMismatch(c, call, head) ==
    IF call.left = 0 \/ wants[c] \in ClosingTypes
    THEN End(c, [call EXCEPT !.current = head], "mismatch")
    ELSE Post(c, [call EXCEPT !.left = @ - 1, !.read = TRUE], head)

(* An export arrives, with its events and its chain_head.                  *)
GetExport(c, events, head) ==
    LET call == calls[c]
        read == HeadRead(events, head)
    IN  \/ read = NoHead /\ Raise(c)
        \/ /\ read # NoHead /\ call.st = "reading"
           /\ Post(c, [call EXCEPT !.firsts = @ \cup {read}], read)
        \/ read # NoHead /\ call.st = "rereading" /\ AfterMismatch(c, call, read)

(* The answer to the POST: only 409 head_mismatch is not final.            *)
GetPostAnswer(c, answer) ==
    LET call == calls[c]
    IN  \/ answer.code = "stored" /\ End(c, call, "returned")
        \/ /\ answer.code = "head_mismatch"
           /\ Read(c, [call EXCEPT !.st = "rereading"])
        \/ /\ answer.code \notin {"stored", "head_mismatch"}
           /\ Raise(c)

-----------------------------------------------------------------------------
(* A request reaches an idle handler, wanted or not.                       *)
Deliver(h) ==
    \E m \in net :
        /\ \/ m.req.op = "get" /\ GetProof(h, TheProof)
           \/ m.req.op = "append" /\ PostEvent(h, TheProof, m.req)
        /\ net' = net \ {m}
        /\ serving' = [serving EXCEPT ![h] = m]
        /\ UNCHANGED <<wants, made, calls>>

(* The handler goes on; with its session closed the connection is over.    *)
ServerStep(h) ==
    /\ Serve(h)
    /\ serving' = [serving EXCEPT ![h] = IF pc'[h] = "idle" THEN NoClient ELSE @]
    /\ UNCHANGED <<wants, made, calls, net>>

(* The export as the client gets it: the server's, or one whose last event *)
(* or whose chain_head is not the server's.                                *)
Received(export) ==
    {[events |-> export.events, head |-> export.head],
     [events |-> SubSeq(export.events, 1, Len(export.events) - 1), head |-> export.head],
     [events |-> export.events, head |-> FirstId]}

(* The response reaches the call that waits for it.                        *)
Answer(h) ==
    /\ pc[h] = "closing" /\ serving[h] # NoClient /\ Awaited(serving[h])
    /\ LET c == serving[h].from
           answer == reply[h]
       IN  IF calls[c].st = "posting" THEN GetPostAnswer(c, answer)
           ELSE IF answer.code = "exported"
           THEN \E export \in Received(answer) :
                    GetExport(c, export.events, export.head)
           ELSE Raise(c)
    /\ serving' = [serving EXCEPT ![h] = NoClient]
    /\ UNCHANGED <<vars, wants, made>>

(* A connection error or the timeout: FlopProofError. The request may be   *)
(* anywhere: on its way, being served, or answered.                        *)
LoseConnection(c) ==
    /\ calls[c].st \in Waiting
    /\ Raise(c)
    /\ UNCHANGED <<vars, wants, made, serving>>

ServerCrash ==
    /\ Crash
    /\ serving' = [h \in Handlers |-> NoClient]
    /\ UNCHANGED <<wants, made, calls, net>>

ClientNext ==
    \/ \E c \in Clients : Call(c) \/ LoseConnection(c)
    \/ \E h \in Handlers : Deliver(h) \/ ServerStep(h) \/ Answer(h)
    \/ ServerCrash

ClientSpec == ClientInit /\ [][ClientNext]_allVars

-----------------------------------------------------------------------------
(* Properties. *)

RowsOf(c) == {i \in DOMAIN chain[TheProof] : chain[TheProof][i].nonce = c}

(* HeadMismatchError is final when the SDK read the head it signed: the    *)
(* event is in the chain neither then nor later, although requests of      *)
(* earlier calls for it were given up and may still arrive: whatever they  *)
(* signed, the chain has moved past it. ("A rejected event is not stored", *)
(* client.py, append_signed_event.)                                        *)
RejectedIsNotStored ==
    \A c \in Clients :
        calls[c].st = "mismatch" /\ calls[c].read => RowsOf(c) = {}

(* A call that returns has its event in the chain, once, right after the   *)
(* head it signed last, and no other call's copy of it took the place.     *)
ReturnedIsStored ==
    \A c \in Clients :
        calls[c].st = "returned" =>
            \E i \in DOMAIN chain[TheProof] :
                /\ RowsOf(c) = {i}
                /\ chain[TheProof][i].prev = calls[c].head
                /\ chain[TheProof][i].type = wants[c]

(* A proof is never closed over events its closer's call did not start     *)
(* from: a stored closing event follows the head a call began with, not    *)
(* one it met while trying again (proof-closure.md D-C4).                  *)
ClosedOnFirstHead ==
    \A c \in Clients : wants[c] \in ClosingTypes =>
        \A i \in RowsOf(c) : chain[TheProof][i].prev \in calls[c].firsts

(* A head the SDK read by itself was the head of the chain at some moment  *)
(* since it asked, also when the answer was not consistent, and the head   *)
(* it reports with a HeadMismatchError is not the one that was refused.    *)
SignedHeadWasCurrent ==
    \A c \in Clients :
        LET call == calls[c]
        IN  /\ call.st = "posting" /\ call.read =>
                 \E k \in DOMAIN chain[TheProof] :
                    k >= call.since /\ chain[TheProof][k].id = call.head
            /\ call.st = "mismatch" =>
                 \E k \in DOMAIN chain[TheProof] :
                    /\ k >= call.since /\ chain[TheProof][k].id = call.current
                    /\ call.current # call.head

=============================================================================
