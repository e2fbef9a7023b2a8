------------------------------ MODULE Verifier ------------------------------
(***************************************************************************)
(* The checks of app/verification_core.py over an exported chain, used by  *)
(* GET /proofs/{id}/verify and by the offline verifier (app/verifier.py).  *)
(*                                                                         *)
(* An exported event is a record                                           *)
(*   [id, type, actor, payload, hash, canonical, sig, nonce, seq, prev]    *)
(* hash is the claimed payload hash, a payload: sha256 is injective.       *)
(* A canonical message is [tag, version, fields]; tag is "none" for the    *)
(* untagged v1/v2 messages, whose fields are positions in one string, so   *)
(* that a request and an event of these versions may be the same message.  *)
(* A signature is [by, over, spelling]: it verifies for that DID and       *)
(* message only, and in either spelling of its 64 bytes, with or without   *)
(* "=="; two signatures are equal when their texts are.                    *)
(* The payload of a request.created has the form "request"; its body is    *)
(* [from, text, nonce, sig, canonical].                                    *)
(***************************************************************************)
EXTENDS Authorization

CONSTANTS
    ProofIds,        \* values that is_proof_id accepts
    NoNonce,         \* a canonical that carries no nonce
    NoHead,          \* previous_event_hash None
    Link(_, _),      \* hash_event_record of an event, in a proof
    Content(_, _)    \* what one content check says of a payload, see below

LegacyVersions == {"1", "2"}
TaggedVersions == {"3", "4"}
Versions       == LegacyVersions \cup TaggedVersions

(* The two texts decode_ed25519_signature accepts for one signature.       *)
Spellings == {"bare", "padded"}

Untagged(fields) == [tag |-> "none", version |-> "none", fields |-> fields]

RequestCanonical(version, room, nonce, text) ==
    IF version \in LegacyVersions THEN Untagged(<<room, nonce, text>>)
    ELSE [tag |-> "request", version |-> version, fields |-> <<room, nonce, text>>]

EventCanonical(version, pid, type, hash, nonce, head) ==
    IF version \in LegacyVersions THEN Untagged(<<pid, type, hash>>)
    ELSE [tag |-> "event", version |-> version,
          fields |-> IF version = "4" THEN <<pid, type, hash, nonce, head>>
                                      ELSE <<pid, type, hash, nonce>>]

(* The parsers of the tagged formats; a room is never a proof_id.          *)
ParsesAsRequest(version, canonical) ==
    /\ canonical.tag = "request"
    /\ canonical.version = version
    /\ canonical.fields[1] \notin ProofIds

ParsesAsEvent(version, canonical) ==
    canonical.tag = "event" /\ canonical.version = version

(* The nonce inside a tagged canonical, NoNonce when it does not parse as  *)
(* the kind the event's type calls for.                                    *)
SignedNonce(version, event) ==
    IF event.type = RequestCreated
    THEN IF ParsesAsRequest(version, event.canonical)
         THEN event.canonical.fields[2] ELSE NoNonce
    ELSE IF ParsesAsEvent(version, event.canonical)
         THEN event.canonical.fields[4] ELSE NoNonce

(* The head inside a version-4 event canonical.                            *)
SignedHead(event) ==
    IF ParsesAsEvent("4", event.canonical)
    THEN event.canonical.fields[5] ELSE NoHead

-----------------------------------------------------------------------------
(* The checks of one event, in the order of verify_proof_events.           *)

SequenceValid(events, i) == events[i].seq = i

(* Mutation: the link is compared only where it is missing. *)
ChainValidAnyLink(pid, events, i) ==
    IF i = 1 THEN events[i].prev = NoHead ELSE events[i].prev # NoHead

ChainValid(pid, events, i) ==
    events[i].prev = IF i = 1 THEN NoHead ELSE Link(pid, events[i - 1])

PayloadHashValid(event) == event.hash = event.payload

(* Mutation: the signed nonce is compared, the payload hash is not. *)
CanonicalValidNoHash(pid, version, event) ==
    IF event.type = RequestCreated
    THEN /\ event.payload.form = "request"
         /\ event.canonical = event.payload.body.canonical
    ELSE /\ version = "4" => SignedHead(event) # NoHead
         /\ event.canonical.fields[1] = pid

(* A request's canonical is the one its payload carries; an event's is     *)
(* rebuilt from the exported fields, in version 4 with the head it signs.  *)
CanonicalValid(pid, version, event) ==
    IF event.type = RequestCreated
    THEN /\ event.payload.form = "request"
         /\ event.canonical = event.payload.body.canonical
    ELSE /\ version = "4" => SignedHead(event) # NoHead
         /\ event.canonical = EventCanonical(version, pid, event.type, event.hash,
                                             event.nonce, SignedHead(event))

(* A request.created is bound to its own request, in a room that is not a  *)
(* proof: an untagged event message is no request (event-replay.md 1.2).   *)
RequestBindingValid(version, event) ==
    /\ event.payload.form = "request"
    /\ IF version \in LegacyVersions
       THEN /\ event.canonical.tag = "none"
            /\ event.canonical.fields[1] \notin ProofIds
       ELSE ParsesAsRequest(version, event.canonical)
    /\ event.canonical.fields[2] = event.payload.body.nonce
    /\ event.canonical.fields[3] = event.payload.body.text
    /\ event.sig = event.payload.body.sig
    /\ event.actor = event.payload.body.from

(* D-R11, D-R12: only the formats of the proof's own version.              *)
FormatValid(version, event) ==
    IF version \in LegacyVersions
    THEN event.canonical.tag = "none"
    ELSE /\ SignedNonce(version, event) # NoNonce
         /\ event.nonce = SignedNonce(version, event)

(* Mutation: only the event before is looked at. *)
ReplayValidLastOnly(version, events, i) ==
    \A j \in {i - 1} \cap 1..i :
        events[i].canonical # events[j].canonical \/ events[i].sig # events[j].sig

(* A signed nonce, and in versions 1 and 2 a (canonical, signature) pair,  *)
(* is new. The pair holds the signature's text.                            *)
ReplayValid(version, events, i) ==
    IF version \in LegacyVersions
    THEN \A j \in 1..(i - 1) :
            events[i].canonical # events[j].canonical \/ events[i].sig # events[j].sig
    ELSE \/ SignedNonce(version, events[i]) = NoNonce
         \/ \A j \in 1..(i - 1) :
               SignedNonce(version, events[i]) # SignedNonce(version, events[j])

SignatureValid(event) ==
    \E w \in Spellings :
        event.sig = [by |-> event.actor, over |-> event.canonical, spelling |-> w]

(* Mutation: the signed head is not compared with the chain. *)
PriorHeadValidAnyHead(pid, version, events, i) ==
    version = "4" /\ events[i].type # RequestCreated =>
        i > 1 /\ ChainValid(pid, events, i)

(* D-C6: the head an event signs is the link of the event before it.       *)
PriorHeadValid(pid, version, events, i) ==
    version = "4" /\ events[i].type # RequestCreated =>
        /\ i > 1
        /\ ChainValid(pid, events, i)
        /\ SignedHead(events[i]) # NoHead
        /\ SignedHead(events[i]) = events[i].prev

(* An event that verifies by itself, whoever wrote it: only such an event  *)
(* may grant authority to later ones.                                      *)
Intact(pid, version, events, i) ==
    /\ SignatureValid(events[i])
    /\ CanonicalValid(pid, version, events[i])
    /\ PayloadHashValid(events[i])
    /\ events[i].type = RequestCreated => RequestBindingValid(version, events[i])
    /\ FormatValid(version, events[i])
    /\ ReplayValid(version, events, i)
    /\ PriorHeadValid(pid, version, events, i)

(* The intact events before i, in order.                                   *)
AuthorizationPrior(pid, version, events, i) ==
    LET kept == {j \in 1..(i - 1) : Intact(pid, version, events, j)}
        Place(j) == Cardinality({k \in kept : k <= j})
    IN  [k \in 1..Cardinality(kept) |->
           events[CHOOSE j \in kept : Place(j) = k]]

ActorAuthorized(pid, version, events, i) ==
    \/ i = 1 /\ events[i].type = RequestCreated
    \/ LET prior == AuthorizationPrior(pid, version, events, i)
       IN  /\ AuthorizeEvent(prior, events[i].actor, events[i].type,
                             events[i].payload) = "ok"
           /\ ~SecondResult(prior, events[i].type)

EventValid(pid, version, events, i) ==
    /\ SequenceValid(events, i)
    /\ ChainValid(pid, events, i)
    /\ Intact(pid, version, events, i)
    /\ ActorAuthorized(pid, version, events, i)

-----------------------------------------------------------------------------
(* The checks of the whole export. *)

(* D-C7: at most one closing event, and it is the last.                    *)
PositionValid(events) ==
    \A i \in DOMAIN events : events[i].type \in ClosingTypes => i = Len(events)

(* Content(check, payload) is "none" where a payload has nothing to check, *)
(* "ok" or "bad" where it has. Each check keeps one result for the export: *)
(* the one of the last event that has something to check.                  *)
ChecksOfResult == {"result_hash", "task_hash"}
Judged(check)  == IF check \in ChecksOfResult THEN ResultCreated ELSE "artifact.created"

ContentOf(check, events) ==
    LET judged == {i \in DOMAIN events : /\ events[i].type = Judged(check)
                                         /\ Content(check, events[i].payload) # "none"}
    IN  IF judged = {} THEN "none"
        ELSE LET last == CHOOSE i \in judged : \A j \in judged : j <= i
             IN  Content(check, events[last].payload)

ContentValid(events) ==
    \A check \in ChecksOfResult \cup {"artifact_hash"} :
        ContentOf(check, events) # "bad"

(* Every check but those of the content.                                   *)
ChainVerifies(pid, version, events) ==
    /\ version \in Versions
    /\ events # <<>>
    /\ \A i \in DOMAIN events : EventValid(pid, version, events, i)
    /\ PositionValid(events)

Verdict(pid, version, events) ==
    IF ChainVerifies(pid, version, events) /\ ContentValid(events)
    THEN "valid" ELSE "invalid"

ReportedHead(pid, events) ==
    IF events = <<>> THEN NoHead ELSE Link(pid, events[Len(events)])

Closed(events) == \E i \in DOMAIN events : events[i].type \in ClosingTypes

=============================================================================
