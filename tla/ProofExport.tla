---------------------------- MODULE ProofExport ----------------------------
(***************************************************************************)
(* What the verifier's verdict says of an export kept outside the service  *)
(* (docs/design/proof-closure.md 3.2.1 and 3.5; README, "Offline           *)
(* verifier").                                                             *)
(*                                                                         *)
(* One proof grows by the rules of POST /proofs/{id}/events; clients also  *)
(* sign events that it refuses. An export is taken, and the copy that      *)
(* reaches the verifier may have lost, repeated, swapped, changed or added *)
(* rows, with the numbers and the links recomputed or not, and another     *)
(* version on its label. Signatures cannot be made up: what a copy may     *)
(* hold was signed by its signer.                                          *)
(*                                                                         *)
(* Link hashes are records of what hash_event_record covers, so that an    *)
(* altered row has another link.                                           *)
(***************************************************************************)
EXTENDS Authorization, SequencesExt

CONSTANTS
    ProofIds,       \* values that is_proof_id accepts
    Proof,          \* the proof under study
    Room,           \* the room of its request
    Creator,        \* who signed its request
    ProofVersions,  \* the versions the proof may have
    EventIds,       \* event_id and created_at of a row: the unsigned fields
    Nonces,
    Sent,           \* the [type, payload] pairs clients sign
    SentSpellings,  \* spellings of a signature the clients post
    NoNonce, NoHead,
    MaxRows,        \* bound: rows of the proof
    MaxRefused,     \* bound: signed events the API refused
    MaxEdits        \* bound: alterations of the copy

ASSUME ProofAssumption ==
    /\ Proof \in ProofIds
    /\ Room \notin ProofIds
    /\ Creator \in Actors
    /\ ProofVersions \subseteq {"1", "2", "3", "4"}

ASSUME SentAssumption ==
    /\ Sent \subseteq [type : EventTypes, payload : Payloads]
    /\ SentSpellings \subseteq {"bare", "padded"}

VARIABLES
    version,    \* proofs.version
    chain,      \* the rows the service holds, as it exports them
    signed,     \* the events clients signed, stored or not
    label,      \* the version written on the copy, "none" before it is taken
    copy,       \* the rows of the copy
    edits       \* how many alterations it went through

vars == <<version, chain, signed, label, copy, edits>>

HashEventRecord(pid, event) ==
    [pid |-> pid, id |-> event.id, type |-> event.type, actor |-> event.actor,
     hash |-> event.hash, canonical |-> event.canonical, sig |-> event.sig,
     seq |-> event.seq]

(* Content checks are not in question here.                                *)
NoContent(check, payload) == "none"

V == INSTANCE Verifier WITH Link <- HashEventRecord, Content <- NoContent

-----------------------------------------------------------------------------
(* The service. *)

ChainHead(events) == V!ReportedHead(Proof, events)

(* The row of a signed event r = [actor, type, payload, nonce, head] whose *)
(* signature is spelled w, exported at a place of a chain.                 *)
RowOf(r, w, id, seq, prev) ==
    LET canonical == V!EventCanonical(version, Proof, r.type, r.payload, r.nonce, r.head)
    IN  [id |-> id, type |-> r.type, actor |-> r.actor, payload |-> r.payload,
         hash |-> r.payload, canonical |-> canonical,
         sig |-> [by |-> r.actor, over |-> canonical, spelling |-> w],
         nonce |-> r.nonce, seq |-> seq, prev |-> prev]

(* rest: the request_id and created_at of the request, which are in the    *)
(* payload and not in the message the creator signs.                       *)
RequestPayload(v, w, nonce, text, rest) ==
    LET canonical == V!RequestCanonical(v, Room, nonce, text)
    IN  [form |-> "request", dids |-> <<>>,
         body |-> [from |-> Creator, text |-> text, nonce |-> nonce,
                   sig |-> [by |-> Creator, over |-> canonical, spelling |-> w],
                   canonical |-> canonical, rest |-> rest]]

RequestRow(v, w, id, nonce, text) ==
    LET payload == RequestPayload(v, w, nonce, text, "sent")
        canonical == payload.body.canonical
        sig == payload.body.sig
    IN  [id |-> id, type |-> RequestCreated, actor |-> Creator, payload |-> payload,
         hash |-> payload, canonical |-> canonical, sig |-> sig,
         nonce |-> IF v \in V!LegacyVersions THEN NoNonce ELSE nonce,
         seq |-> 1, prev |-> NoHead]

IdsOf(events) == {events[i].id : i \in DOMAIN events}

(* uuid4, and the nonce of a client that draws a new one for every event   *)
(* (client.py): any unused value would do.                                 *)
UnusedId    == CHOOSE id \in EventIds : id \notin IdsOf(chain) \cup IdsOf(copy)
UnusedNonce == CHOOSE n \in Nonces : /\ \A i \in DOMAIN chain : chain[i].nonce # n
                                     /\ \A r \in signed : r.nonce # n

Init ==
    /\ version \in ProofVersions
    /\ \E text \in Bodies, w \in SentSpellings :
         chain = <<RequestRow(version, w, CHOOSE id \in EventIds : TRUE,
                              CHOOSE n \in Nonces : TRUE, text)>>
    /\ signed = {}
    /\ label = "none"
    /\ copy = <<>>
    /\ edits = 0

(* A client signs an event over the head of the moment. *)
SignedNow(a, sent) ==
    [actor |-> a, type |-> sent.type, payload |-> sent.payload, nonce |-> UnusedNonce,
     head |-> IF version = "4" THEN ChainHead(chain) ELSE NoHead]

(* append_event takes it: what its locked section checks (ProofChain).     *)
Accepts(r, w) ==
    /\ \A i \in DOMAIN chain : chain[i].type \notin ClosingTypes
    /\ AuthorizeEvent(chain, r.actor, r.type, r.payload) = "ok"
    /\ \A i \in DOMAIN chain : chain[i].nonce # r.nonce
    /\ version \in V!LegacyVersions =>
         \A i \in DOMAIN chain :
            \/ chain[i].type # r.type
            \/ chain[i].actor # r.actor
            \/ chain[i].payload # r.payload
            \/ chain[i].sig.spelling # w
    /\ ~SecondResult(chain, r.type)

StoreEvent(r, w) ==
    /\ label = "none"
    /\ Len(chain) < MaxRows
    /\ Accepts(r, w)
    /\ chain' = Append(chain, RowOf(r, w, UnusedId, Len(chain) + 1, ChainHead(chain)))
    /\ signed' = signed \cup {r}
    /\ UNCHANGED <<version, label, copy, edits>>

(* The event is refused, or loses the race to another one: its signature   *)
(* exists all the same.                                                    *)
RefuseEvent(r) ==
    /\ label = "none"
    /\ Cardinality(signed) < Len(chain) - 1 + MaxRefused
    /\ signed' = signed \cup {r}
    /\ UNCHANGED <<version, chain, label, copy, edits>>

(* GET /proofs/{id}. *)
TakeExport ==
    /\ label = "none"
    /\ label' = version
    /\ copy' = chain
    /\ UNCHANGED <<version, chain, signed, edits>>

-----------------------------------------------------------------------------
(* What may happen to the copy. *)

(* Numbers, payload hashes and links recomputed from the rows. *)
Relinked(events) ==
    LET row == [i \in DOMAIN events |->
                  [events[i] EXCEPT !.seq = i, !.hash = events[i].payload]]
    IN  [i \in DOMAIN events |->
           [row[i] EXCEPT !.prev = IF i = 1 THEN NoHead
                                   ELSE HashEventRecord(Proof, row[i - 1])]]

CanAlter == label # "none" /\ edits < MaxEdits

Alter(events) ==
    /\ edits' = edits + 1
    /\ copy' \in {events, Relinked(events)}
    /\ UNCHANGED <<version, chain, signed>>

LoseRow ==
    /\ CanAlter
    /\ \E i \in DOMAIN copy : Alter(RemoveAt(copy, i))
    /\ UNCHANGED label

RepeatRow ==
    /\ CanAlter
    /\ \E i, j \in DOMAIN copy :
         Alter(InsertAt(copy, j + 1, [copy[i] EXCEPT !.id = UnusedId]))
    /\ UNCHANGED label

SwapRows ==
    /\ CanAlter
    /\ \E i, j \in DOMAIN copy :
         i < j /\ Alter([copy EXCEPT ![i] = copy[j], ![j] = copy[i]])
    /\ UNCHANGED label

(* The signature in its other spelling; a request carries it twice.        *)
Respelled(row, w) ==
    LET other == [row EXCEPT !.sig.spelling = w]
    IN  IF row.payload.form = "request"
        THEN [other EXCEPT !.payload.body.sig.spelling = w]
        ELSE other

ChangeRow ==
    /\ CanAlter
    /\ \E i \in DOMAIN copy :
         \/ Alter([copy EXCEPT ![i].id = UnusedId])
         \/ \E a \in Actors : Alter([copy EXCEPT ![i].actor = a])
         \/ \E sent \in Sent : Alter([copy EXCEPT ![i].type = sent.type])
         \/ \E sent \in Sent : Alter([copy EXCEPT ![i].payload = sent.payload])
         \/ Alter([copy EXCEPT ![i].nonce = UnusedNonce])
         \/ \E w \in V!Spellings : Alter([copy EXCEPT ![i] = Respelled(copy[i], w)])
         \/ /\ copy[i].payload.form = "request"
            /\ Alter([copy EXCEPT ![i].payload.body.rest = "changed"])
    /\ UNCHANGED label

AddSignedRow ==
    /\ CanAlter
    /\ \E r \in signed, w \in SentSpellings, j \in DOMAIN copy :
         Alter(InsertAt(copy, j + 1, RowOf(r, w, UnusedId, j + 1, copy[j].prev)))
    /\ UNCHANGED label

Relabel ==
    /\ CanAlter
    /\ \E v \in ProofVersions \ {label} : label' = v
    /\ Alter(copy)

Next ==
    \/ \E a \in Actors, sent \in Sent :
         LET r == SignedNow(a, sent)
         IN  RefuseEvent(r) \/ \E w \in SentSpellings : StoreEvent(r, w)
    \/ TakeExport
    \/ LoseRow \/ RepeatRow \/ SwapRows \/ ChangeRow \/ AddSignedRow \/ Relabel

Spec == Init /\ [][Next]_vars

-----------------------------------------------------------------------------
(* Properties. *)

Valid == label # "none" /\ V!Verdict(Proof, label, copy) = "valid"

(* The stored request but for what its signature does not cover, which is  *)
(* the spelling of the signature, too.                                     *)
SameRequest(row, stored) ==
    \E w \in V!Spellings :
        LET respelled == Respelled(stored, w)
            payload == [respelled.payload EXCEPT !.body.rest = row.payload.body.rest]
        IN  row = [respelled EXCEPT !.id = row.id, !.payload = payload, !.hash = payload]

(* A valid copy of a version-4 proof is history: every row but the last is *)
(* the stored row, field by field, whatever was removed, reordered or      *)
(* changed and relinked. The last row has no successor: it is an event     *)
(* signed over the link of the row before it, the stored one or one that   *)
(* the service refused, but for its unsigned fields and the spelling of    *)
(* its signature; so is a request alone (proof-closure.md 3.2.1, "Unsigned *)
(* fields of the last event", "A signed event the API rejected").          *)
ValidIsHistory ==
    version = "4" /\ Valid =>
        LET n == Len(copy)
        IN  /\ n <= Len(chain) + 1
            /\ \A i \in 1..(n - 1) : copy[i] = chain[i]
            /\ \/ n = 1 /\ SameRequest(copy[1], chain[1])
               \/ /\ n > 1
                  /\ \E r \in signed, w \in V!Spellings :
                        /\ r.head = HashEventRecord(Proof, chain[n - 1])
                        /\ copy[n] = RowOf(r, w, copy[n].id, n, r.head)

(* A chain_head kept from an append response pins a version-4 export: a    *)
(* valid copy that reports it is the whole chain up to that event          *)
(* (verifier.py --expect-head; proof-closure.md 3.2.1, "each link          *)
(* therefore commits to the whole prefix").                                *)
HeadPinsExport ==
    version = "4" =>
        \A k \in DOMAIN chain :
            /\ V!ReportedHead(Proof, copy) = HashEventRecord(Proof, chain[k])
            /\ Valid
            => copy = SubSeq(chain, 1, k)

(* In every version, with or without signed heads, a valid copy shows      *)
(* nothing its signers did not sign for this proof: each later row is a    *)
(* signed event, and the label is the proof's own format (README: "new     *)
(* events cannot be added this way"). A version-3 or 4 copy shows no       *)
(* signed message twice. A version-1/2 copy shows no message twice under   *)
(* one text of its signature (D-R5) - and so a message may be there twice, *)
(* in the signature's two spellings.                                       *)
SignedAs(row, r) ==
    /\ row.actor = r.actor /\ row.type = r.type /\ row.payload = r.payload
    /\ version \notin V!LegacyVersions => row.nonce = r.nonce

ValidIsSigned ==
    Valid =>
        /\ \A i \in 2..Len(copy) : \E r \in signed : SignedAs(copy[i], r)
        /\ \A i, j \in DOMAIN copy :
             IF version \in V!LegacyVersions
             THEN copy[i].sig = copy[j].sig => i = j
             ELSE copy[i].canonical = copy[j].canonical => i = j
        /\ label = version \/ {label, version} \subseteq V!LegacyVersions

=============================================================================
