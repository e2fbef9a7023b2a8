---------------------------- MODULE VerifiedChain ----------------------------
(***************************************************************************)
(* The proof API and the verifier together: the stored rows of ProofChain, *)
(* as GET /proofs/{id} and GET /proofs/{id}/verify (app/main.py) hand them *)
(* to the checks of Verifier.                                              *)
(*                                                                         *)
(* The row a request.created is stored as holds its whole request, so the  *)
(* exported payload is rebuilt with its sender, nonce and signature. The   *)
(* signed nonce of a version-1/2 request is in its payload only; its       *)
(* column is empty, and both are NoNonce here.                             *)
(***************************************************************************)
EXTENDS ProofChain

CONSTANTS
    Room,           \* the room of every request; POST /proofs refuses a proof_id
    ContentCheck    \* for a check and a body: "none", "ok" or "bad"

ASSUME RoomAssumption == Room \notin ProofIds

(* ProofChain's abstraction: the id of a row stands for its link.          *)
LinkById(pid, event) == event.id

ContentOfPayload(check, payload) == ContentCheck[check, payload.body]

V == INSTANCE Verifier WITH Link <- LinkById, Content <- ContentOfPayload

(* The message a row's signer signed, in the format of its proof.          *)
MessageOf(p, row) ==
    IF row.type = RequestCreated
    THEN V!RequestCanonical(proofs[p].version, Room, row.nonce, row.payload.body)
    ELSE V!EventCanonical(proofs[p].version, p, row.type, row.payload, row.nonce,
                          row.head)

SignatureOf(p, row) ==
    [by |-> row.actor, over |-> MessageOf(p, row), spelling |-> row.spelling]

(* A stored request.created holds the request it answers.                  *)
PayloadOf(p, row) ==
    IF row.type = RequestCreated
    THEN [form |-> "request", dids |-> <<>>,
          body |-> [from |-> row.actor, text |-> row.payload.body,
                    nonce |-> row.nonce, sig |-> SignatureOf(p, row),
                    canonical |-> MessageOf(p, row)]]
    ELSE row.payload

ExportedRow(p, row) ==
    [id |-> row.id, type |-> row.type, actor |-> row.actor,
     payload |-> PayloadOf(p, row), hash |-> PayloadOf(p, row),
     canonical |-> MessageOf(p, row), sig |-> SignatureOf(p, row),
     nonce |-> row.nonce, seq |-> row.seq, prev |-> row.prev]

Export(p) == [i \in DOMAIN chain[p] |-> ExportedRow(p, chain[p][i])]

-----------------------------------------------------------------------------
(* Whatever the clients send and however the handlers interleave, every    *)
(* chain the API has stored passes every check of the verifier but those   *)
(* of the content, in each format: the second implementation of the rules  *)
(* never contradicts the first (event-authorization.md D-A10, D-C6, D-C7). *)
StoredChainsVerify ==
    \A p \in ProofIds :
        Exists(p) => V!ChainVerifies(p, proofs[p].version, Export(p))

(* An export reports closed exactly when the proof takes no more events.   *)
ClosedIsClosed ==
    \A p \in ProofIds :
        Exists(p) => (V!Closed(Export(p)) <=> proofs[p].status \in ClosedStatuses)

(* What one signer signed once is stored once: a signed event cannot be    *)
(* replayed within its proof, and a version-1/2 proof rejects a repeated   *)
(* signature (README, "a signed event cannot be replayed within its        *)
(* proof"; main.py's comment on Option B). Asked of proofs that verify, so *)
(* that the verifier, too, has let the copy pass.                          *)
EventIsStoredOnce ==
    \A p \in ProofIds :
        V!ChainVerifies(p, proofs[p].version, Export(p)) =>
            \A i, j \in DOMAIN chain[p] :
                i # j => \/ chain[p][i].actor # chain[p][j].actor
                         \/ MessageOf(p, chain[p][i]) # MessageOf(p, chain[p][j])

(* The verdict covers the artifact-hash check of every artifact.created    *)
(* event (event-authorization.md line 113; README, "Artifact hash          *)
(* verification"): a valid proof has no artifact whose hash is wrong.      *)
ArtifactsAreChecked ==
    \A p \in ProofIds :
        V!Verdict(p, proofs[p].version, Export(p)) = "valid" =>
            \A i \in DOMAIN chain[p] :
                chain[p][i].type = "artifact.created" =>
                    ContentOfPayload("artifact_hash", chain[p][i].payload) # "bad"

=============================================================================
