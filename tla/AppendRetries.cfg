CONSTANTS
    alice = alice
    h1 = h1
    h2 = h2
    n0 = n0
    n1 = n1
    n2 = n2
    r1 = r1
    p1 = p1
    text = text
    BadDid = BadDid
    NoHandler = NoHandler
    NoProof = NoProof
    NoRequestId = NoRequestId
    NoNonce = NoNonce
    NoReply = NoReply
    NoRequest = NoRequest
    NoRows = NoRows
    NoClient = NoClient
    Bodies = {text}
    OtherTypes = {"artifact.note"}
    Actors = {alice}
    Signers = {alice}
    Handlers = {h1, h2}
    ProofIds = {p1}
    RequestIds = {r1}
    EventIds = {1, 2, 3, 4}
    Nonces = {n0, n1, n2}
    SentPayloads <- OnlyPayload
    SentTypes = {"artifact.note", "proof.completed"}
    SentSpellings = {"bare"}
    OldVersions = {}
    MaxEvents = 4
    MaxDelegates = 1
    Clients = {n1, n2}
    Author = alice
    Body <- Plain
    TheProof = p1
    FirstId = 1
    FirstNonce = n0
    FirstRequest = r1
    MaxRetries = 1
    MaxCalls = 3
SYMMETRY Symmetry
SPECIFICATION ClientSpec
CHECK_DEADLOCK FALSE
INVARIANTS
    RejectedIsNotStored
    ReturnedIsStored
    ClosedOnFirstHead
    SignedHeadWasCurrent
