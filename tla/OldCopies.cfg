CONSTANTS
    alice = alice
    bob = bob
    mallory = mallory
    h1 = h1
    h2 = h2
    n1 = n1
    n2 = n2
    n3 = n3
    n4 = n4
    r1 = r1
    p1 = p1
    p2 = p2
    text = text
    text2 = text2
    BadDid = BadDid
    NoHandler = NoHandler
    NoProof = NoProof
    NoRequestId = NoRequestId
    NoNonce = NoNonce
    NoReply = NoReply
    NoRequest = NoRequest
    NoRows = NoRows
    room = room
    Room = room
    ContentCheck <- TextContent
    Bodies = {text, text2}
    OtherTypes = {"artifact.note"}
    Actors = {alice}
    Signers = {alice}
    Handlers = {h1}
    ProofIds = {p1, p2}
    RequestIds = {r1}
    EventIds = {1, 2, 3, 4}
    Nonces = {n1, n2, n3}
    SentPayloads <- OnePayload
    SentTypes = {"artifact.note"}
    SentSpellings = {"bare", "padded"}
    OldVersions = {"1"}
    MaxEvents = 3
    MaxDelegates = 1
SYMMETRY NonceSymmetry
SPECIFICATION Spec
INVARIANTS
    EventIsStoredOnce
