CONSTANTS
    alice = alice
    bob = bob
    mallory = mallory
    h1 = h1
    h2 = h2
    n1 = n1
    n2 = n2
    n3 = n3
    n4 = n4
    r1 = r1
    r2 = r2
    p1 = p1
    p2 = p2
    p3 = p3
    text = text
    text2 = text2
    BadDid = BadDid
    NoHandler = NoHandler
    NoProof = NoProof
    NoRequestId = NoRequestId
    NoNonce = NoNonce
    NoReply = NoReply
    NoRequest = NoRequest
    NoRows = NoRows
    Bodies = {text, text2}
    OtherTypes = {"artifact.note"}
    Actors = {alice, bob}
    Signers = {alice, bob}
    Handlers = {h1, h2}
    ProofIds = {p1, p2}
    RequestIds = {r1}
    EventIds = {1,2,3,4}
    Nonces = {n1,n2}
    SentPayloads <- TextPayloads
    SentTypes = {"artifact.note"}
    SentSpellings = {"bare"}
    OldVersions = {}
    MaxEvents = 2
    MaxDelegates = 1
SPECIFICATION FairSpec
PROPERTIES
    EveryRequestEnds
    LockIsReleased
INVARIANTS
    CreatedIsOwnRequest
