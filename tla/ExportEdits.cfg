CONSTANTS
    alice = alice
    bob = bob
    n1 = n1
    n2 = n2
    n3 = n3
    n4 = n4
    n5 = n5
    p1 = p1
    room = room
    text = text
    BadDid = BadDid
    NoNonce = NoNonce
    NoHead = NoHead
    Bodies = {text}
    OtherTypes = {"artifact.note"}
    Actors = {alice, bob}
    MaxDelegates = 1
    ProofIds = {p1}
    Proof = p1
    Room = room
    Creator = alice
    ProofVersions = {"1", "3", "4"}
    EventIds = {1, 2, 3, 4, 5, 6}
    Nonces = {n1, n2, n3, n4, n5}
    Sent <- ThreeEvents
    SentSpellings = {"bare"}
    MaxRows = 3
    MaxRefused = 1
    MaxEdits = 2
SPECIFICATION Spec
INVARIANTS
    ValidIsHistory
    HeadPinsExport
    ValidIsSigned
CHECK_DEADLOCK FALSE
