---------------------------- MODULE MCProofChain ----------------------------
(***************************************************************************)
(* Small instances of ProofChain for TLC.                                  *)
(***************************************************************************)
EXTENDS ProofChain, TLC

CONSTANTS alice, bob, mallory, h1, h2, n1, n2, n3, n4, r1, r2, p1, p2, p3,
          text, text2

Plain(body)     == [body |-> body, form |-> "absent", dids |-> <<>>]
Delegates(dids) == [body |-> text, form |-> "list", dids |-> dids]

(* Two writers: delegations of two DIDs, and a plain payload.              *)
RacePayloads == {Plain(text), Delegates(<<bob>>), Delegates(<<mallory>>)}

(* Old formats and races to create: payloads that differ in their body.    *)
TextPayloads == {Plain(text), Plain(text2)}
OnePayload   == {Plain(text)}

(* Two instances in one run. On an empty database alice writes version-4   *)
(* proofs, of notes, results and closing events. A version-3 proof of      *)
(* alice's, at its request, is written by her and bob, who delegate and    *)
(* record results: nothing but the lock and the checks under it orders     *)
(* them. What the checks before the lock refuse is left to the first.      *)
RaceInit ==
    /\ Init
    /\ \/ \A p \in ProofIds : ~Exists(p)
       \/ /\ Exists(p1) /\ proofs[p1].version = "3"
          /\ chain[p1][1].actor = alice /\ chain[p1][1].id = 1

Shared == Exists(p1) /\ proofs[p1].version = "3"

Asked ==
    IF Shared
    THEN [actor : {alice, bob}, type : {TaskDelegated, ResultCreated}, payload : RacePayloads]
    ELSE [actor : {alice}, type : SentTypes \ {TaskDelegated}, payload : {Plain(text)}]

RaceArrive(h) ==
    \/ \E p \in ProofIds, ask \in Asked, w \in SentSpellings, n \in Nonces, s \in BOOLEAN :
         \E k \in IdsOf(chain[p]) \cup {NoHead} :
            /\ Shared => p = p1 /\ s /\ k = NoHead
            /\ PostEvent(h, p, [op |-> "append", pid |-> p, actor |-> ask.actor,
                                type |-> ask.type, payload |-> ask.payload,
                                spelling |-> w, nonce |-> n, head |-> k, signed |-> s])
    \/ \E i \in RequestIds, b \in RequestPayloads, w \in SentSpellings, n \in Nonces,
          s \in BOOLEAN :
         /\ ~Shared
         /\ PostProof(h, [op |-> "create", rid |-> i, actor |-> alice, payload |-> b,
                          spelling |-> w, nonce |-> n, signed |-> s])
    \/ \E p \in ProofIds : GetProof(h, p)

RaceSpec ==
    RaceInit /\ [][Crash \/ \E h \in Handlers : RaceArrive(h) \/ Serve(h)]_vars

Symmetry     == Permutations({h1, h2}) \cup Permutations(Nonces)
NonceSymmetry == Permutations(Nonces)

=============================================================================
