-------------------------- MODULE MCVerifiedChain --------------------------
(***************************************************************************)
(* Small instances of VerifiedChain for TLC.                               *)
(***************************************************************************)
EXTENDS VerifiedChain, TLC

CONSTANTS alice, bob, mallory, h1, h2, n1, n2, n3, n4, r1, p1, p2, room, text, text2

Plain(body)     == [body |-> body, form |-> "absent", dids |-> <<>>]
Delegates(dids) == [body |-> text, form |-> "list", dids |-> dids]

(* The shapes of a delegates field that the rules tell apart with a cap    *)
(* of 1: absent, not a list, empty, one other, too long, a second other,   *)
(* no DID.                                                                 *)
NotAList == [body |-> text, form |-> "not_list", dids |-> <<>>]

RulePayloads ==
    {Plain(text), NotAList, Delegates(<<>>), Delegates(<<bob>>),
     Delegates(<<alice, bob>>), Delegates(<<mallory>>), Delegates(<<BadDid>>)}

OnePayload   == {Plain(text)}
TextPayloads == {Plain(text), Plain(text2)}

(* text2 is an artifact whose file has another hash.                       *)
Checks == {"result_hash", "task_hash", "artifact_hash"}

TextContent ==
    [c \in Checks \X Bodies |->
        IF c[1] # "artifact_hash" THEN "none" ELSE IF c[2] = text2 THEN "bad" ELSE "ok"]

NonceSymmetry == Permutations(Nonces)
Symmetry      == Permutations(Handlers) \cup NonceSymmetry

=============================================================================
