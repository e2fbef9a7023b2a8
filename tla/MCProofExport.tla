--------------------------- MODULE MCProofExport ---------------------------
(***************************************************************************)
(* Small instances of ProofExport for TLC.                                 *)
(***************************************************************************)
EXTENDS ProofExport

CONSTANTS alice, bob, n1, n2, n3, n4, n5, p1, room, text

Delegation == [body |-> text, form |-> "list", dids |-> <<bob>>]
Note       == [body |-> text, form |-> "absent", dids |-> <<>>]

ThreeEvents ==
    {[type |-> TaskDelegated, payload |-> Delegation],
     [type |-> "artifact.note", payload |-> Note],
     [type |-> "proof.completed", payload |-> Note]}

=============================================================================
