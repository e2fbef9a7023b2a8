--------------------------- MODULE MCAppendClient ---------------------------
(***************************************************************************)
(* Two applications that each want an event in one proof, which may be a   *)
(* note or the one that closes it.                                         *)
(***************************************************************************)
EXTENDS AppendClient, TLC

CONSTANTS alice, h1, h2, n0, n1, n2, r1, p1, text

Plain   == [body |-> text, form |-> "absent", dids |-> <<>>]
OnlyPayload == {Plain}

Symmetry == Permutations({h1, h2}) \cup Permutations({n1, n2})
=============================================================================
