----------------------------- MODULE MCEvidence -----------------------------
(***************************************************************************)
(* Three validators, of whom any may be active, and what could be sent     *)
(* about two tasks: bundles of up to two attestations, well made or not,   *)
(* and some of three.                                                      *)
(***************************************************************************)
EXTENDS Evidence, TLC

CONSTANTS v1, v2, v3, t1, t2, w1, w2, hw, rest

ClaimOf(task, gn, latency) ==
    [task |-> task, gn |-> gn, latency |-> latency, rest |-> rest, tee |-> 0]

Content(claim, done) ==
    [claim |-> claim, hardware |-> hw, quote |-> TRUE, log |-> done]

Signed(v, content) ==
    [content |-> content, validator |-> v, sig |-> [by |-> v, over |-> content]]

(* At the tripwire's limit, above it, and for no time at all.              *)
Honest == ClaimOf(t1, 2000, 1)
Other  == ClaimOf(t2, 1, 1)
Fast   == ClaimOf(t1, 2001, 1)
NoTime == ClaimOf(t1, 1, 0)

Good(v) == Signed(v, Content(Honest, TRUE))
Bundles2 ==
    LET sent == {Good(v) : v \in Validators}
                  \cup {Signed(v1, Content(Other, TRUE)),
                                                Signed(v1, Content(Honest, FALSE)),
                        [Good(v2) EXCEPT !.sig.over = Content(Other, TRUE)],
                        [Good(v2) EXCEPT !.sig.by = v1]}
    IN  UNION {[1..n -> sent] : n \in 1..2}

Bundles ==
    Bundles2 \cup
    {<<Good(v1), Good(v2), Good(v3)>>, <<Good(v1), Good(v1), Good(v1)>>,
     <<Signed(v1, Content(Fast, TRUE)), Signed(v2, Content(Fast, TRUE))>>,
     <<Signed(v1, Content(NoTime, TRUE)), Signed(v2, Content(NoTime, TRUE))>>}

Results == {Honest, Other, Fast, NoTime, NoResult}
Reports == {Honest, Other, Fast, NoTime}

BatchOf(spelled, gn, latency) ==
    [key |-> [task |-> t1, spelled |-> spelled], gn |-> gn, latency |-> latency]

(* Two batches for one hash, and one that only fits the schema.            *)
Batches == {BatchOf("lower", 0, 1), BatchOf("upper", 1, 1), BatchOf("lower", 2, 1)}

WorkerSymmetry == Permutations({w1, w2})
=============================================================================
