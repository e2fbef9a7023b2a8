-------------------------- MODULE MCComputeChannel --------------------------
(***************************************************************************)
(* Turns of three leaf versions, with and without a policy, of little and  *)
(* much work.                                                              *)
(***************************************************************************)
EXTENDS ComputeChannel, TLC

TemplateOf(version, gn, policy, ids, time, ack) ==
    [version |-> version, index |-> 0, io |-> 1, gn |-> gn, policy |-> policy,
     ids |-> ids, toploc |-> ids, time |-> time, sig |-> 0, ack |-> ack]

(* The last one has a token field the version of its leaf does not hash.   *)
AllTemplates == {TemplateOf(0, 1, 0, 0, 0, 0), TemplateOf(2, 2, 2, 0, 1, 1),
                 TemplateOf(3, 1, 1, 2, 0, 2), TemplateOf(1, 1, 0, 1, 1, 0)}
=============================================================================
