--------------------------- MODULE Authorization ---------------------------
(***************************************************************************)
(* The event authorization rules of app/authorization.py: pure operators   *)
(* over a chain prefix, used by POST /proofs/{id}/events under the write   *)
(* lock (app/main.py) and replayed by the verifier over an export          *)
(* (app/verification_core.py).                                             *)
(*                                                                         *)
(* A DID is a member of Actors, or BadDid for text that is not a did:key.  *)
(* A payload is abstracted to what the rules read: the shape of its        *)
(* "delegates" field, the listed DIDs, and a body that stands for          *)
(* everything else (two payloads hash alike iff they are equal).           *)
(***************************************************************************)
EXTENDS Naturals, Sequences, FiniteSets

CONSTANTS
    Actors,         \* well-formed did:key identities
    BadDid,         \* an entry that is_valid_did_key refuses
    Bodies,         \* payload contents other than the delegates field
    MaxDelegates,   \* MAX_DELEGATES_PER_PROOF
    OtherTypes      \* free-form event types (agent.started, artifact.note, ...)

ASSUME DelegatesAssumption == MaxDelegates \in Nat
ASSUME ActorsAssumption == IsFiniteSet(Actors) /\ BadDid \notin Actors

RequestCreated == "request.created"
TaskDelegated  == "task.delegated"
ResultCreated  == "result.created"
ClosingTypes   == {"proof.completed", "proof.failed"}

CreatorOnlyTypes == {TaskDelegated} \cup ClosingTypes

ASSUME TypesAssumption ==
    OtherTypes \cap ({RequestCreated, ResultCreated} \cup CreatorOnlyTypes) = {}

EventTypes == {RequestCreated, ResultCreated} \cup CreatorOnlyTypes \cup OtherTypes

(* form: "absent" when the payload has no "delegates" key, "not_list" when *)
(* its value is not a list, "list" otherwise; only a list holds DIDs.      *)
Payloads == {b \in [body : Bodies,
                    form : {"absent", "not_list", "list"},
                    dids : Seq(Actors \cup {BadDid})] :
               b.form # "list" => b.dids = <<>>}

Listed(payload) == {payload.dids[i] : i \in DOMAIN payload.dids}

(* Why a "delegates" field is refused, "ok" when it is well formed.        *)
DelegatesFieldError(payload) ==
    IF payload.form = "absent" THEN "ok"
    ELSE IF payload.form = "not_list" \/ Len(payload.dids) > MaxDelegates
        THEN "invalid_delegates"
    ELSE IF \E i \in DOMAIN payload.dids : payload.dids[i] \notin Actors
        THEN "invalid_delegate_did"
    ELSE IF \E i, j \in DOMAIN payload.dids :
                i # j /\ payload.dids[i] = payload.dids[j]
        THEN "invalid_delegates"
    ELSE "ok"

-----------------------------------------------------------------------------

(* A chain has a creator when its first event is a request.created that    *)
(* carries sequence 1; the creator is that event's actor.                  *)
HasCreator(prior) ==
    /\ prior # <<>>
    /\ prior[1].type = RequestCreated
    /\ prior[1].seq = 1

CreatorOf(prior) == prior[1].actor

(* The creator's well-formed delegations, wherever they stand in the       *)
(* prefix: nothing in the code takes a delegation back.                    *)
Granting(prior) ==
    {i \in 2..Len(prior) :
        /\ prior[i].type = TaskDelegated
        /\ prior[i].actor = CreatorOf(prior)
        /\ prior[i].payload.form = "list"
        /\ DelegatesFieldError(prior[i].payload) = "ok"}

DelegatesOf(prior) ==
    IF HasCreator(prior)
    THEN (UNION {Listed(prior[i].payload) : i \in Granting(prior)})
            \ {CreatorOf(prior)}
    ELSE {}

RoleOf(prior, actor) ==
    IF ~HasCreator(prior) THEN "unauthorized"
    ELSE IF actor = CreatorOf(prior) THEN "creator"
    ELSE IF actor \in DelegatesOf(prior) THEN "delegate"
    ELSE "unauthorized"

(* Mutation: only the new event's own list is counted. *)
OverCapOfTheList(prior, payload) ==
    Cardinality(Listed(payload) \ {CreatorOf(prior)}) > MaxDelegates

(* The cap counts distinct delegates over the whole chain, the creator     *)
(* excluded, with the ones the new event would add.                        *)
OverCap(prior, payload) ==
    LET new == Listed(payload) \ {CreatorOf(prior)}
    IN  Cardinality(DelegatesOf(prior) \cup new) > MaxDelegates

(* The reason an event is refused, "ok" when it is allowed. The order is   *)
(* the code's: no creator, request.created, role, creator-only, list.      *)
AuthorizeEvent(prior, actor, type, payload) ==
    LET role == RoleOf(prior, actor)
    IN  IF ~HasCreator(prior) THEN "no_creator"
        ELSE IF type = RequestCreated THEN "request_created_not_allowed"
        ELSE IF role = "unauthorized" THEN "not_delegated"
        ELSE IF type \in CreatorOnlyTypes /\ role # "creator" THEN "creator_only"
        ELSE IF type # TaskDelegated THEN "ok"
        ELSE IF DelegatesFieldError(payload) # "ok" THEN DelegatesFieldError(payload)
        ELSE IF payload.form = "list" /\ OverCap(prior, payload) THEN "invalid_delegates"
        ELSE "ok"

(* A second result.created is refused whoever sends it.                    *)
SecondResult(prior, type) ==
    /\ type = ResultCreated
    /\ \E i \in DOMAIN prior : prior[i].type = ResultCreated

=============================================================================
