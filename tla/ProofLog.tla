------------------------------ MODULE ProofLog ------------------------------
(***************************************************************************)
(* What the proof API promises its clients, without sessions, locks or     *)
(* threads: a set of logs, each owned by one request_id, that change one   *)
(* entry at a time. ProofChain implements it (ProofChain!Log).             *)
(***************************************************************************)
EXTENDS Naturals, Sequences, FiniteSets

CONSTANTS ProofIds, RequestIds, NoRequestId, Closing, CreatorOnly,
          NoHead, MaxDelegates

VARIABLES
    log,     \* the entries of each proof
    owner,   \* the request_id each proof answers
    sealed   \* whether the proof's entries sign the head they extend

logVars == <<log, owner, sealed>>

Creator(entries) == entries[1].actor

(* The DIDs the creator's delegations in a log name.                       *)
Named(entries) ==
    UNION {{entries[i].payload.dids[k] : k \in DOMAIN entries[i].payload.dids} :
             i \in {j \in DOMAIN entries : /\ entries[j].type = "task.delegated"
                                           /\ entries[j].actor = Creator(entries)}}

Entitled(entries, entry) ==
    /\ entry.type # "request.created"
    /\ \/ entry.actor = Creator(entries)
       \/ entry.actor \in Named(entries) /\ entry.type \notin CreatorOnly
    /\ Cardinality(Named(Append(entries, entry)) \ {Creator(entries)}) <= MaxDelegates
    /\ entry.type = "result.created" =>
         \A i \in DOMAIN entries : entries[i].type # "result.created"

-----------------------------------------------------------------------------
(* No proof, or proofs taken over at their first entry.                    *)
LogInit ==
    /\ \A p \in ProofIds :
         \/ log[p] = <<>> /\ owner[p] = NoRequestId
         \/ /\ Len(log[p]) = 1
            /\ log[p][1].type = "request.created"
            /\ owner[p] \in RequestIds
    /\ \A p, q \in ProofIds :
         owner[p] = owner[q] /\ owner[p] # NoRequestId => p = q

(* A new proof, for a request_id that owns none.                           *)
Register(p, rid, entry) ==
    /\ log[p] = <<>>
    /\ \A q \in ProofIds : owner[q] # rid
    /\ entry.type = "request.created"
    /\ log' = [log EXCEPT ![p] = <<entry>>]
    /\ owner' = [owner EXCEPT ![p] = rid]
    /\ sealed' = [sealed EXCEPT ![p] = TRUE]

(* One more entry on an open log, by somebody entitled to it, with a new   *)
(* nonce, and (in a sealed log) signed over the entry it follows.          *)
Extend(p, entry) ==
    /\ log[p] # <<>>
    /\ log[p][Len(log[p])].type \notin Closing
    /\ \A i \in DOMAIN log[p] : log[p][i].nonce # entry.nonce
    /\ \A q \in ProofIds : \A i \in DOMAIN log[q] : log[q][i].id # entry.id
    /\ entry.head = IF sealed[p] THEN log[p][Len(log[p])].id ELSE NoHead
    /\ Entitled(log[p], entry)
    /\ log' = [log EXCEPT ![p] = Append(@, entry)]
    /\ UNCHANGED <<owner, sealed>>

(* The entry a step adds to p is the last one of the next state.           *)
Added(p) == log'[p][Len(log'[p])]

LogNext ==
    \E p \in ProofIds :
        /\ log'[p] # log[p] /\ Len(log'[p]) > 0
        /\ \/ \E rid \in RequestIds : Register(p, rid, Added(p))
           \/ Extend(p, Added(p))

LogSpec == LogInit /\ [][LogNext]_logVars
=============================================================================
