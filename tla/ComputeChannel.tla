--------------------------- MODULE ComputeChannel ---------------------------
(***************************************************************************)
(* The settlement side of a compute channel (app/compute_channel.py). The  *)
(* enclave records and signs turns, the agent signs a receipt over their   *)
(* root and an aggregate, the turns travel in an FCC4 transcript, and      *)
(* verify_receipt accepts a collection of turn proofs or raises.           *)
(*                                                                         *)
(* The code holds the decoder and the verifiers; the enclave, the agent    *)
(* and the sender are known from the tests. Zero is the zero hash. A       *)
(* signature of the enclave is the number of the turn it signed, 0 when it *)
(* is garbage; an acknowledgement is 0 when there is none. A transcript is *)
(* a sequence of fields, each in one place, so a flag that says a field is *)
(* there shifts the ones after it.                                         *)
(***************************************************************************)
EXTENDS MerkleTree, FiniteSets, SequencesExt

CONSTANTS
    Templates,      \* what the enclave may record, but for the turn index
    MaxRecorded,    \* bound: turns the enclave records
    MaxTurns,       \* MAX_TURNS
    MaxGn,          \* the largest value of g_n and of the aggregate (u128)
    Policies,       \* values of expected_decode_policy_hash, 0 for None
    Fields,         \* values a field of an altered transcript may take
    NoReceipt, NoTurns, Rejected

ASSUME ChannelAssumption ==
    /\ MaxRecorded \in Nat /\ MaxTurns \in Nat /\ MaxGn \in Nat
    /\ MaxRecorded <= MaxTurns /\ MaxTurns <= Reach[MaxPath]
    /\ Fields \subseteq Nat /\ Rejected \notin Nat

VARIABLES
    turns,      \* the turns the enclave recorded and signed
    receipt,    \* the receipt the agent signed last
    received,   \* the decoded transcript the submitter works from
    settled     \* the last submission verify_receipt accepted

cvars == <<turns, receipt, received, settled>>

(* A turn as it is recorded and sent. "io" is h_in and h_out, "time" the   *)
(* three timing fields.                                                    *)
Turn == [version : 0..3, index : Nat, io : Nat, gn : 0..MaxGn, policy : Nat,
         ids : Nat, toploc : Nat, time : Nat, sig : Nat, ack : Nat]

ASSUME TemplatesAssumption == Templates \subseteq Turn

-----------------------------------------------------------------------------
(* compute_verified_turn_leaf_v0_v1_v2_v3: the fields an older version     *)
(* does not hash must be zero; then the leaf is all of the turn but its    *)
(* signatures.                                                             *)
LeafDefined(t) ==
    /\ t.version \in 0..3
    /\ t.version \in {0, 1} => t.policy = 0
    /\ t.version \in {0, 1, 2} => t.ids = 0 /\ t.toploc = 0
    /\ t.version = 0 => t.time = 0
    /\ t.version = 3 => t.policy # 0 /\ t.ids # 0 /\ t.toploc # 0

Leaf(t) == [leaf |-> <<t.version, t.index, t.io, t.gn, t.policy, t.ids, t.toploc,
                       t.time>>]

LeavesOf(ts) == [i \in DOMAIN ts |-> Leaf(ts[i])]
SignedByEnclave(t) == t.sig \in DOMAIN turns /\ Leaf(turns[t.sig]) = Leaf(t)

(* Mutation: an older leaf is taken on a channel with a pinned policy. *)
PolicyOkOld(t, pinned) ==
    IF t.version \in {0, 1} THEN t.policy = 0
    ELSE t.policy # 0 /\ (pinned # 0 => t.policy = pinned)

PolicyOk(t, pinned) ==
    IF t.version \in {0, 1} THEN t.policy = 0 /\ pinned = 0
    ELSE t.policy # 0 /\ (pinned # 0 => t.policy = pinned)

(* verify_turn_proof                                                       *)
TurnProofOk(t, index, path, root, pinned) ==
    /\ PolicyOk(t, pinned)
    /\ LeafDefined(t)
    /\ SignedByEnclave(t)
    /\ PathLeadsTo(Leaf(t), index, path, root)

(* The running sum of the work of turns, one after the other.              *)
Work(gns) ==
    LET sum[k \in 0..Len(gns)] == IF k = 0 THEN 0 ELSE sum[k - 1] + gns[k]
    IN  sum

(* Mutation: only the positions in the tree are compared. *)
DistinctTurnsByPosition(items) ==
    \A i, j \in DOMAIN items : i # j => items[i].at # items[j].at

(* No position and no turn index twice.                                    *)
DistinctTurns(items) ==
    \A i, j \in DOMAIN items : i # j =>
        items[i].at # items[j].at /\ items[i].turn.index # items[j].turn.index

GnsOf(items) == [i \in DOMAIN items |-> items[i].turn.gn]

Total(items) ==
    LET sum == Work(GnsOf(items))
    IN  IF \E k \in DOMAIN items : sum[k] > MaxGn THEN Rejected ELSE sum[Len(items)]

(* verified_work_from_turns: the work, or Rejected for any of its errors.  *)
VerifiedWork(items, root, aggregate, pinned) ==
    IF /\ Len(items) <= MaxTurns
       /\ \A i \in DOMAIN items : items[i].at < MaxTurns
       /\ DistinctTurns(items)
       /\ \A i \in DOMAIN items :
            TurnProofOk(items[i].turn, items[i].at, items[i].path, root, pinned)
       /\ Total(items) = aggregate
    THEN aggregate ELSE Rejected

(* verify_receipt: the agent signed exactly this root, aggregate and       *)
(* payable.                                                                *)
VerifiedReceipt(items, root, aggregate, payable, pinned) ==
    IF receipt = [root |-> root, gn |-> aggregate, payable |-> payable]
    THEN VerifiedWork(items, root, aggregate, pinned) ELSE Rejected

-----------------------------------------------------------------------------
(* The FCC4 transcript: a count, then the fields of each turn; a policy    *)
(* and an acknowledgement are preceded by a flag.                          *)
Optional(value) == IF value = 0 THEN <<0>> ELSE <<1, value>>
Acknowledged(value) == IF value = 0 THEN <<0>> ELSE <<1, value - 1>>

EncodeTurn(t) ==
    <<t.version, t.index, t.io, t.gn>> \o Optional(t.policy)
      \o <<t.ids, t.toploc, t.time, t.sig>> \o Acknowledged(t.ack)

(* The transcript of the first turns, for every number of them.            *)
Sent(ts) ==
    LET sent[i \in 0..Len(ts)] ==
            IF i = 0 THEN <<Len(ts)>> ELSE sent[i - 1] \o EncodeTurn(ts[i])
    IN  sent

Encode(ts) == Sent(ts)[Len(ts)]

(* Mutation: the flag and the policy need not agree. *)
FieldsConsistentNoFlag(t, flag) ==
    /\ t.version \in 0..3
    /\ t.version \in {0, 1} => t.policy = 0
    /\ t.version \in {0, 1, 2} => t.ids = 0 /\ t.toploc = 0
    /\ t.version = 3 => t.ids # 0 /\ t.toploc # 0

(* _validate_leaf_fields                                                   *)
FieldsConsistent(t, flag) ==
    /\ t.version \in 0..3
    /\ t.version \in {0, 1} => flag = 0 /\ t.policy = 0
    /\ t.version \in {0, 1, 2} => t.ids = 0 /\ t.toploc = 0
    /\ t.version \in {2, 3} => flag = 1 /\ t.policy # 0
    /\ t.version = 3 => t.ids # 0 /\ t.toploc # 0

(* One turn read from a place of the transcript: the turn and the place    *)
(* after it, or Rejected (truncated, a flag that is neither 0 nor 1, or    *)
(* inconsistent fields).                                                   *)
ReadTurn(data, k) ==
    LET flag  == data[k + 4]
        p     == IF flag = 1 THEN k + 6 ELSE k + 5
        acked == data[p + 4]
        end   == IF acked = 1 THEN p + 6 ELSE p + 5
        turn  == [version |-> data[k], index |-> data[k + 1], io |-> data[k + 2],
                  gn |-> data[k + 3],
                  policy |-> IF flag = 1 THEN data[k + 5] ELSE 0,
                  ids |-> data[p], toploc |-> data[p + 1], time |-> data[p + 2],
                  sig |-> data[p + 3],
                  ack |-> IF acked = 1 THEN data[p + 5] + 1 ELSE 0]
    IN  IF /\ k + 4 <= Len(data) /\ flag \in {0, 1}
           /\ p + 4 <= Len(data) /\ acked \in {0, 1}
           /\ end <= Len(data) + 1
           /\ FieldsConsistent(turn, flag)
        THEN [turn |-> turn, next |-> end]
        ELSE [turn |-> Rejected, next |-> 0]

(* The reads one after the other, as many as the count says; place 0 is    *)
(* that of an error.                                                       *)
Reading(data) ==
    LET read[i \in 0..data[1]] ==
            IF i = 0 THEN [turn |-> Rejected, next |-> 2]
            ELSE LET before == read[i - 1]
                 IN  IF before.next = 0 THEN before ELSE ReadTurn(data, before.next)
    IN  read

(* decode_fcc4_transcript: the turns, and nothing after them.              *)
Decode(data) ==
    IF data = <<>> \/ data[1] > MaxTurns THEN NoTurns
    ELSE LET read == Reading(data)
         IN  IF read[data[1]].next # Len(data) + 1 THEN NoTurns
             ELSE [i \in 1..data[1] |-> read[i].turn]

-----------------------------------------------------------------------------
ChannelInit ==
    /\ turns = <<>>
    /\ receipt = NoReceipt
    /\ received = NoTurns
    /\ settled = Rejected

Numbered(t, index) == [t EXCEPT !.index = index]
Signed(t, number) == [t EXCEPT !.sig = number]

(* The enclave records a turn; it may give an index a second time.         *)
Record(template) ==
    /\ Len(turns) < MaxRecorded /\ received = NoTurns
    /\ LeafDefined(template)
    /\ \E index \in {Len(turns)} \cup {turns[i].index : i \in DOMAIN turns} :
         turns' = Append(turns, Signed(Numbered(template, index), Len(turns) + 1))
    /\ UNCHANGED <<receipt, received, settled>>

(* The agent signs the receipt it is shown over the turns so far. (Bounds: *)
(* one receipt, one transcript and one settlement of a channel.)           *)
SignReceipt(aggregate, payable) ==
    /\ receipt = NoReceipt
    /\ receipt' = [root |-> MerkleRoot(LeavesOf(turns)), gn |-> aggregate,
                   payable |-> payable]
    /\ UNCHANGED <<turns, received, settled>>

(* A transcript as it arrives: as it was sent, cut, continued, or with a   *)
(* field changed.                                                          *)
Transcripts(ts) ==
    LET sent == Encode(ts)
    IN  {sent, Front(sent)} \cup {Append(sent, f) : f \in Fields}
          \cup {[sent EXCEPT ![k] = f] : k \in DOMAIN sent, f \in Fields}

ReceiveTranscript(data) ==
    /\ received = NoTurns /\ Decode(data) # NoTurns
    /\ received' = Decode(data)
    /\ UNCHANGED <<turns, receipt, settled>>

(* Proofs a submitter makes of the turns it holds, a turn it holds twice   *)
(* once: each with the path of any position of the bottom level, under any *)
(* index.                                                                  *)
Items(ts) ==
    LET leaves == LeavesOf(ts)
        width == Len(Paired(leaves))
        paths == {PathOf(leaves, p) : p \in 0..(width - 1)}
        held == {j \in DOMAIN ts : \A k \in 1..(j - 1) : leaves[k] # leaves[j]}
    IN  {[at |-> i, turn |-> ts[j], path |-> path] :
            i \in 0..(MaxTurns - 1), path \in paths, j \in held}

Submit(items, pinned) ==
    /\ receipt # NoReceipt /\ settled = Rejected
    /\ VerifiedReceipt(items, receipt.root, receipt.gn, receipt.payable, pinned)
         # Rejected
    /\ settled' = [items |-> items, root |-> receipt.root, gn |-> receipt.gn,
                   pinned |-> pinned]
    /\ UNCHANGED <<turns, receipt, received>>

(* Submissions of proofs that hold one by one, by increasing index: the    *)
(* code compares them pairwise and adds them up.                           *)
Increasing(items) ==
    \A i, j \in DOMAIN items : i < j => items[i].at < items[j].at

Submissions ==
    IF received \in {NoTurns, <<>>} THEN {<<>>}
    ELSE LET usable == {x \in Items(received) :
                \E q \in Policies :
                    TurnProofOk(x.turn, x.at, x.path, receipt.root, q)}
         IN  {s \in UNION {[1..n -> usable] : n \in 0..MaxRecorded} : Increasing(s)}

ChannelNext ==
    \/ \E t \in Templates : Record(t)
    \/ \E gn \in 0..MaxGn : SignReceipt(gn, 0)
    \/ \E data \in Transcripts(turns) : ReceiveTranscript(data)
    \/ receipt # NoReceipt /\ \E items \in Submissions, q \in Policies : Submit(items, q)

ChannelSpec == ChannelInit /\ [][ChannelNext]_cvars

-----------------------------------------------------------------------------
(* Properties. *)

(* Accepted work was done once: it is the sum over as many turns as were   *)
(* submitted, recorded by the enclave before the agent signed, no two with *)
(* the same turn index. A turn is not counted again as the double that     *)
(* pads an odd level, nor under an index with bits above its path, nor     *)
(* with other work than was recorded, and the sum does not wrap            *)
(* (compute_channel.py, verified_work_from_turns, verify_receipt).         *)
WorkIsCountedOnce ==
    settled # Rejected =>
        LET items == settled.items
        IN  \E n \in 0..Len(turns) :
                /\ settled.root = MerkleRoot(LeavesOf(SubSeq(turns, 1, n)))
                /\ \E f \in [DOMAIN items -> 1..n] :
                    /\ \A i \in DOMAIN items : Leaf(turns[f[i]]) = Leaf(items[i].turn)
                    /\ \A i, j \in DOMAIN items :
                         turns[f[i]].index = turns[f[j]].index => i = j
                    /\ Work([i \in DOMAIN items |-> turns[f[i]].gn])[Len(items)]
                         = settled.gn

(* On a channel with a pinned decode policy every counted turn was decoded *)
(* under it: no leaf of a version without a policy is let in               *)
(* (verify_turn_proof).                                                    *)
PinnedPolicyHolds ==
    settled # Rejected /\ settled.pinned # 0 =>
        \A i \in DOMAIN settled.items :
            \E k \in DOMAIN turns :
                /\ Leaf(turns[k]) = Leaf(settled.items[i].turn)
                /\ turns[k].version >= 2 /\ turns[k].policy = settled.pinned

(* The next three are about the turns alone; every sequence of turns is    *)
(* first there before a receipt or a transcript is.                        *)
Recording == receipt = NoReceipt /\ received = NoTurns

(* The leaf function takes a version-2 turn with the policy zero, which    *)
(* the decoder and verify_turn_proof refuse.                               *)
WithPolicies ==
    \A i \in DOMAIN turns : turns[i].version = 2 => turns[i].policy # 0

(* Whatever their number, the turns of an honest channel are accepted with *)
(* their paths, one by one and together (compute_merkle_root and           *)
(* verify_merkle_path agree on padding and orientation).                   *)
HonestIsAccepted ==
    LET leaves == LeavesOf(turns)
        root == MerkleRoot(leaves)
        items == [i \in DOMAIN turns |->
                    [at |-> i - 1, turn |-> turns[i], path |-> PathOf(leaves, i - 1)]]
        sum == Work(GnsOf(items))[Len(turns)]
        honest == /\ WithPolicies
                  /\ \A i, j \in DOMAIN turns :
                       turns[i].index = turns[j].index => i = j
                  /\ sum <= MaxGn
    IN  Recording /\ honest =>
          /\ VerifiedWork(items, root, sum, 0) = sum
          /\ \A i \in DOMAIN turns :
               VerifiedWork(<<items[i]>>, root, turns[i].gn, 0) = turns[i].gn

Arrangements(n, S) ==
    {f \in [1..n -> S] : \A i, j \in 1..n : f[i] = f[j] => i = j}

(* A receipt over a root is a receipt over one sequence of turns: no other *)
(* sequence made of the same distinct turns has this root, although odd    *)
(* levels repeat a leaf (compute_merkle_root).                             *)
RootBindsTurns ==
    LET leaves == LeavesOf(turns)
        distinct == \A i, j \in DOMAIN turns : leaves[i] = leaves[j] => i = j
    IN  Recording /\ distinct =>
          \A n \in 0..Len(turns) : \A f \in Arrangements(n, DOMAIN turns) :
             MerkleRoot([i \in 1..n |-> leaves[f[i]]]) = MerkleRoot(leaves)
               => n = Len(turns) /\ \A i \in 1..n : f[i] = i

(* A transcript is read in one way: what decodes is exactly the encoding   *)
(* of the turns it decodes to, and the turns of the channel come back from *)
(* their own encoding (decode_fcc4_transcript: TrailingBytes,              *)
(* LeafFieldsInconsistent, the flags).                                     *)
TranscriptIsExact ==
    Recording =>
        /\ \A data \in Transcripts(turns) :
             Decode(data) # NoTurns => Encode(Decode(data)) = data
        /\ WithPolicies => Decode(Encode(turns)) = turns

=============================================================================
