------------------------ MODULE VerifiedChainProofs ------------------------
(***************************************************************************)
(* Proofs that the verifier accepts every chain the API has stored, for    *)
(* every value of the constants: the two implementations of the rules,     *)
(* app/main.py and app/verification_core.py, agree on stored proofs.       *)
(*                                                                         *)
(* The argument: the API decides on each event with the whole chain before *)
(* it, and that decision stays on record (RowsAccepted). The verifier      *)
(* decides with the intact rows before it. By the properties of the chain  *)
(* every exported row is intact (RowIsIntact), so the verifier's prefix is *)
(* the API's (PriorIsPrefix), and the rules read nothing of a row that the *)
(* export changes (SameAuthorization).                                     *)
(***************************************************************************)
EXTENDS VerifiedChain, ProofChainProofs

-----------------------------------------------------------------------------
(* What the API established of every stored row. *)

(* A later row was accepted on the rows before it.                         *)
RowsAccepted(events) ==
    \A i \in 2..Len(events) :
        LET prior == SubSeq(events, 1, i - 1)
            row   == events[i]
        IN  /\ AuthorizeEvent(prior, row.actor, row.type, row.payload) = "ok"
            /\ ~SecondResult(prior, row.type)

(* Only a request of version 1 or 2 is stored without the nonce it signs.  *)
NoncesSigned(p) ==
    proofs[p].version \notin LegacyVersions =>
        \A i \in DOMAIN chain[p] : chain[p][i].nonce \in Nonces

Decided == \A p \in ProofIds : RowsAccepted(chain[p]) /\ NoncesSigned(p)

(* A chain of one row has no later row.                                    *)
LEMMA FirstRowAccepted ==
    ASSUME NEW events, events = <<>> \/ \E e \in Event : events = <<e>>
    PROVE  RowsAccepted(events)
<1>1. Len(events) \in {0, 1}
  OBVIOUS
<1>. QED  BY <1>1 DEF RowsAccepted

(* A row is judged by the rows before it, which a longer chain keeps.      *)
LEMMA AcceptedAppend ==
    ASSUME NEW events \in Seq(Event), NEW e \in Event, RowsAccepted(events),
           AuthorizeEvent(events, e.actor, e.type, e.payload) = "ok",
           ~SecondResult(events, e.type)
    PROVE  RowsAccepted(Append(events, e))
<1>. DEFINE new == Append(events, e)
<1>1. /\ Len(new) = Len(events) + 1 /\ new[Len(events) + 1] = e
      /\ \A i \in 1..Len(events) : new[i] = events[i]
  OBVIOUS
<1>2. SubSeq(new, 1, (Len(events) + 1) - 1) = events
  OBVIOUS
<1>3. \A i \in 2..Len(events) : SubSeq(new, 1, i - 1) = SubSeq(events, 1, i - 1)
  OBVIOUS
<1>4. Len(events) \in Nat
  OBVIOUS
<1>. HIDE DEF new
<1>. SUFFICES ASSUME NEW i \in 2..(Len(events) + 1)
              PROVE  /\ AuthorizeEvent(SubSeq(new, 1, i - 1), new[i].actor,
                                       new[i].type, new[i].payload) = "ok"
                     /\ ~SecondResult(SubSeq(new, 1, i - 1), new[i].type)
  BY <1>1 DEF RowsAccepted, new
<1>5. CASE i = Len(events) + 1
  BY <1>1, <1>2, <1>5
<1>6. CASE i \in 2..Len(events)
  <2>1. new[i] = events[i]
    BY <1>1, <1>6
  <2>. QED  BY <1>3, <1>6, <2>1 DEF RowsAccepted
<1>. QED  BY <1>4, <1>5, <1>6

(* The initial states store no row the API would not have taken.           *)
LEMMA InitDecided == ASSUME Init PROVE Decided
<1>1. ASSUME NEW p \in ProofIds
      PROVE  RowsAccepted(chain[p])
  BY InitChains, FirstRowAccepted
<1>2. ASSUME NEW p \in ProofIds
      PROVE  NoncesSigned(p)
  <2>1. CASE EmptyDatabase
    BY <2>1 DEF EmptyDatabase, NoncesSigned
  <2>2. CASE OldDatabase
    <3>1. PICK v \in OldVersions, q \in ProofIds, rid \in RequestIds, id \in EventIds,
               a \in Actors, b \in RequestPayloads, w \in SentSpellings, n \in Nonces :
            /\ proofs = [s \in ProofIds |->
                           IF s = q THEN [rid |-> rid, version |-> v, status |-> "pending"]
                                    ELSE Absent]
            /\ chain  = [s \in ProofIds |->
                           IF s = q
                           THEN <<OldRow(id, a, b, w,
                                         IF v \in LegacyVersions THEN NoNonce ELSE n)>>
                           ELSE <<>>]
      BY <2>2 DEF OldDatabase
    <3>2. \A k : OldRow(id, a, b, w, k).nonce = k
      BY DEF OldRow, NewRow
    <3>3. CASE p # q
      BY <3>1, <3>3 DEF NoncesSigned
    <3>4. CASE p = q /\ v \notin LegacyVersions
      BY <3>1, <3>2, <3>4 DEF NoncesSigned
    <3>5. CASE p = q /\ v \in LegacyVersions
      BY <3>1, <3>5 DEF NoncesSigned
    <3>. QED  BY <3>3, <3>4, <3>5
  <2>. QED  BY <2>1, <2>2 DEF Init
<1>. QED  BY <1>1, <1>2 DEF Decided

(* An accepted event goes on record with the chain it was accepted on.     *)
LEMMA DecidedStep ==
    ASSUME IInv, Decided, [Next]_vars
    PROVE  Decided'
<1>. SUFFICES ASSUME NEW p \in ProofIds
              PROVE  /\ RowsAccepted(chain'[p])
                     /\ proofs'[p].version \notin LegacyVersions =>
                          \A i \in DOMAIN chain'[p] : chain'[p][i].nonce \in Nonces
  BY DEF Decided, RowsAccepted, NoncesSigned
<1>1. chain[p] \in Seq(Event) /\ RowsAccepted(chain[p]) /\ NoncesSigned(p)
  BY DEF IInv, TypeOK, Decided
<1>2. CASE chain'[p] = chain[p] /\ (chain[p] # <<>> => proofs'[p].version = proofs[p].version)
  <2>1. CASE chain[p] = <<>>
    BY <1>1, <1>2, <2>1
  <2>2. CASE chain[p] # <<>>
    BY <1>1, <1>2, <2>2 DEF NoncesSigned
  <2>. QED  BY <2>1, <2>2
<1>3. CASE Starts(p)
  <2>1. PICK e \in Event : chain'[p] = <<e>> /\ e.nonce \in Nonces
    BY <1>3 DEF Starts
  <2>2. RowsAccepted(chain'[p])
    BY <2>1, FirstRowAccepted
  <2>. QED  BY <2>1, <2>2
<1>4. CASE Extends(p)
  <2>1. PICK r \in EventRequest, e \in Event :
               /\ LockedRefusal(proofs[p], chain[p], r) = "ok"
               /\ chain'[p] = Append(chain[p], e)
               /\ e.type = r.type /\ e.actor = r.actor /\ e.payload = r.payload
               /\ e.nonce = r.nonce
               /\ proofs'[p].version = proofs[p].version
    BY <1>4 DEF Extends
  <2>2. RowsAccepted(chain'[p])
    BY <1>1, <2>1, Accepted, AcceptedAppend
  <2>3. e.nonce \in Nonces
    BY <2>1 DEF EventRequest
  <2>. QED  BY <1>1, <2>1, <2>2, <2>3 DEF NoncesSigned
<1>. QED  BY <1>2, <1>3, <1>4, TableStep

-----------------------------------------------------------------------------
(* The rules read the same of an export as of the chain. *)

LEMMA SameCardinality == \A S : V!Cardinality(S) = Cardinality(S)
BY DEF V!Cardinality, Cardinality

(* The verifier's rules are the API's, and the payload of the first row,   *)
(* which an export rebuilds, has no part in them.                          *)
LEMMA SameAuthorization ==
    ASSUME NEW prior, NEW shown, NEW n \in Nat, n >= 1,
           prior # <<>>, DOMAIN prior = 1..n, Len(prior) = n,
           shown # <<>>, DOMAIN shown = 1..n, Len(shown) = n,
           \A i \in 1..n : /\ shown[i].type = prior[i].type
                           /\ shown[i].actor = prior[i].actor
                           /\ shown[i].seq = prior[i].seq,
           \A i \in 2..n : shown[i].payload = prior[i].payload,
           NEW a, NEW t, NEW b
    PROVE  /\ V!AuthorizeEvent(shown, a, t, b) = AuthorizeEvent(prior, a, t, b)
           /\ V!SecondResult(shown, t) = SecondResult(prior, t)
<1>1. 1 \in 1..n
  OBVIOUS
<1>2. /\ V!HasCreator(shown) <=> HasCreator(prior)
      /\ V!CreatorOf(shown) = CreatorOf(prior)
  BY <1>1 DEF V!HasCreator, HasCreator, V!CreatorOf, CreatorOf,
              V!RequestCreated, RequestCreated
<1>3. ASSUME NEW c
      PROVE  /\ V!DelegatesFieldError(c) = DelegatesFieldError(c)
             /\ V!Listed(c) = Listed(c)
  BY DEF V!DelegatesFieldError, DelegatesFieldError, V!Listed, Listed
<1>4. V!Granting(shown) = Granting(prior)
  <2>1. \A i \in 2..n : i \in 1..n
    OBVIOUS
  <2>2. \A i \in 2..n :
          (/\ shown[i].type = V!TaskDelegated
           /\ shown[i].actor = V!CreatorOf(shown)
           /\ shown[i].payload.form = "list"
           /\ V!DelegatesFieldError(shown[i].payload) = "ok")
          <=>
          (/\ prior[i].type = TaskDelegated
           /\ prior[i].actor = CreatorOf(prior)
           /\ prior[i].payload.form = "list"
           /\ DelegatesFieldError(prior[i].payload) = "ok")
    BY <1>2, <1>3, <2>1 DEF V!TaskDelegated, TaskDelegated
  <2>. QED  BY <2>2 DEF V!Granting, Granting
<1>5. \A i \in Granting(prior) : i \in 2..n
  BY DEF Granting
<1>6. V!DelegatesOf(shown) = DelegatesOf(prior)
  <2>1. UNION {V!Listed(shown[i].payload) : i \in V!Granting(shown)}
          = UNION {Listed(prior[i].payload) : i \in Granting(prior)}
    BY <1>3, <1>4, <1>5
  <2>. QED  BY <1>2, <2>1 DEF V!DelegatesOf, DelegatesOf
<1>7. V!RoleOf(shown, a) = RoleOf(prior, a)
  BY <1>2, <1>6 DEF V!RoleOf, RoleOf
<1>8. V!OverCap(shown, b) <=> OverCap(prior, b)
  BY <1>2, <1>3, <1>6, SameCardinality DEF V!OverCap, OverCap
<1>9. /\ V!RequestCreated = RequestCreated /\ V!TaskDelegated = TaskDelegated
      /\ V!CreatorOnlyTypes = CreatorOnlyTypes /\ V!ResultCreated = ResultCreated
  BY DEF V!RequestCreated, RequestCreated, V!TaskDelegated, TaskDelegated,
         V!CreatorOnlyTypes, CreatorOnlyTypes, V!ResultCreated, ResultCreated,
         V!ClosingTypes, ClosingTypes
<1>10. V!AuthorizeEvent(shown, a, t, b) = AuthorizeEvent(prior, a, t, b)
  BY <1>2, <1>3, <1>7, <1>8, <1>9 DEF V!AuthorizeEvent, AuthorizeEvent
<1>11. V!SecondResult(shown, t) = SecondResult(prior, t)
  BY <1>9 DEF V!SecondResult, SecondResult
<1>. QED  BY <1>10, <1>11

-----------------------------------------------------------------------------
(* What an export holds. *)

LEMMA ExportRows ==
    ASSUME TypeOK, NEW p \in ProofIds
    PROVE  /\ chain[p] \in Seq(Event) /\ DOMAIN chain[p] = 1..Len(chain[p])
           /\ DOMAIN Export(p) = 1..Len(chain[p])
           /\ Len(Export(p)) = Len(chain[p])
           /\ \A i \in 1..Len(chain[p]) : Export(p)[i] = ExportedRow(p, chain[p][i])
<1>1. chain[p] \in Seq(Event) /\ Len(chain[p]) \in Nat
      /\ DOMAIN chain[p] = 1..Len(chain[p])
  BY DEF TypeOK
<1>2. /\ DOMAIN Export(p) = 1..Len(chain[p])
      /\ \A i \in 1..Len(chain[p]) : Export(p)[i] = ExportedRow(p, chain[p][i])
  BY <1>1 DEF Export
<1>3. Len(Export(p)) = Len(chain[p])
  BY <1>1 DEF Export
<1>. QED  BY <1>1, <1>2, <1>3

LEMMA RowFields ==
    ASSUME NEW p, NEW row
    PROVE  /\ ExportedRow(p, row).id = row.id
           /\ ExportedRow(p, row).type = row.type
           /\ ExportedRow(p, row).actor = row.actor
           /\ ExportedRow(p, row).payload = PayloadOf(p, row)
           /\ ExportedRow(p, row).hash = PayloadOf(p, row)
           /\ ExportedRow(p, row).canonical = MessageOf(p, row)
           /\ ExportedRow(p, row).sig = SignatureOf(p, row)
           /\ ExportedRow(p, row).nonce = row.nonce
           /\ ExportedRow(p, row).seq = row.seq
           /\ ExportedRow(p, row).prev = row.prev
           /\ row.type # RequestCreated => PayloadOf(p, row) = row.payload
BY DEF ExportedRow, PayloadOf

-----------------------------------------------------------------------------
(* Every exported row verifies by itself. *)

StoredInvariant ==
    IInv /\ ChainsLawful /\ OneResult /\ OldPairOnce /\ Decided

(* What a stored row is, by the theorems about ProofChain.                 *)
LEMMA StoredRow ==
    ASSUME StoredInvariant, NEW p \in ProofIds, Exists(p), NEW i \in DOMAIN chain[p]
    PROVE  /\ proofs[p].version \in {"1", "2", "3", "4"}
           /\ chain[p][i] \in Event /\ chain[p][i].seq = i
           /\ chain[p][i].type = RequestCreated <=> i = 1
           /\ chain[p][i].prev = IF i = 1 THEN NoHead ELSE chain[p][i - 1].id
           /\ i > 1 => chain[p][i].prev # NoHead
           /\ i > 1 /\ proofs[p].version = "4" => chain[p][i].head = chain[p][i].prev
           /\ proofs[p].version \notin LegacyVersions => chain[p][i].nonce \in Nonces
<1>1. TypeOK /\ ChainLinked /\ Lawful(chain[p]) /\ NoncesSigned(p)
  BY DEF StoredInvariant, IInv, ChainsOK, ChainsLawful, Decided
<1>2. chain[p] \in Seq(Event) /\ proofs[p] \in ProofRow
  BY <1>1 DEF TypeOK, Exists
<1>3. proofs[p].version \in {"1", "2", "3", "4"}
  BY <1>2 DEF ProofRow, Versions, CurrentVersion, LegacyVersions
<1>4. chain[p][i].type = RequestCreated <=> i = 1
  BY <1>1 DEF Lawful, RowsEntitled
<1>5. /\ chain[p][i].seq = i
      /\ chain[p][i].prev = IF i = 1 THEN NoHead ELSE chain[p][i - 1].id
      /\ i > 1 /\ proofs[p].version = "4" => chain[p][i].head = chain[p][i].prev
  BY <1>1 DEF ChainLinked, LinkHash, CurrentVersion
<1>6. i > 1 => chain[p][i].prev # NoHead
  <2>. SUFFICES ASSUME i > 1
                PROVE  chain[p][i].prev # NoHead
    OBVIOUS
  <2>1. i - 1 \in DOMAIN chain[p] /\ i # 1
    BY <1>2
  <2>2. chain[p][i - 1] \in Event
    BY <1>2, <2>1
  <2>3. chain[p][i - 1].id \in EventIds
    BY <2>2 DEF Event
  <2>. QED  BY <1>5, <2>1, <2>3, IdsAssumption DEF NoHead
<1>7. chain[p][i] \in Event
  BY <1>2
<1>. QED  BY <1>1, <1>3, <1>4, <1>5, <1>6, <1>7 DEF NoncesSigned

(* The message of a row, in the formats of old and new versions.           *)
LEMMA Messages ==
    ASSUME NEW p, NEW row, proofs[p].version \in {"1", "2", "3", "4"}
    PROVE  LET v == proofs[p].version
               m == MessageOf(p, row)
           IN  /\ v \in LegacyVersions => m.tag = "none"
               /\ row.type = RequestCreated =>
                    /\ m.fields[1] = Room /\ m.fields[2] = row.nonce
                    /\ m.fields[3] = row.payload.body
                    /\ v \notin LegacyVersions => m.tag = "request" /\ m.version = v
               /\ row.type # RequestCreated =>
                    /\ m = V!EventCanonical(v, p, row.type, row.payload, row.nonce, row.head)
                    /\ m.fields[1] = p /\ m.fields[2] = row.type
                    /\ m.fields[3] = row.payload
                    /\ v \notin LegacyVersions =>
                         /\ m.tag = "event" /\ m.version = v
                         /\ m.fields[4] = row.nonce
                    /\ v = "4" => m.fields[5] = row.head
<1>1. CASE row.type = RequestCreated
  BY <1>1 DEF MessageOf, V!RequestCanonical, V!LegacyVersions, LegacyVersions, V!Untagged
<1>2. CASE row.type # RequestCreated
  BY <1>2 DEF MessageOf, V!EventCanonical, V!LegacyVersions, LegacyVersions, V!Untagged
<1>. QED  BY <1>1, <1>2

(* The nonce the verifier reads in a tagged message is the row's.          *)
LEMMA SignedNonceOfRow ==
    ASSUME NEW p \in ProofIds, NEW row, proofs[p].version \in {"3", "4"}
    PROVE  V!SignedNonce(proofs[p].version, ExportedRow(p, row)) = row.nonce
<1>1. proofs[p].version \notin LegacyVersions
  BY DEF LegacyVersions
<1>2. /\ ExportedRow(p, row).type = row.type
      /\ ExportedRow(p, row).canonical = MessageOf(p, row)
  BY RowFields
<1>3. CASE row.type = RequestCreated
  BY <1>1, <1>2, <1>3, Messages, RoomAssumption
     DEF V!SignedNonce, V!ParsesAsRequest, V!RequestCreated, RequestCreated
<1>4. CASE row.type # RequestCreated
  BY <1>1, <1>2, <1>4, Messages
     DEF V!SignedNonce, V!ParsesAsEvent, V!RequestCreated, RequestCreated
<1>. QED  BY <1>3, <1>4

(* A stored row follows the row before it, in number and in link.          *)
LEMMA RowFollows ==
    ASSUME StoredInvariant, NEW p \in ProofIds, Exists(p), NEW i \in DOMAIN chain[p]
    PROVE  /\ V!SequenceValid(Export(p), i)
           /\ V!ChainValid(p, Export(p), i)
<1>1. TypeOK
  BY DEF StoredInvariant, IInv
<1>2. /\ chain[p][i].seq = i
      /\ chain[p][i].prev = IF i = 1 THEN NoHead ELSE chain[p][i - 1].id
  BY StoredRow
<1>3. /\ Export(p)[i].seq = chain[p][i].seq
      /\ Export(p)[i].prev = chain[p][i].prev
  BY <1>1, ExportRows, RowFields
<1>4. ASSUME i # 1
      PROVE  Export(p)[i - 1].id = chain[p][i - 1].id
  <2>1. i - 1 \in 1..Len(chain[p])
    BY <1>1, <1>4, ExportRows
  <2>. QED  BY <1>1, <2>1, ExportRows, RowFields
<1>. QED  BY <1>2, <1>3, <1>4 DEF V!SequenceValid, V!ChainValid, LinkById

(* A stored row repeats no signed message.                                 *)
LEMMA RowIsNew ==
    ASSUME StoredInvariant, NEW p \in ProofIds, Exists(p), NEW i \in DOMAIN chain[p]
    PROVE  V!ReplayValid(proofs[p].version, Export(p), i)
<1>. DEFINE v == proofs[p].version
            X == Export(p)
<1>1. /\ TypeOK /\ NonceUsedOnce /\ OldPairOnce
  BY DEF StoredInvariant, IInv, ChainsOK
<1>2. /\ v \in {"1", "2", "3", "4"} /\ DOMAIN chain[p] = 1..Len(chain[p])
      /\ chain[p][i].type = RequestCreated <=> i = 1
      /\ \A j \in 1..Len(chain[p]) : X[j] = ExportedRow(p, chain[p][j])
  BY <1>1, StoredRow, ExportRows
<1>3. ASSUME NEW j \in 1..(i - 1)
      PROVE  /\ j \in 1..Len(chain[p]) /\ i \in 2..Len(chain[p]) /\ i # j
             /\ j # 1 => j \in 2..Len(chain[p])
             /\ chain[p][j].type = RequestCreated <=> j = 1
  <2>1. j \in 1..Len(chain[p]) /\ i \in 2..Len(chain[p]) /\ i # j
    BY <1>2
  <2>. QED  BY <1>2, <2>1, StoredRow
<1>4. CASE v \in LegacyVersions
  <2>. SUFFICES ASSUME NEW j \in 1..(i - 1)
                PROVE  X[i].canonical # X[j].canonical \/ X[i].sig # X[j].sig
    BY <1>4 DEF V!ReplayValid, V!LegacyVersions, LegacyVersions
  <2>1. /\ X[i].canonical = MessageOf(p, chain[p][i]) /\ X[j].canonical = MessageOf(p, chain[p][j])
        /\ X[i].sig = SignatureOf(p, chain[p][i]) /\ X[j].sig = SignatureOf(p, chain[p][j])
    BY <1>2, <1>3, RowFields
  <2>2. /\ MessageOf(p, chain[p][i]).fields[1] = p
        /\ MessageOf(p, chain[p][i]).fields[2] = chain[p][i].type
        /\ MessageOf(p, chain[p][i]).fields[3] = chain[p][i].payload
    BY <1>2, <1>3, Messages
  <2>3. CASE j = 1
    <3>1. MessageOf(p, chain[p][j]).fields[1] = Room
      BY <1>2, <1>3, <2>3, Messages
    <3>. QED  BY <2>1, <2>2, <3>1, RoomAssumption
  <2>4. CASE j # 1
    <3>1. /\ MessageOf(p, chain[p][j]).fields[2] = chain[p][j].type
          /\ MessageOf(p, chain[p][j]).fields[3] = chain[p][j].payload
      BY <1>2, <1>3, <2>4, Messages
    <3>2. \/ chain[p][i].type # chain[p][j].type
          \/ chain[p][i].actor # chain[p][j].actor
          \/ chain[p][i].payload # chain[p][j].payload
          \/ chain[p][i].spelling # chain[p][j].spelling
      BY <1>1, <1>3, <1>4, <2>4 DEF OldPairOnce
    <3>3. /\ X[i].sig.by = chain[p][i].actor /\ X[j].sig.by = chain[p][j].actor
          /\ X[i].sig.spelling = chain[p][i].spelling
          /\ X[j].sig.spelling = chain[p][j].spelling
      BY <2>1 DEF SignatureOf
    <3>. QED  BY <2>1, <2>2, <3>1, <3>2, <3>3
  <2>. QED  BY <2>3, <2>4
<1>5. CASE v \notin LegacyVersions
  <2>1. v \in {"3", "4"}
    BY <1>2, <1>5 DEF LegacyVersions
  <2>2. \A j \in 1..Len(chain[p]) : V!SignedNonce(v, X[j]) = chain[p][j].nonce
    BY <1>2, <2>1, SignedNonceOfRow
  <2>3. \A j \in 1..(i - 1) : chain[p][i].nonce # chain[p][j].nonce
    BY <1>1, <1>2, <1>3 DEF NonceUsedOnce
  <2>4. \A j \in 1..(i - 1) : V!SignedNonce(v, X[i]) # V!SignedNonce(v, X[j])
    BY <1>2, <1>3, <2>2, <2>3
  <2>. QED  BY <1>5, <2>4 DEF V!ReplayValid, V!LegacyVersions, LegacyVersions
<1>. QED  BY <1>4, <1>5

(* A stored request.created is bound to its own request.                   *)
LEMMA RequestIsBound ==
    ASSUME NEW p \in ProofIds, NEW row, row.type = RequestCreated,
           proofs[p].version \in {"1", "2", "3", "4"}
    PROVE  V!RequestBindingValid(proofs[p].version, ExportedRow(p, row))
<1>. DEFINE X == ExportedRow(p, row)
            m == MessageOf(p, row)
<1>1. /\ X.payload = PayloadOf(p, row) /\ X.canonical = m
      /\ X.sig = SignatureOf(p, row) /\ X.actor = row.actor
  BY RowFields
<1>2. /\ PayloadOf(p, row).form = "request"
      /\ PayloadOf(p, row).body.nonce = row.nonce
      /\ PayloadOf(p, row).body.text = row.payload.body
      /\ PayloadOf(p, row).body.sig = SignatureOf(p, row)
      /\ PayloadOf(p, row).body.from = row.actor
  BY DEF PayloadOf
<1>3. /\ m.fields[1] = Room /\ m.fields[2] = row.nonce /\ m.fields[3] = row.payload.body
      /\ proofs[p].version \in LegacyVersions => m.tag = "none"
      /\ proofs[p].version \notin LegacyVersions =>
           m.tag = "request" /\ m.version = proofs[p].version
  BY Messages
<1>. HIDE DEF X, m
<1>4. V!RequestBindingValid(proofs[p].version, X)
  BY <1>1, <1>2, <1>3, RoomAssumption
     DEF V!RequestBindingValid, V!ParsesAsRequest, V!LegacyVersions, LegacyVersions
<1>. QED  BY <1>4 DEF X

(* Each exported row is intact: only its authority depends on other rows.  *)
LEMMA RowIsIntact ==
    ASSUME StoredInvariant, NEW p \in ProofIds, Exists(p), NEW i \in DOMAIN chain[p]
    PROVE  V!Intact(p, proofs[p].version, Export(p), i)
<1>. DEFINE v == proofs[p].version
            X == Export(p)[i]
            row == chain[p][i]
<1>1. TypeOK
  BY DEF StoredInvariant, IInv
<1>2. X = ExportedRow(p, row)
  BY <1>1, ExportRows
<1>3. /\ X.type = row.type /\ X.actor = row.actor /\ X.payload = PayloadOf(p, row)
      /\ X.hash = PayloadOf(p, row) /\ X.canonical = MessageOf(p, row)
      /\ X.sig = SignatureOf(p, row) /\ X.nonce = row.nonce /\ X.prev = row.prev
      /\ row.type # RequestCreated => PayloadOf(p, row) = row.payload
  BY <1>2, RowFields
<1>4. /\ v \in {"1", "2", "3", "4"} /\ row \in Event
      /\ row.type = RequestCreated <=> i = 1
      /\ i > 1 => row.prev # NoHead
      /\ i > 1 /\ v = "4" => row.head = row.prev
      /\ v \notin LegacyVersions => row.nonce \in Nonces
  BY StoredRow
<1>5. i \in Nat /\ i >= 1
  BY <1>1, ExportRows
<1>6. V!RequestCreated = RequestCreated
  BY DEF V!RequestCreated, RequestCreated
<1>7. ASSUME row.type # RequestCreated, v = "4"
      PROVE  /\ V!SignedHead(X) = row.head /\ row.head = row.prev /\ row.head # NoHead
             /\ i > 1
  <2>1. /\ MessageOf(p, row).tag = "event" /\ MessageOf(p, row).version = "4"
        /\ MessageOf(p, row).fields[5] = row.head
    BY <1>4, <1>7, Messages DEF LegacyVersions
  <2>. QED  BY <1>3, <1>4, <1>5, <1>7, <2>1 DEF V!SignedHead, V!ParsesAsEvent
<1>8. V!ChainValid(p, Export(p), i) /\ V!ReplayValid(v, Export(p), i)
  BY RowFollows, RowIsNew
<1>9. V!SignatureValid(X)
  <2>1. row.spelling \in V!Spellings
    BY <1>4 DEF Event, Spellings, V!Spellings
  <2>. QED  BY <1>3, <2>1 DEF V!SignatureValid, SignatureOf
<1>10. V!CanonicalValid(p, v, X)
  <2>1. CASE row.type = RequestCreated
    BY <1>3, <1>6, <2>1 DEF V!CanonicalValid, PayloadOf
  <2>2. CASE row.type # RequestCreated
    <3>1. MessageOf(p, row)
            = V!EventCanonical(v, p, row.type, row.payload, row.nonce, row.head)
      BY <1>4, <2>2, Messages
    <3>2. CASE v = "4"
      BY <1>3, <1>6, <1>7, <2>2, <3>1, <3>2 DEF V!CanonicalValid
    <3>3. CASE v # "4"
      <4>1. \A h, k : V!EventCanonical(v, p, row.type, row.payload, row.nonce, h)
                        = V!EventCanonical(v, p, row.type, row.payload, row.nonce, k)
        BY <3>3 DEF V!EventCanonical
      <4>. QED  BY <1>3, <1>6, <2>2, <3>1, <3>3, <4>1 DEF V!CanonicalValid
    <3>. QED  BY <3>2, <3>3
  <2>. QED  BY <2>1, <2>2
<1>11. V!PayloadHashValid(X)
  BY <1>3 DEF V!PayloadHashValid
<1>12. X.type = V!RequestCreated => V!RequestBindingValid(v, X)
  BY <1>2, <1>3, <1>4, <1>6, RequestIsBound
<1>13. V!FormatValid(v, X)
  <2>1. CASE v \in LegacyVersions
    BY <1>3, <1>4, <2>1, Messages DEF V!FormatValid, V!LegacyVersions, LegacyVersions
  <2>2. CASE v \notin LegacyVersions
    <3>1. v \in {"3", "4"}
      BY <1>4, <2>2 DEF LegacyVersions
    <3>2. V!SignedNonce(v, X) = row.nonce
      BY <1>2, <3>1, SignedNonceOfRow
    <3>. QED  BY <1>3, <1>4, <2>2, <3>2, NullsAssumption
              DEF V!FormatValid, V!LegacyVersions, LegacyVersions
  <2>. QED  BY <2>1, <2>2
<1>14. V!PriorHeadValid(p, v, Export(p), i)
  BY <1>3, <1>6, <1>7, <1>8 DEF V!PriorHeadValid
<1>. QED  BY <1>8, <1>9, <1>10, <1>11, <1>12, <1>13, <1>14 DEF V!Intact

-----------------------------------------------------------------------------
(* The verifier decides on the rows the API decided on. *)

(* When every row before i is intact the verifier keeps them all, in place. *)
LEMMA PriorIsPrefix ==
    ASSUME NEW p, NEW v, NEW events, NEW i \in Nat, i >= 1,
           \A j \in 1..(i - 1) : V!Intact(p, v, events, j)
    PROVE  V!AuthorizationPrior(p, v, events, i) = [k \in 1..(i - 1) |-> events[k]]
<1>. DEFINE kept == {j \in 1..(i - 1) : V!Intact(p, v, events, j)}
            Place(j) == V!Cardinality({k \in kept : k <= j})
<1>1. kept = 1..(i - 1)
  OBVIOUS
<1>2. ASSUME NEW j \in 1..(i - 1)
      PROVE  Place(j) = j
  <2>1. {k \in kept : k <= j} = 1..j
    BY <1>1
  <2>2. Cardinality(1..j) = j
    BY FS_Interval
  <2>. QED  BY <2>1, <2>2, SameCardinality
<1>3. V!Cardinality(kept) = i - 1
  <2>1. Cardinality(1..(i - 1)) = i - 1
    BY FS_Interval
  <2>. QED  BY <1>1, <2>1, SameCardinality
<1>. HIDE DEF kept, Place
<1>4. ASSUME NEW k \in 1..(i - 1)
      PROVE  (CHOOSE j \in kept : Place(j) = k) = k
  <2>1. \A j \in kept : Place(j) = k <=> j = k
    BY <1>1, <1>2
  <2>2. k \in kept
    BY <1>1
  <2>. QED  BY <2>1, <2>2
<1>5. V!AuthorizationPrior(p, v, events, i)
        = [k \in 1..V!Cardinality(kept) |-> events[CHOOSE j \in kept : Place(j) = k]]
  BY DEF V!AuthorizationPrior, kept, Place
<1>. QED  BY <1>3, <1>4, <1>5

(* The actor of every stored row is authorized in the verifier's eyes.     *)
LEMMA RowIsAuthorized ==
    ASSUME StoredInvariant, NEW p \in ProofIds, Exists(p), NEW i \in DOMAIN chain[p]
    PROVE  V!ActorAuthorized(p, proofs[p].version, Export(p), i)
<1>. DEFINE v == proofs[p].version
            X == Export(p)
            events == chain[p]
            n == i - 1
            shown == [k \in 1..n |-> X[k]]
            prior == SubSeq(events, 1, n)
<1>1. TypeOK /\ RowsAccepted(events)
  BY DEF StoredInvariant, IInv, Decided
<1>2. /\ events \in Seq(Event) /\ DOMAIN events = 1..Len(events)
      /\ \A k \in 1..Len(events) : X[k] = ExportedRow(p, events[k])
  BY <1>1, ExportRows
<1>3. /\ X[i].type = events[i].type /\ X[i].actor = events[i].actor
      /\ X[i].payload = PayloadOf(p, events[i])
      /\ events[i].type = RequestCreated <=> i = 1
      /\ events[i].type # RequestCreated => X[i].payload = events[i].payload
  BY <1>2, StoredRow, RowFields
<1>4. CASE i = 1
  BY <1>3, <1>4 DEF V!ActorAuthorized, V!RequestCreated, RequestCreated
<1>5. CASE i # 1
  <2>1. n \in Nat /\ n >= 1 /\ i \in Nat /\ i >= 1 /\ i \in 2..Len(events)
        /\ \A k \in 1..n : k \in 1..Len(events)
    BY <1>2, <1>5
  <2>2. V!AuthorizationPrior(p, v, X, i) = shown
    <3>1. \A j \in 1..(i - 1) : V!Intact(p, v, X, j)
      BY <1>2, <2>1, RowIsIntact
    <3>. QED  BY <2>1, <3>1, PriorIsPrefix
  <2>3. /\ prior \in Seq(Event) /\ Len(prior) = n /\ DOMAIN prior = 1..n /\ prior # <<>>
        /\ \A k \in 1..n : prior[k] = events[k]
    BY <1>2, <2>1
  <2>4. shown # <<>> /\ DOMAIN shown = 1..n /\ Len(shown) = n
    BY <2>1
  <2>5. \A k \in 1..n : /\ shown[k].type = prior[k].type
                        /\ shown[k].actor = prior[k].actor
                        /\ shown[k].seq = prior[k].seq
    BY <1>2, <2>1, <2>3, RowFields
  <2>6. \A k \in 2..n : shown[k].payload = prior[k].payload
    <3>. SUFFICES ASSUME NEW k \in 2..n
                  PROVE  X[k].payload = events[k].payload
      BY <2>1, <2>3
    <3>1. k \in DOMAIN events /\ k # 1
      BY <1>2, <2>1
    <3>2. events[k].type # RequestCreated
      BY <3>1, StoredRow
    <3>. QED  BY <1>2, <3>1, <3>2, RowFields
  <2>. HIDE DEF shown, prior
  <2>7. \A a, t, b : /\ V!AuthorizeEvent(shown, a, t, b) = AuthorizeEvent(prior, a, t, b)
                     /\ V!SecondResult(shown, t) = SecondResult(prior, t)
    BY <2>1, <2>3, <2>4, <2>5, <2>6, SameAuthorization
  <2>8. /\ AuthorizeEvent(prior, events[i].actor, events[i].type, events[i].payload) = "ok"
        /\ ~SecondResult(prior, events[i].type)
    BY <1>1, <2>1 DEF RowsAccepted, prior
  <2>. QED  BY <1>3, <1>5, <2>2, <2>7, <2>8 DEF V!ActorAuthorized
<1>. QED  BY <1>4, <1>5

-----------------------------------------------------------------------------
(* The theorems. *)

LEMMA StoredInvariance == Spec => []StoredInvariant
<1>1. Init => ChainsLawful /\ OneResult /\ OldPairOnce /\ Decided
  <2>. SUFFICES ASSUME Init
                PROVE  ChainsLawful /\ OneResult /\ OldPairOnce /\ Decided
    OBVIOUS
  <2>1. ChainsLawful
    BY InitChains, FirstRowsLawful DEF ChainsLawful
  <2>2. OneResult
    BY InitChains DEF OneResult
  <2>3. OldPairOnce
    BY InitChains DEF OldPairOnce
  <2>. QED  BY <2>1, <2>2, <2>3, InitDecided
<1>2. IInv /\ ChainsLawful /\ [Next]_vars => ChainsLawful'
  BY LawfulStep
<1>3. IInv /\ OneResult /\ [Next]_vars => OneResult'
  BY OneResultStep
<1>4. IInv /\ OldPairOnce /\ [Next]_vars => OldPairOnce'
  BY OldPairOnceStep
<1>5. IInv /\ Decided /\ [Next]_vars => Decided'
  BY DecidedStep
<1>6. IInv /\ ChainsLawful /\ OneResult /\ OldPairOnce /\ Decided => StoredInvariant
  BY DEF StoredInvariant
<1>. QED  BY <1>1, <1>2, <1>3, <1>4, <1>5, <1>6, Invariance, PTL DEF Spec

(* A stored chain passes every check of the verifier but those of content. *)
LEMMA StoredChainVerifies ==
    ASSUME StoredInvariant, NEW p \in ProofIds, Exists(p)
    PROVE  V!ChainVerifies(p, proofs[p].version, Export(p))
<1>1. TypeOK /\ StatusFollowsChain
  BY DEF StoredInvariant, IInv, ChainsOK
<1>2. /\ chain[p] # <<>>
      /\ \A i \in DOMAIN chain[p] : chain[p][i].type \in ClosingTypes => i = Len(chain[p])
  BY <1>1 DEF StatusFollowsChain
<1>3. /\ DOMAIN Export(p) = DOMAIN chain[p] /\ Len(Export(p)) = Len(chain[p])
      /\ chain[p] \in Seq(Event)
      /\ \A i \in DOMAIN chain[p] : Export(p)[i].type = chain[p][i].type
  BY <1>1, ExportRows, RowFields
<1>4. Export(p) # <<>>
  BY <1>2, <1>3
<1>5. \A i \in DOMAIN Export(p) : V!EventValid(p, proofs[p].version, Export(p), i)
  BY <1>3, RowFollows, RowIsIntact, RowIsAuthorized DEF V!EventValid
<1>6. V!PositionValid(Export(p))
  BY <1>2, <1>3 DEF V!PositionValid, V!ClosingTypes, ClosingTypes
<1>7. proofs[p].version \in V!Versions
  <2>1. proofs[p] \in ProofRow
    BY <1>1 DEF TypeOK, Exists
  <2>. QED  BY <2>1 DEF ProofRow, Versions, LegacyVersions, CurrentVersion,
                        V!Versions, V!LegacyVersions, V!TaggedVersions
<1>. QED  BY <1>4, <1>5, <1>6, <1>7 DEF V!ChainVerifies

(* For any number of handlers, clients and requests, in any interleaving,  *)
(* with any failures, in each of the four formats: what the API has stored *)
(* the verifier accepts (event-authorization.md D-A10, D-C6, D-C7).        *)
THEOREM StoredIsVerifiable == Spec => []StoredChainsVerify
<1>1. StoredInvariant => StoredChainsVerify
  BY StoredChainVerifies DEF StoredChainsVerify
<1>. QED  BY <1>1, StoredInvariance, PTL

(* An export says closed exactly when the API refuses further events       *)
(* because of the status (verification_core.py, closed; D-C7).             *)
THEOREM ClosedMeansClosed == Spec => []ClosedIsClosed
<1>1. IInv => ClosedIsClosed
  <2>. SUFFICES ASSUME IInv, NEW p \in ProofIds, Exists(p)
                PROVE  V!Closed(Export(p)) <=> proofs[p].status \in ClosedStatuses
    BY DEF ClosedIsClosed
  <2>1. TypeOK /\ StatusFollowsChain
    BY DEF IInv, ChainsOK
  <2>2. /\ chain[p] # <<>> /\ proofs[p].status = StatusOf(chain[p])
        /\ \A i \in DOMAIN chain[p] : chain[p][i].type \in ClosingTypes => i = Len(chain[p])
    BY <2>1 DEF StatusFollowsChain
  <2>3. /\ DOMAIN Export(p) = DOMAIN chain[p] /\ chain[p] \in Seq(Event)
        /\ \A i \in DOMAIN chain[p] : Export(p)[i].type = chain[p][i].type
    BY <2>1, ExportRows, RowFields
  <2>4. Len(chain[p]) \in DOMAIN chain[p]
    BY <2>2, <2>3
  <2>5. V!Closed(Export(p)) <=> chain[p][Len(chain[p])].type \in ClosingTypes
    BY <2>2, <2>3, <2>4 DEF V!Closed, V!ClosingTypes, ClosingTypes
  <2>. QED  BY <2>2, <2>5 DEF StatusOf, ClosedStatuses, ClosingTypes
<1>. QED  BY <1>1, Invariance, PTL

=============================================================================
