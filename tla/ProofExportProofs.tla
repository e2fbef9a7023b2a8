------------------------- MODULE ProofExportProofs -------------------------
(***************************************************************************)
(* Proofs of what a valid verdict says of a copy of an export, for every   *)
(* value of the constants: any number of rows, of signed events and of     *)
(* alterations.                                                            *)
(*                                                                         *)
(* The argument: no alteration makes a signature, so every row of the copy *)
(* carries one that its signer made, for the request or for an event       *)
(* (CopyIsMade). The checks of one row then fix what the signature covers  *)
(* (ValidRow); in version 4 that is the link of the row before it, which   *)
(* was the head of the chain when the event was signed (SignedEvents), so  *)
(* the rows of a valid copy are those of the chain (RowBeforeLast).        *)
(***************************************************************************)
EXTENDS ProofExport, FiniteSetTheorems, SequenceTheorems, TLAPS

-----------------------------------------------------------------------------
(* The inductive invariant. *)

(* A sequence, whatever its elements: links nest, so rows have no type.    *)
IsSequence(s) == s \in Seq({s[i] : i \in DOMAIN s})

IsRow(row) ==
    row = [id |-> row.id, type |-> row.type, actor |-> row.actor,
           payload |-> row.payload, hash |-> row.hash,
           canonical |-> row.canonical, sig |-> row.sig, nonce |-> row.nonce,
           seq |-> row.seq, prev |-> row.prev]

(* What the signer of an event signed, in a proof of version v, and the    *)
(* signature in the spelling w.                                            *)
Message(v, r)      == V!EventCanonical(v, Proof, r.type, r.payload, r.nonce, r.head)
Signature(v, r, w) == [by |-> r.actor, over |-> Message(v, r), spelling |-> w]
Respell(sig, w)    == [by |-> sig.by, over |-> sig.over, spelling |-> w]

(* The payload of the request in first, up to what nobody signed.          *)
OwnRequest(v, first, payload) ==
    payload = RequestPayload(v, payload.body.sig.spelling, first.payload.body.nonce,
                             first.payload.body.text, payload.body.rest)

(* The chain starts with its request...                                    *)
RequestFirst ==
    /\ version \in ProofVersions
    /\ IsSequence(chain)
    /\ chain # <<>>
    /\ OwnRequest(version, chain[1], chain[1].payload)
    /\ chain[1] = RequestRow(version, chain[1].sig.spelling, chain[1].id,
                             chain[1].payload.body.nonce, chain[1].payload.body.text)

(* ... and each later row is an event signed for its place.                *)
SignedFor(v, events, made, i) ==
    LET link == HashEventRecord(Proof, events[i - 1])
    IN  \E r \in made :
            /\ r.type # RequestCreated
            /\ v = "4" => r.head = link
            /\ events[i] = [id |-> events[i].id, type |-> r.type, actor |-> r.actor,
                            payload |-> r.payload, hash |-> r.payload,
                            canonical |-> Message(v, r),
                            sig |-> Signature(v, r, events[i].sig.spelling),
                            nonce |-> r.nonce, seq |-> i, prev |-> link]

EventsFollow == \A i \in 2..Len(chain) : SignedFor(version, chain, signed, i)

(* In version 4 every event was signed over the link of a stored row.      *)
SignedEvents ==
    \A r \in signed :
        /\ r.payload.form # "request"
        /\ version = "4" =>
             \E k \in DOMAIN chain : r.head = HashEventRecord(Proof, chain[k])

(* A row of a copy carries a signature that was made for this proof, and   *)
(* no request but the proof's own.                                         *)
Made(v, first, made, row) ==
    /\ IsRow(row)
    /\ \/ row.sig = Respell(first.sig, row.sig.spelling)
       \/ \E r \in made : row.sig = Signature(v, r, row.sig.spelling)
    /\ row.payload.form = "request" => OwnRequest(v, first, row.payload)

CopyIsMade ==
    /\ IsSequence(copy)
    /\ \A i \in DOMAIN copy : Made(version, chain[1], signed, copy[i])

ExportInv == RequestFirst /\ EventsFollow /\ SignedEvents /\ CopyIsMade

-----------------------------------------------------------------------------
(* Sequences and rows. *)

LEMMA SequenceIs ==
    ASSUME NEW S, NEW s \in Seq(S)
    PROVE  IsSequence(s)
<1>1. Len(s) \in Nat /\ DOMAIN s = 1..Len(s) /\ s \in [1..Len(s) -> S]
  BY LenProperties
<1>2. s \in [1..Len(s) -> {s[i] : i \in DOMAIN s}]
  BY <1>1
<1>. QED  BY <1>1, <1>2, SeqDef DEF IsSequence

LEMMA SequenceFacts ==
    ASSUME NEW s, IsSequence(s)
    PROVE  /\ Len(s) \in Nat /\ DOMAIN s = 1..Len(s)
           /\ s = <<>> <=> Len(s) = 0
<1>. DEFINE T == {s[i] : i \in DOMAIN s}
<1>1. s \in Seq(T)
  BY DEF IsSequence
<1>. HIDE DEF T
<1>. QED  BY <1>1, LenProperties, EmptySeq

(* new is a row with the signature and the payload of another.             *)
SignedAlike(new, row) ==
    IsRow(new) /\ new.sig = row.sig /\ new.payload = row.payload

LEMMA AlteredRow ==
    ASSUME NEW row, IsRow(row), NEW x
    PROVE  /\ SignedAlike([row EXCEPT !.id = x], row)
           /\ SignedAlike([row EXCEPT !.actor = x], row)
           /\ SignedAlike([row EXCEPT !.type = x], row)
           /\ SignedAlike([row EXCEPT !.nonce = x], row)
           /\ SignedAlike([row EXCEPT !.prev = x], row)
<1>1. SignedAlike([row EXCEPT !.id = x], row)
  BY DEF IsRow, SignedAlike
<1>2. SignedAlike([row EXCEPT !.actor = x], row)
  BY DEF IsRow, SignedAlike
<1>3. SignedAlike([row EXCEPT !.type = x], row)
  BY DEF IsRow, SignedAlike
<1>4. SignedAlike([row EXCEPT !.nonce = x], row)
  BY DEF IsRow, SignedAlike
<1>5. SignedAlike([row EXCEPT !.prev = x], row)
  BY DEF IsRow, SignedAlike
<1>. QED  BY <1>1, <1>2, <1>3, <1>4, <1>5

LEMMA RenumberedRow ==
    ASSUME NEW row, IsRow(row), NEW i, NEW h
    PROVE  SignedAlike([row EXCEPT !.seq = i, !.hash = h], row)
<1>. DEFINE numbered == [row EXCEPT !.seq = i]
            new == [numbered EXCEPT !.hash = h]
<1>1. [row EXCEPT !.seq = i, !.hash = h] = new
  OBVIOUS
<1>2. SignedAlike(numbered, row)
  BY DEF IsRow, SignedAlike
<1>. HIDE DEF numbered
<1>3. SignedAlike(new, numbered)
  BY <1>2 DEF IsRow, SignedAlike
<1>. QED  BY <1>1, <1>2, <1>3 DEF SignedAlike

LEMMA RowWithPayload ==
    ASSUME NEW row, IsRow(row), NEW x
    PROVE  LET new == [row EXCEPT !.payload = x]
           IN  IsRow(new) /\ new.sig = row.sig /\ new.payload = x
BY DEF IsRow

-----------------------------------------------------------------------------
(* The invariant is inductive. *)

LEMMA InitExport == Init => ExportInv
<1>. SUFFICES ASSUME Init PROVE ExportInv
  OBVIOUS
<1>. DEFINE id == CHOOSE k \in EventIds : TRUE
            n  == CHOOSE k \in Nonces : TRUE
<1>1. PICK text \in Bodies, w \in SentSpellings : chain = <<RequestRow(version, w, id, n, text)>>
  BY DEF Init
<1>. HIDE DEF id, n
<1>2. /\ version \in ProofVersions /\ signed = {} /\ copy = <<>>
  BY DEF Init
<1>3. /\ chain[1] = RequestRow(version, w, id, n, text) /\ Len(chain) = 1 /\ chain # <<>>
      /\ chain \in Seq({RequestRow(version, w, id, n, text)})
  BY <1>1
<1>4. /\ chain[1].id = id /\ chain[1].payload = RequestPayload(version, w, n, text, "sent")
      /\ chain[1].sig = chain[1].payload.body.sig
  BY <1>3 DEF RequestRow
<1>5. /\ chain[1].payload.body.nonce = n /\ chain[1].payload.body.text = text
      /\ chain[1].payload.body.rest = "sent" /\ chain[1].payload.body.sig.spelling = w
  BY <1>4 DEF RequestPayload
<1>6. RequestFirst
  BY <1>2, <1>3, <1>4, <1>5, SequenceIs DEF RequestFirst, OwnRequest
<1>7. EventsFollow
  BY <1>3 DEF EventsFollow
<1>8. SignedEvents
  BY <1>2 DEF SignedEvents
<1>9. CopyIsMade
  BY <1>2 DEF CopyIsMade, IsSequence
<1>. QED  BY <1>6, <1>7, <1>8, <1>9 DEF ExportInv

(* What a client signs is no request, and has the head of the moment.      *)
LEMMA WhatClientsSign ==
    ASSUME ExportInv, NEW a \in Actors, NEW sent \in Sent
    PROVE  LET r == SignedNow(a, sent)
           IN  /\ r.payload.form # "request"
               /\ version = "4" => r.head = HashEventRecord(Proof, chain[Len(chain)])
<1>1. sent.payload.form # "request"
  <2>1. sent.payload \in Payloads
    BY SentAssumption
  <2>. QED  BY <2>1 DEF Payloads
<1>2. chain # <<>>
  BY DEF ExportInv, RequestFirst
<1>. QED  BY <1>1, <1>2 DEF SignedNow, ChainHead, V!ReportedHead

(* More signed events take nothing away from the copy. *)
LEMMA StillMade ==
    ASSUME CopyIsMade, copy' = copy, version' = version, chain'[1] = chain[1],
           signed \subseteq signed'
    PROVE  CopyIsMade'
BY DEF CopyIsMade, Made

(* A stored event follows the rows before it. *)
LEMMA StoreEventExport ==
    ASSUME ExportInv, NEW a \in Actors, NEW sent \in Sent, NEW w \in SentSpellings,
           StoreEvent(SignedNow(a, sent), w)
    PROVE  ExportInv'
<1>. DEFINE r == SignedNow(a, sent)
            n == Len(chain)
            row == RowOf(r, w, UnusedId, n + 1, ChainHead(chain))
            link == HashEventRecord(Proof, chain[n])
            S == {chain[i] : i \in DOMAIN chain} \cup {row}
<1>1. /\ Accepts(r, w) /\ chain' = Append(chain, row) /\ signed' = signed \cup {r}
      /\ version' = version /\ copy' = copy
  BY DEF StoreEvent
<1>2. /\ RequestFirst /\ EventsFollow /\ SignedEvents /\ CopyIsMade /\ chain # <<>>
  BY DEF ExportInv, RequestFirst
<1>3. IsSequence(chain) /\ n \in Nat /\ n >= 1 /\ DOMAIN chain = 1..n
  BY <1>2, SequenceFacts DEF RequestFirst
<1>4. chain \in Seq(S)
  BY <1>3, SeqMonotonic DEF IsSequence
<1>5. r.payload.form # "request" /\ (version = "4" => r.head = link)
  BY WhatClientsSign
<1>6. r.type # RequestCreated
  BY <1>1 DEF Accepts, AuthorizeEvent
<1>7. ChainHead(chain) = link
  BY <1>2 DEF ChainHead, V!ReportedHead
<1>8. row = [id |-> UnusedId, type |-> r.type, actor |-> r.actor,
             payload |-> r.payload, hash |-> r.payload,
             canonical |-> Message(version, r), sig |-> Signature(version, r, w),
             nonce |-> r.nonce, seq |-> n + 1, prev |-> link]
  BY <1>7 DEF RowOf, Message, Signature
<1>9. row \in S
  OBVIOUS
<1>. HIDE DEF r, row, link, S
<1>10. /\ chain' \in Seq(S) /\ Len(chain') = n + 1 /\ chain'[n + 1] = row /\ chain' # <<>>
       /\ \A i \in 1..n : chain'[i] = chain[i]
  BY <1>1, <1>4, <1>9, AppendProperties
<1>. HIDE DEF n
<1>11. DOMAIN chain' = 1..(n + 1) /\ chain'[1] = chain[1]
  BY <1>3, <1>10, LenProperties
<1>12. RequestFirst'
  BY <1>1, <1>2, <1>10, <1>11, SequenceIs DEF RequestFirst, RequestRow
<1>13. EventsFollow'
  <2>. SUFFICES ASSUME NEW i \in 2..(n + 1)
                PROVE  SignedFor(version, chain', signed', i)
    BY <1>1, <1>10 DEF EventsFollow
  <2>1. CASE i = n + 1
    <3>1. chain'[i - 1] = chain[n] /\ chain'[i] = row
      BY <1>3, <1>10, <2>1
    <3>2. HashEventRecord(Proof, chain'[i - 1]) = link
      BY <3>1 DEF link
    <3>3. row.id = UnusedId /\ row.sig.spelling = w
      BY <1>8 DEF Signature
    <3>4. chain'[i] = [id |-> chain'[i].id, type |-> r.type, actor |-> r.actor,
                       payload |-> r.payload, hash |-> r.payload,
                       canonical |-> Message(version, r),
                       sig |-> Signature(version, r, chain'[i].sig.spelling),
                       nonce |-> r.nonce, seq |-> i,
                       prev |-> HashEventRecord(Proof, chain'[i - 1])]
      BY <1>8, <2>1, <3>1, <3>2, <3>3
    <3>. QED  BY <1>1, <1>5, <1>6, <3>2, <3>4 DEF SignedFor
  <2>2. CASE i \in 2..n
    <3>1. SignedFor(version, chain, signed, i)
      BY <1>2, <2>2 DEF EventsFollow, n
    <3>2. chain'[i] = chain[i] /\ chain'[i - 1] = chain[i - 1]
      BY <1>3, <1>10, <2>2
    <3>. QED  BY <1>1, <3>1, <3>2 DEF SignedFor
  <2>. QED  BY <1>3, <2>1, <2>2
<1>14. SignedEvents'
  <2>. SUFFICES ASSUME NEW q \in signed'
                PROVE  /\ q.payload.form # "request"
                       /\ version = "4" =>
                            \E k \in 1..(n + 1) : q.head = HashEventRecord(Proof, chain'[k])
    BY <1>1, <1>11 DEF SignedEvents
  <2>1. CASE q = r
    <3>1. n \in 1..(n + 1) /\ HashEventRecord(Proof, chain'[n]) = link
      BY <1>3, <1>10 DEF link
    <3>. QED  BY <1>5, <2>1, <3>1
  <2>2. CASE q \in signed
    <3>1. \A k \in DOMAIN chain :
            k \in 1..(n + 1) /\ HashEventRecord(Proof, chain'[k]) = HashEventRecord(Proof, chain[k])
      BY <1>3, <1>10
    <3>. QED  BY <1>2, <2>2, <3>1 DEF SignedEvents
  <2>. QED  BY <1>1, <2>1, <2>2
<1>15. CopyIsMade'
  BY <1>1, <1>2, <1>11, StillMade
<1>. QED  BY <1>12, <1>13, <1>14, <1>15 DEF ExportInv

(* A refused event leaves its signature behind. *)
LEMMA RefuseEventExport ==
    ASSUME ExportInv, NEW a \in Actors, NEW sent \in Sent, RefuseEvent(SignedNow(a, sent))
    PROVE  ExportInv'
<1>. DEFINE r == SignedNow(a, sent)
<1>1. /\ signed' = signed \cup {r} /\ chain' = chain /\ version' = version /\ copy' = copy
  BY DEF RefuseEvent
<1>2. /\ RequestFirst /\ EventsFollow /\ SignedEvents /\ CopyIsMade
  BY DEF ExportInv
<1>3. r.payload.form # "request"
      /\ (version = "4" => r.head = HashEventRecord(Proof, chain[Len(chain)]))
  BY WhatClientsSign
<1>4. Len(chain) \in DOMAIN chain
  BY <1>2, SequenceFacts DEF RequestFirst
<1>. HIDE DEF r
<1>5. RequestFirst'
  BY <1>1, <1>2 DEF RequestFirst, RequestRow
<1>6. EventsFollow'
  BY <1>1, <1>2 DEF EventsFollow, SignedFor
<1>7. SignedEvents'
  BY <1>1, <1>2, <1>3, <1>4 DEF SignedEvents, HashEventRecord
<1>8. CopyIsMade'
  BY <1>1, <1>2, StillMade
<1>. QED  BY <1>5, <1>6, <1>7, <1>8 DEF ExportInv

(* What the service holds does not change when only the copy does.         *)
LEMMA OnlyTheCopy ==
    ASSUME ExportInv, UNCHANGED <<version, chain, signed>>, CopyIsMade'
    PROVE  ExportInv'
<1>1. RequestFirst /\ EventsFollow /\ SignedEvents
  BY DEF ExportInv
<1>2. version' = version /\ chain' = chain /\ signed' = signed
  OBVIOUS
<1>3. RequestFirst'
  BY <1>1, <1>2 DEF RequestFirst, RequestRow
<1>4. EventsFollow'
  BY <1>1, <1>2 DEF EventsFollow
<1>5. SignedEvents'
  BY <1>1, <1>2 DEF SignedEvents, HashEventRecord
<1>. QED  BY <1>3, <1>4, <1>5 DEF ExportInv

(* The rows of the chain are rows of a copy that nobody altered.           *)
LEMMA ChainIsMade ==
    ASSUME ExportInv, NEW i \in DOMAIN chain
    PROVE  Made(version, chain[1], signed, chain[i])
<1>1. /\ RequestFirst /\ EventsFollow /\ SignedEvents
      /\ DOMAIN chain = 1..Len(chain) /\ Len(chain) \in Nat
  BY SequenceFacts DEF ExportInv, RequestFirst
<1>2. CASE i = 1
  <2>1. IsRow(chain[1])
    BY <1>1 DEF RequestFirst, RequestRow, IsRow
  <2>2. OwnRequest(version, chain[1], chain[1].payload)
    BY <1>1 DEF RequestFirst
  <2>3. chain[1].sig = Respell(chain[1].sig, chain[1].sig.spelling)
    BY <1>1 DEF RequestFirst, RequestRow, RequestPayload, Respell
  <2>. QED  BY <1>2, <2>1, <2>2, <2>3 DEF Made
<1>3. CASE i \in 2..Len(chain)
  <2>1. SignedFor(version, chain, signed, i)
    BY <1>1, <1>3 DEF EventsFollow
  <2>2. PICK r \in signed :
          chain[i] = [id |-> chain[i].id, type |-> r.type, actor |-> r.actor,
                      payload |-> r.payload, hash |-> r.payload,
                      canonical |-> Message(version, r),
                      sig |-> Signature(version, r, chain[i].sig.spelling),
                      nonce |-> r.nonce, seq |-> i,
                      prev |-> HashEventRecord(Proof, chain[i - 1])]
    BY <2>1 DEF SignedFor
  <2>3. /\ IsRow(chain[i]) /\ chain[i].sig = Signature(version, r, chain[i].sig.spelling)
        /\ chain[i].payload = r.payload
    BY <2>2 DEF IsRow
  <2>4. r.payload.form # "request"
    BY <1>1 DEF SignedEvents
  <2>. QED  BY <2>3, <2>4 DEF Made
<1>. QED  BY <1>1, <1>2, <1>3

LEMMA TakeExportExport ==
    ASSUME ExportInv, TakeExport
    PROVE  ExportInv'
<1>1. copy' = chain /\ UNCHANGED <<version, chain, signed>>
  BY DEF TakeExport
<1>2. IsSequence(chain) /\ \A i \in DOMAIN chain : Made(version, chain[1], signed, chain[i])
  BY ChainIsMade DEF ExportInv, RequestFirst
<1>3. CopyIsMade'
  BY <1>1, <1>2 DEF CopyIsMade
<1>. QED  BY <1>1, <1>3, OnlyTheCopy

-----------------------------------------------------------------------------
(* No alteration of the copy makes a signature.                            *)

MadeHere(row) == Made(version, chain[1], signed, row)

LEMMA AlikeIsMade ==
    ASSUME NEW row, NEW new, MadeHere(row), SignedAlike(new, row)
    PROVE  MadeHere(new)
BY DEF MadeHere, Made, SignedAlike

(* Relinking touches neither the signature nor the payload of a row.       *)
LEMMA RelinkedMade ==
    ASSUME NEW S, NEW events \in Seq(S), \A row \in S : MadeHere(row)
    PROVE  /\ IsSequence(Relinked(events))
           /\ \A i \in DOMAIN Relinked(events) : MadeHere(Relinked(events)[i])
<1>. DEFINE n == Len(events)
            row == [i \in DOMAIN events |->
                      [events[i] EXCEPT !.seq = i, !.hash = events[i].payload]]
            prev(i) == IF i = 1 THEN NoHead ELSE HashEventRecord(Proof, row[i - 1])
            new == [i \in DOMAIN events |-> [row[i] EXCEPT !.prev = prev(i)]]
            T == {new[i] : i \in 1..n}
<1>1. n \in Nat /\ DOMAIN events = 1..n /\ \A i \in 1..n : events[i] \in S
  BY LenProperties, ElementOfSeq
<1>2. Relinked(events) = new
  BY DEF Relinked
<1>3. ASSUME NEW i \in 1..n
      PROVE  MadeHere(new[i])
  <2>1. MadeHere(events[i]) /\ IsRow(events[i])
    BY <1>1 DEF MadeHere, Made
  <2>2. row[i] = [events[i] EXCEPT !.seq = i, !.hash = events[i].payload]
    BY <1>1
  <2>3. SignedAlike([events[i] EXCEPT !.seq = i, !.hash = events[i].payload], events[i])
    BY <2>1, RenumberedRow, Zenon
  <2>4. new[i] = [row[i] EXCEPT !.prev = prev(i)]
    BY <1>1
  <2>. HIDE DEF new, row, prev
  <2>5. SignedAlike(row[i], events[i])
    BY <2>2, <2>3
  <2>6. IsRow(row[i])
    BY <2>5 DEF SignedAlike
  <2>7. SignedAlike(new[i], row[i])
    BY <2>4, <2>6, AlteredRow
  <2>. QED  BY <2>1, <2>5, <2>7, AlikeIsMade
<1>4. DOMAIN new = 1..n
  BY <1>1
<1>. HIDE DEF row, prev
<1>5. new \in [1..n -> T]
  BY <1>1
<1>6. new \in Seq(T)
  BY <1>1, <1>5, SeqDef
<1>. QED  BY <1>2, <1>3, <1>4, <1>6, SequenceIs

(* A copy made of rows with signatures that exist stays one.               *)
LEMMA AlterExport ==
    ASSUME ExportInv, NEW S, NEW events \in Seq(S), \A row \in S : MadeHere(row),
           Alter(events)
    PROVE  ExportInv'
<1>1. /\ copy' \in {events, Relinked(events)} /\ UNCHANGED <<version, chain, signed>>
  BY DEF Alter
<1>2. IsSequence(events) /\ \A i \in DOMAIN events : MadeHere(events[i])
  BY SequenceIs, LenProperties, ElementOfSeq
<1>3. IsSequence(copy') /\ \A i \in DOMAIN copy' : MadeHere(copy'[i])
  BY <1>1, <1>2, RelinkedMade
<1>4. CopyIsMade'
  BY <1>1, <1>3 DEF CopyIsMade, MadeHere
<1>. QED  BY <1>1, <1>4, OnlyTheCopy

RowsOfCopy == {copy[i] : i \in DOMAIN copy}

LEMMA CopyFacts ==
    ASSUME ExportInv
    PROVE  /\ copy \in Seq(RowsOfCopy) /\ Len(copy) \in Nat
           /\ DOMAIN copy = 1..Len(copy)
           /\ \A i \in DOMAIN copy : copy[i] \in RowsOfCopy
           /\ \A row \in RowsOfCopy : MadeHere(row) /\ IsRow(row)
<1>1. CopyIsMade
  BY DEF ExportInv
<1>. QED  BY <1>1, SequenceFacts DEF CopyIsMade, IsSequence, RowsOfCopy, MadeHere, Made

(* One row more, or another row in the place of one.                       *)
LEMMA WithOneRow ==
    ASSUME ExportInv, NEW row, MadeHere(row), NEW i \in DOMAIN copy
    PROVE  /\ InsertAt(copy, i + 1, row) \in Seq(RowsOfCopy \cup {row})
           /\ [copy EXCEPT ![i] = row] \in Seq(RowsOfCopy \cup {row})
           /\ \A x \in RowsOfCopy \cup {row} : MadeHere(x)
<1>. DEFINE S == RowsOfCopy \cup {row}
            n == Len(copy)
            before == SubSeq(copy, 1, i)
            after == SubSeq(copy, i + 1, n)
<1>1. copy \in Seq(S) /\ n \in Nat /\ i \in 1..n /\ row \in S
      /\ \A k \in 1..n : copy[k] \in S
  BY CopyFacts, SeqMonotonic
<1>2. [copy EXCEPT ![i] = row] \in Seq(S)
  BY <1>1, ExceptSeq
<1>. HIDE DEF S, n
<1>3. before \in Seq(S)
  <2>1. \A k \in 1..i : copy[k] \in S
    BY <1>1
  <2>. QED  BY <1>1, <2>1, SubSeqProperties
<1>4. after \in Seq(S)
  <2>1. \A k \in (i + 1)..n : copy[k] \in S
    BY <1>1
  <2>. QED  BY <1>1, <2>1, SubSeqProperties
<1>5. <<row>> \in Seq(S)
  BY <1>1
<1>6. (i + 1) - 1 = i
  BY <1>1
<1>7. InsertAt(copy, i + 1, row) = (before \o <<row>>) \o after
  BY <1>6 DEF InsertAt, n
<1>. HIDE DEF before, after
<1>8. InsertAt(copy, i + 1, row) \in Seq(S)
  BY <1>3, <1>4, <1>5, <1>7, ConcatProperties
<1>. QED  BY <1>2, <1>8, CopyFacts DEF S

LEMMA LoseRowExport ==
    ASSUME ExportInv, LoseRow
    PROVE  ExportInv'
<1>1. PICK i \in DOMAIN copy : Alter(RemoveAt(copy, i))
  BY DEF LoseRow
<1>. DEFINE before == SubSeq(copy, 1, i - 1)
            after == SubSeq(copy, i + 1, Len(copy))
<1>2. copy \in Seq(RowsOfCopy) /\ Len(copy) \in Nat /\ i \in 1..Len(copy)
      /\ \A k \in 1..Len(copy) : copy[k] \in RowsOfCopy
  BY CopyFacts
<1>3. before \in Seq(RowsOfCopy)
  <2>1. \A k \in 1..(i - 1) : copy[k] \in RowsOfCopy
    BY <1>2
  <2>. QED  BY <1>2, <2>1, SubSeqProperties
<1>4. after \in Seq(RowsOfCopy)
  <2>1. \A k \in (i + 1)..Len(copy) : copy[k] \in RowsOfCopy
    BY <1>2
  <2>. QED  BY <1>2, <2>1, SubSeqProperties
<1>5. RemoveAt(copy, i) = before \o after
  BY DEF RemoveAt
<1>. HIDE DEF before, after
<1>6. RemoveAt(copy, i) \in Seq(RowsOfCopy)
  BY <1>3, <1>4, <1>5, ConcatProperties
<1>. QED  BY <1>1, <1>6, CopyFacts, AlterExport

LEMMA RepeatRowExport ==
    ASSUME ExportInv, RepeatRow
    PROVE  ExportInv'
<1>1. PICK i \in DOMAIN copy, j \in DOMAIN copy :
             Alter(InsertAt(copy, j + 1, [copy[i] EXCEPT !.id = UnusedId]))
  BY DEF RepeatRow
<1>2. MadeHere(copy[i]) /\ IsRow(copy[i])
  BY CopyFacts
<1>3. MadeHere([copy[i] EXCEPT !.id = UnusedId])
  BY <1>2, AlteredRow, AlikeIsMade
<1>. QED  BY <1>1, <1>3, WithOneRow, AlterExport

LEMMA SwapRowsExport ==
    ASSUME ExportInv, SwapRows
    PROVE  ExportInv'
<1>1. PICK i \in DOMAIN copy, j \in DOMAIN copy :
             Alter([copy EXCEPT ![i] = copy[j], ![j] = copy[i]])
  BY DEF SwapRows
<1>2. copy \in Seq(RowsOfCopy) /\ i \in 1..Len(copy) /\ j \in 1..Len(copy)
      /\ copy[i] \in RowsOfCopy /\ copy[j] \in RowsOfCopy
  BY CopyFacts
<1>3. /\ [copy EXCEPT ![i] = copy[j]] \in Seq(RowsOfCopy)
      /\ Len([copy EXCEPT ![i] = copy[j]]) = Len(copy)
  BY <1>2, ExceptSeq
<1>4. [[copy EXCEPT ![i] = copy[j]] EXCEPT ![j] = copy[i]] \in Seq(RowsOfCopy)
  BY <1>2, <1>3, ExceptSeq
<1>5. [copy EXCEPT ![i] = copy[j], ![j] = copy[i]] \in Seq(RowsOfCopy)
  BY <1>4
<1>. QED  BY <1>1, <1>5, CopyFacts, AlterExport

LEMMA AddSignedRowExport ==
    ASSUME ExportInv, AddSignedRow
    PROVE  ExportInv'
<1>1. PICK r \in signed, w \in SentSpellings, j \in DOMAIN copy :
             Alter(InsertAt(copy, j + 1, RowOf(r, w, UnusedId, j + 1, copy[j].prev)))
  BY DEF AddSignedRow
<1>. DEFINE row == RowOf(r, w, UnusedId, j + 1, copy[j].prev)
<1>2. /\ IsRow(row) /\ row.sig = Signature(version, r, row.sig.spelling)
      /\ row.payload = r.payload
  BY DEF RowOf, IsRow, Signature, Message
<1>3. r.payload.form # "request"
  BY DEF ExportInv, SignedEvents
<1>. HIDE DEF row
<1>4. MadeHere(row)
  BY <1>2, <1>3 DEF MadeHere, Made
<1>. QED  BY <1>1, <1>4, WithOneRow, AlterExport DEF row

(* A row with its signature in the other spelling.                         *)
LEMMA RespelledMade ==
    ASSUME NEW row, MadeHere(row), NEW w
    PROVE  MadeHere(Respelled(row, w))
<1>. DEFINE other == [row EXCEPT !.sig.spelling = w]
<1>1. /\ IsRow(row)
      /\ \/ row.sig = Respell(chain[1].sig, row.sig.spelling)
         \/ \E r \in signed : row.sig = Signature(version, r, row.sig.spelling)
      /\ row.payload.form = "request" => OwnRequest(version, chain[1], row.payload)
  BY DEF MadeHere, Made
<1>2. row.sig = [by |-> row.sig.by, over |-> row.sig.over, spelling |-> row.sig.spelling]
  BY <1>1 DEF Respell, Signature
<1>3. [row.sig EXCEPT !.spelling = w] = Respell(row.sig, w)
  BY <1>2 DEF Respell
<1>4. other = [row EXCEPT !.sig = Respell(row.sig, w)]
  BY <1>3
<1>. HIDE DEF other
<1>5. IsRow(other) /\ other.sig = Respell(row.sig, w) /\ other.payload = row.payload
  BY <1>1, <1>4 DEF IsRow
<1>6. \/ other.sig = Respell(chain[1].sig, other.sig.spelling)
      \/ \E r \in signed : other.sig = Signature(version, r, other.sig.spelling)
  <2>1. other.sig.spelling = w
    BY <1>5 DEF Respell
  <2>2. CASE row.sig = Respell(chain[1].sig, row.sig.spelling)
    <3>1. row.sig.by = chain[1].sig.by /\ row.sig.over = chain[1].sig.over
      BY <2>2 DEF Respell
    <3>. QED  BY <1>5, <2>1, <3>1 DEF Respell
  <2>3. ASSUME NEW r \in signed, row.sig = Signature(version, r, row.sig.spelling)
        PROVE  other.sig = Signature(version, r, other.sig.spelling)
    <3>1. row.sig.by = r.actor /\ row.sig.over = Message(version, r)
      BY <2>3 DEF Signature
    <3>. QED  BY <1>5, <2>1, <3>1 DEF Respell, Signature
  <2>. QED  BY <1>1, <2>2, <2>3
<1>7. MadeHere(other)
  BY <1>1, <1>5, <1>6 DEF MadeHere, Made
<1>8. CASE row.payload.form = "request"
  <2>. DEFINE n == chain[1].payload.body.nonce
              text == chain[1].payload.body.text
              rest == row.payload.body.rest
              payload == [row.payload EXCEPT !.body.sig.spelling = w]
  <2>1. row.payload = RequestPayload(version, row.payload.body.sig.spelling, n, text, rest)
    BY <1>1, <1>8 DEF OwnRequest
  <2>. HIDE DEF n, text, rest
  <2>2. payload = RequestPayload(version, w, n, text, rest)
    BY <2>1 DEF RequestPayload
  <2>. HIDE DEF payload
  <2>3. payload.body.rest = rest /\ payload.body.sig.spelling = w
    BY <2>2 DEF RequestPayload
  <2>4. OwnRequest(version, chain[1], payload)
    BY <2>2, <2>3 DEF OwnRequest, n, text
  <2>5. Respelled(row, w) = [other EXCEPT !.payload = payload]
    BY <1>5, <1>8 DEF Respelled, other, payload
  <2>6. MadeHere([other EXCEPT !.payload = payload])
    BY <1>5, <1>6, <2>4, RowWithPayload DEF MadeHere, Made
  <2>. QED  BY <2>5, <2>6
<1>9. CASE row.payload.form # "request"
  BY <1>7, <1>9 DEF Respelled, other
<1>. QED  BY <1>8, <1>9

(* Each change of a row leaves it with the signature it had.               *)
LEMMA ChangeRowExport ==
    ASSUME ExportInv, ChangeRow
    PROVE  ExportInv'
<1>1. PICK i \in DOMAIN copy :
         \/ Alter([copy EXCEPT ![i].id = UnusedId])
         \/ \E a \in Actors : Alter([copy EXCEPT ![i].actor = a])
         \/ \E sent \in Sent : Alter([copy EXCEPT ![i].type = sent.type])
         \/ \E sent \in Sent : Alter([copy EXCEPT ![i].payload = sent.payload])
         \/ Alter([copy EXCEPT ![i].nonce = UnusedNonce])
         \/ \E w \in V!Spellings : Alter([copy EXCEPT ![i] = Respelled(copy[i], w)])
         \/ /\ copy[i].payload.form = "request"
            /\ Alter([copy EXCEPT ![i].payload.body.rest = "changed"])
  BY DEF ChangeRow
<1>. DEFINE row == copy[i]
<1>2. MadeHere(row) /\ IsRow(row)
  BY CopyFacts
<1>3. ASSUME NEW new, MadeHere(new), Alter([copy EXCEPT ![i] = new])
      PROVE  ExportInv'
  BY <1>3, WithOneRow, AlterExport
<1>4. ASSUME NEW x
      PROVE  /\ MadeHere([row EXCEPT !.id = x]) /\ MadeHere([row EXCEPT !.actor = x])
             /\ MadeHere([row EXCEPT !.type = x]) /\ MadeHere([row EXCEPT !.nonce = x])
  BY <1>2, AlteredRow, AlikeIsMade
<1>5. CASE Alter([copy EXCEPT ![i].id = UnusedId])
  BY <1>3, <1>4, <1>5
<1>6. ASSUME NEW a \in Actors, Alter([copy EXCEPT ![i].actor = a])
      PROVE  ExportInv'
  BY <1>3, <1>4, <1>6
<1>7. ASSUME NEW sent \in Sent, Alter([copy EXCEPT ![i].type = sent.type])
      PROVE  ExportInv'
  BY <1>3, <1>4, <1>7
<1>8. ASSUME NEW sent \in Sent, Alter([copy EXCEPT ![i].payload = sent.payload])
      PROVE  ExportInv'
  <2>1. sent.payload.form # "request"
    <3>1. sent.payload \in Payloads
      BY SentAssumption
    <3>. QED  BY <3>1 DEF Payloads
  <2>2. MadeHere([row EXCEPT !.payload = sent.payload])
    BY <1>2, <2>1, RowWithPayload DEF MadeHere, Made
  <2>. QED  BY <1>3, <1>8, <2>2
<1>9. CASE Alter([copy EXCEPT ![i].nonce = UnusedNonce])
  BY <1>3, <1>4, <1>9
<1>10. CASE /\ row.payload.form = "request"
            /\ Alter([copy EXCEPT ![i].payload.body.rest = "changed"])
  <2>. DEFINE payload == [row.payload EXCEPT !.body.rest = "changed"]
              w == row.payload.body.sig.spelling
  <2>1. row.payload = RequestPayload(version, w, chain[1].payload.body.nonce,
                                     chain[1].payload.body.text, row.payload.body.rest)
    BY <1>2, <1>10 DEF MadeHere, Made, OwnRequest
  <2>. HIDE DEF w
  <2>2. payload = RequestPayload(version, w, chain[1].payload.body.nonce,
                                 chain[1].payload.body.text, "changed")
    BY <2>1 DEF RequestPayload
  <2>3. payload.body.rest = "changed" /\ payload.body.sig.spelling = w
    BY <2>2 DEF RequestPayload
  <2>4. OwnRequest(version, chain[1], payload)
    BY <2>2, <2>3 DEF OwnRequest
  <2>. HIDE DEF payload
  <2>5. MadeHere([row EXCEPT !.payload = payload])
    BY <1>2, <2>4, RowWithPayload DEF MadeHere, Made
  <2>6. [copy EXCEPT ![i].payload.body.rest = "changed"]
          = [copy EXCEPT ![i] = [row EXCEPT !.payload = payload]]
    BY DEF payload
  <2>. QED  BY <1>3, <1>10, <2>5, <2>6
<1>11. ASSUME NEW w \in V!Spellings, Alter([copy EXCEPT ![i] = Respelled(copy[i], w)])
       PROVE  ExportInv'
  BY <1>2, <1>3, <1>11, RespelledMade
<1>. QED  BY <1>1, <1>5, <1>6, <1>7, <1>8, <1>9, <1>10, <1>11

(* The rows of the copy are signed rows in every reachable state.          *)
LEMMA ExportInvariance == Spec => []ExportInv
<1>1. ExportInv /\ [Next]_vars => ExportInv'
  <2>. SUFFICES ASSUME ExportInv, [Next]_vars
                PROVE  ExportInv'
    OBVIOUS
  <2>1. ASSUME NEW a \in Actors, NEW sent \in Sent,
               \/ RefuseEvent(SignedNow(a, sent))
               \/ \E w \in SentSpellings : StoreEvent(SignedNow(a, sent), w)
        PROVE  ExportInv'
    BY <2>1, StoreEventExport, RefuseEventExport
  <2>2. CASE Relabel
    <3>1. Alter(copy)
      BY <2>2 DEF Relabel
    <3>. QED  BY <3>1, CopyFacts, AlterExport
  <2>3. CASE UNCHANGED vars
    <3>1. CopyIsMade'
      BY <2>3, StillMade DEF vars, ExportInv
    <3>. QED  BY <2>3, <3>1, OnlyTheCopy DEF vars
  <2>. QED  BY <2>1, <2>2, <2>3, TakeExportExport, LoseRowExport, RepeatRowExport,
               SwapRowsExport, ChangeRowExport, AddSignedRowExport DEF Next
<1>. QED  BY <1>1, InitExport, PTL DEF Spec

-----------------------------------------------------------------------------
(* What a message tells of who wrote it for what.                          *)

LEMMA EventMessage ==
    ASSUME NEW v \in {"1", "2", "3", "4"}, NEW type, NEW hash, NEW nonce, NEW head
    PROVE  LET m == V!EventCanonical(v, Proof, type, hash, nonce, head)
           IN  /\ v \in V!LegacyVersions => m.tag = "none"
               /\ v \notin V!LegacyVersions =>
                    m.tag = "event" /\ m.version = v /\ m.fields[4] = nonce
               /\ m.fields[1] = Proof /\ m.fields[2] = type /\ m.fields[3] = hash
               /\ v = "4" => m.fields[5] = head
BY DEF V!EventCanonical, V!LegacyVersions, V!Untagged

LEMMA RequestMessage ==
    ASSUME NEW v \in {"1", "2", "3", "4"}, NEW nonce, NEW text
    PROVE  LET m == V!RequestCanonical(v, Room, nonce, text)
           IN  /\ v \in V!LegacyVersions => m.tag = "none"
               /\ v \notin V!LegacyVersions => m.tag = "request" /\ m.version = v
               /\ m.fields[1] = Room /\ m.fields[2] = nonce /\ m.fields[3] = text
BY DEF V!RequestCanonical, V!LegacyVersions, V!Untagged

LEMMA SameCardinality == \A S : V!Cardinality(S) = Cardinality(S)
BY DEF V!Cardinality, Cardinality

(* The first row of a valid copy is a request, the others are not.         *)
LEMMA ValidTypes ==
    ASSUME NEW events, NEW i \in Nat, i >= 1, NEW v,
           V!ActorAuthorized(Proof, v, events, i)
    PROVE  events[i].type = RequestCreated <=> i = 1
<1>. DEFINE prior == V!AuthorizationPrior(Proof, v, events, i)
            refused == V!AuthorizeEvent(prior, events[i].actor, events[i].type,
                                        events[i].payload) # "ok"
<1>1. V!RequestCreated = RequestCreated
  BY DEF V!RequestCreated, RequestCreated
<1>2. events[i].type = RequestCreated => refused
  BY <1>1 DEF V!AuthorizeEvent
<1>3. i = 1 => refused
  <2>. SUFFICES ASSUME i = 1 PROVE refused
    OBVIOUS
  <2>. DEFINE kept == {j \in 1..(i - 1) : V!Intact(Proof, v, events, j)}
  <2>1. kept = {}
    OBVIOUS
  <2>2. V!Cardinality(kept) = 0
    BY <2>1, SameCardinality, FS_EmptySet
  <2>. HIDE DEF kept
  <2>3. prior = [k \in 1..0 |->
                   events[CHOOSE j \in kept : V!Cardinality({m \in kept : m <= j}) = k]]
    BY <2>2 DEF V!AuthorizationPrior, kept
  <2>4. prior = <<>>
    BY <2>3
  <2>. HIDE DEF prior
  <2>5. ~V!HasCreator(prior)
    BY <2>4 DEF V!HasCreator
  <2>. QED  BY <2>5 DEF V!AuthorizeEvent
<1>. QED  BY <1>1, <1>2, <1>3 DEF V!ActorAuthorized

LEMMA ValidCopy ==
    ASSUME ExportInv, Valid
    PROVE  /\ label \in {"1", "2", "3", "4"} /\ version \in {"1", "2", "3", "4"}
           /\ Len(copy) \in Nat /\ Len(copy) >= 1 /\ DOMAIN copy = 1..Len(copy)
           /\ copy # <<>>
           /\ \A i \in 1..Len(copy) :
                /\ V!EventValid(Proof, label, copy, i)
                /\ MadeHere(copy[i]) /\ IsRow(copy[i])
                /\ copy[i].type = RequestCreated <=> i = 1
<1>1. V!ChainVerifies(Proof, label, copy)
  BY DEF Valid, V!Verdict
<1>2. /\ copy # <<>> /\ Len(copy) \in Nat /\ DOMAIN copy = 1..Len(copy)
      /\ copy \in Seq(RowsOfCopy)
      /\ \A i \in 1..Len(copy) : MadeHere(copy[i]) /\ IsRow(copy[i])
  BY <1>1, CopyFacts DEF V!ChainVerifies
<1>3. Len(copy) >= 1
  BY <1>2, EmptySeq
<1>4. label \in {"1", "2", "3", "4"}
  BY <1>1 DEF V!ChainVerifies, V!Versions, V!LegacyVersions, V!TaggedVersions
<1>5. version \in {"1", "2", "3", "4"}
  BY ProofAssumption DEF ExportInv, RequestFirst
<1>6. \A i \in 1..Len(copy) : V!EventValid(Proof, label, copy, i)
  BY <1>1, <1>2 DEF V!ChainVerifies
<1>7. ASSUME NEW i \in 1..Len(copy)
      PROVE  copy[i].type = RequestCreated <=> i = 1
  <2>1. V!ActorAuthorized(Proof, label, copy, i) /\ i \in Nat /\ i >= 1
    BY <1>2, <1>6 DEF V!EventValid
  <2>. QED  BY <2>1, ValidTypes
<1>. QED  BY <1>2, <1>3, <1>4, <1>5, <1>6, <1>7

(* The message the creator signed.                                         *)
LEMMA RequestSignature ==
    ASSUME ExportInv
    PROVE  /\ chain[1].sig.over = chain[1].canonical /\ chain[1].sig.by = Creator
           /\ chain[1].canonical = V!RequestCanonical(version, Room,
                                     chain[1].payload.body.nonce,
                                     chain[1].payload.body.text)
<1>1. chain[1] = RequestRow(version, chain[1].sig.spelling, chain[1].id,
                            chain[1].payload.body.nonce, chain[1].payload.body.text)
  BY DEF ExportInv, RequestFirst
<1>2. ASSUME NEW w, NEW id, NEW nonce, NEW text
      PROVE  LET row == RequestRow(version, w, id, nonce, text)
             IN  /\ row.sig.over = row.canonical /\ row.sig.by = Creator
                 /\ row.canonical = V!RequestCanonical(version, Room, nonce, text)
  BY DEF RequestRow, RequestPayload
<1>. QED  BY <1>1, <1>2

(* A later row of a valid copy shows the event that its signer signed.     *)
LEMMA ValidEvent ==
    ASSUME ExportInv, Valid, NEW i \in 2..Len(copy)
    PROVE  /\ label = version \/ {label, version} \subseteq V!LegacyVersions
           /\ \E r \in signed :
                /\ copy[i].type = r.type /\ copy[i].actor = r.actor
                /\ copy[i].payload = r.payload /\ copy[i].hash = r.payload
                /\ copy[i].canonical = Message(version, r)
                /\ copy[i].sig = Signature(version, r, copy[i].sig.spelling)
                /\ copy[i].sig.spelling \in V!Spellings
                /\ version \notin V!LegacyVersions => copy[i].nonce = r.nonce
                /\ version = "4" => V!SignedHead(copy[i]) = r.head
<1>. DEFINE row == copy[i]
<1>1. /\ label \in {"1", "2", "3", "4"} /\ version \in {"1", "2", "3", "4"}
      /\ i \in 1..Len(copy) /\ i # 1
  BY ValidCopy
<1>2. /\ V!EventValid(Proof, label, copy, i) /\ MadeHere(row) /\ row.type # RequestCreated
  BY <1>1, ValidCopy
<1>3. V!RequestCreated = RequestCreated
  BY DEF V!RequestCreated, RequestCreated
<1>4. /\ \E w \in V!Spellings :
            row.sig = [by |-> row.actor, over |-> row.canonical, spelling |-> w]
      /\ row.hash = row.payload
      /\ row.canonical = V!EventCanonical(label, Proof, row.type, row.hash, row.nonce,
                                          V!SignedHead(row))
  BY <1>2, <1>3 DEF V!EventValid, V!Intact, V!SignatureValid, V!PayloadHashValid,
                    V!CanonicalValid
<1>5. /\ label \in V!LegacyVersions => row.canonical.tag = "none"
      /\ label \notin V!LegacyVersions =>
           /\ row.canonical.tag = "event" /\ row.canonical.version = label
           /\ row.canonical.fields[4] = row.nonce
      /\ row.canonical.fields[1] = Proof /\ row.canonical.fields[2] = row.type
      /\ row.canonical.fields[3] = row.hash
      /\ label = "4" => row.canonical.fields[5] = V!SignedHead(row)
  BY <1>1, <1>4, EventMessage
<1>. HIDE DEF row
<1>sig. row.sig.by = row.actor /\ row.sig.over = row.canonical
        /\ row.sig.spelling \in V!Spellings
  BY <1>4
<1>6. row.sig # Respell(chain[1].sig, row.sig.spelling)
  <2>1. /\ version \in V!LegacyVersions => chain[1].canonical.tag = "none"
        /\ version \notin V!LegacyVersions => chain[1].canonical.tag = "request"
        /\ chain[1].canonical.fields[1] = Room
    BY <1>1, RequestSignature, RequestMessage
  <2>2. row.canonical # chain[1].canonical
    BY <1>5, <2>1, ProofAssumption
  <2>. QED  BY <1>sig, <2>2, RequestSignature DEF Respell
<1>7. PICK r \in signed : row.sig = Signature(version, r, row.sig.spelling)
  BY <1>2, <1>6 DEF MadeHere, Made
<1>8. row.actor = r.actor /\ row.canonical = Message(version, r)
  BY <1>sig, <1>7 DEF Signature
<1>9. /\ version \in V!LegacyVersions => row.canonical.tag = "none"
      /\ version \notin V!LegacyVersions =>
           /\ row.canonical.tag = "event" /\ row.canonical.version = version
           /\ row.canonical.fields[4] = r.nonce
      /\ row.canonical.fields[2] = r.type /\ row.canonical.fields[3] = r.payload
      /\ version = "4" => row.canonical.fields[5] = r.head
  BY <1>1, <1>8, EventMessage DEF Message
<1>10. label = version \/ {label, version} \subseteq V!LegacyVersions
  BY <1>5, <1>9
<1>11. version \notin V!LegacyVersions => label = version
  BY <1>10
<1>12. version = "4" => label = "4"
  BY <1>11 DEF V!LegacyVersions
<1>. QED  BY <1>4, <1>sig, <1>5, <1>7, <1>8, <1>9, <1>10, <1>11, <1>12 DEF row

(* The first row of a valid copy shows the request that the creator signed. *)
LEMMA ValidRequest ==
    ASSUME ExportInv, Valid
    PROVE  /\ label = version \/ {label, version} \subseteq V!LegacyVersions
           /\ copy[1].type = RequestCreated /\ copy[1].actor = Creator
           /\ copy[1].sig = Respell(chain[1].sig, copy[1].sig.spelling)
           /\ copy[1].sig.spelling \in V!Spellings
           /\ copy[1].payload.body.sig = copy[1].sig
           /\ copy[1].canonical = chain[1].canonical
           /\ OwnRequest(version, chain[1], copy[1].payload)
           /\ copy[1].hash = copy[1].payload
<1>. DEFINE row == copy[1]
<1>1. /\ label \in {"1", "2", "3", "4"} /\ version \in {"1", "2", "3", "4"}
      /\ 1 \in 1..Len(copy)
  BY ValidCopy
<1>2. /\ V!EventValid(Proof, label, copy, 1) /\ MadeHere(row) /\ row.type = RequestCreated
  BY <1>1, ValidCopy
<1>3. V!RequestCreated = RequestCreated
  BY DEF V!RequestCreated, RequestCreated
<1>4. /\ \E w \in V!Spellings :
            row.sig = [by |-> row.actor, over |-> row.canonical, spelling |-> w]
      /\ row.hash = row.payload /\ row.payload.form = "request"
      /\ V!RequestBindingValid(label, row)
  BY <1>2, <1>3 DEF V!EventValid, V!Intact, V!SignatureValid, V!PayloadHashValid,
                    V!CanonicalValid
<1>5. /\ label \in V!LegacyVersions => row.canonical.tag = "none"
      /\ label \notin V!LegacyVersions =>
           row.canonical.tag = "request" /\ row.canonical.version = label
      /\ row.canonical.fields[1] \notin ProofIds
  BY <1>4 DEF V!RequestBindingValid, V!ParsesAsRequest
<1>. HIDE DEF row
<1>sig. row.sig.by = row.actor /\ row.sig.over = row.canonical
        /\ row.sig.spelling \in V!Spellings /\ row.payload.body.sig = row.sig
  BY <1>4 DEF V!RequestBindingValid
<1>6. ASSUME NEW r \in signed
      PROVE  row.sig # Signature(version, r, row.sig.spelling)
  <2>1. Message(version, r).fields[1] = Proof
    BY <1>1, EventMessage DEF Message
  <2>2. row.canonical # Message(version, r)
    BY <1>5, <2>1, ProofAssumption
  <2>. QED  BY <1>sig, <2>2 DEF Signature
<1>7. row.sig = Respell(chain[1].sig, row.sig.spelling)
  BY <1>2, <1>6 DEF MadeHere, Made
<1>8. row.actor = Creator /\ row.canonical = chain[1].canonical
  BY <1>sig, <1>7, RequestSignature DEF Respell
<1>9. /\ version \in V!LegacyVersions => row.canonical.tag = "none"
      /\ version \notin V!LegacyVersions =>
           row.canonical.tag = "request" /\ row.canonical.version = version
  BY <1>1, <1>8, RequestSignature, RequestMessage
<1>10. label = version \/ {label, version} \subseteq V!LegacyVersions
  BY <1>5, <1>9
<1>11. OwnRequest(version, chain[1], row.payload)
  BY <1>2, <1>4 DEF MadeHere, Made
<1>. QED  BY <1>2, <1>4, <1>sig, <1>7, <1>8, <1>10, <1>11 DEF row

-----------------------------------------------------------------------------
(* Every version: nothing unsigned and nothing twice.                      *)

LEMMA DistinctRows ==
    ASSUME ExportInv, Valid, NEW i \in 1..Len(copy), NEW j \in 1..(i - 1)
    PROVE  IF version \in V!LegacyVersions THEN copy[i].sig # copy[j].sig
           ELSE copy[i].canonical # copy[j].canonical
<1>1. /\ Len(copy) \in Nat /\ j \in 1..Len(copy) /\ i # 1
      /\ V!EventValid(Proof, label, copy, i) /\ V!EventValid(Proof, label, copy, j)
      /\ copy[i].type # RequestCreated /\ (copy[j].type = RequestCreated <=> j = 1)
  BY ValidCopy
<1>2. V!ReplayValid(label, copy, i) /\ V!FormatValid(label, copy[i])
      /\ V!FormatValid(label, copy[j])
  BY <1>1 DEF V!EventValid, V!Intact
<1>3. version \in V!LegacyVersions <=> label \in V!LegacyVersions
  BY ValidRequest
<1>4. CASE label \in V!LegacyVersions
  <2>1. copy[i].sig = copy[j].sig => copy[i].canonical = copy[j].canonical
    <3>1. \A k \in {i, j} : copy[k].sig.over = copy[k].canonical
      BY <1>1 DEF V!EventValid, V!Intact, V!SignatureValid
    <3>. QED  BY <3>1
  <2>2. copy[i].canonical # copy[j].canonical \/ copy[i].sig # copy[j].sig
    BY <1>2, <1>4 DEF V!ReplayValid
  <2>. QED  BY <1>3, <1>4, <2>1, <2>2
<1>5. CASE label \notin V!LegacyVersions
  <2>. SUFFICES ASSUME copy[i].canonical = copy[j].canonical
                PROVE  FALSE
    BY <1>3, <1>5
  <2>1. /\ V!SignedNonce(label, copy[i]) # V!SignedNonce(label, copy[j])
        /\ V!SignedNonce(label, copy[i]) # NoNonce
        /\ V!SignedNonce(label, copy[j]) # NoNonce
    BY <1>2, <1>5 DEF V!ReplayValid, V!FormatValid
  <2>2. V!RequestCreated = RequestCreated
    BY DEF V!RequestCreated, RequestCreated
  <2>3. copy[i].canonical.tag = "event"
    BY <1>1, <2>1, <2>2 DEF V!SignedNonce, V!ParsesAsEvent
  <2>4. copy[j].type # RequestCreated
    BY <2>1, <2>2, <2>3 DEF V!SignedNonce, V!ParsesAsRequest
  <2>. QED  BY <1>1, <2>1, <2>2, <2>4 DEF V!SignedNonce
<1>. QED  BY <1>4, <1>5

(* A valid copy, whatever was done to it and whatever its version, shows   *)
(* only what its signers signed for this proof, under the proof's own      *)
(* format; in versions 3 and 4 no message of it twice, in versions 1 and 2 *)
(* no message twice under one text of its signature                        *)
(* (verification_core.py, verify_proof_events and its replay_valid).       *)
THEOREM NothingUnsigned == Spec => []ValidIsSigned
<1>1. ExportInv => ValidIsSigned
  <2>. SUFFICES ASSUME ExportInv, Valid
                PROVE  /\ \A i \in 2..Len(copy) : \E r \in signed : SignedAs(copy[i], r)
                       /\ \A i, j \in DOMAIN copy :
                            IF version \in V!LegacyVersions
                            THEN copy[i].sig = copy[j].sig => i = j
                            ELSE copy[i].canonical = copy[j].canonical => i = j
                       /\ label = version \/ {label, version} \subseteq V!LegacyVersions
    BY DEF ValidIsSigned
  <2>1. ASSUME NEW i \in 2..Len(copy)
        PROVE  \E r \in signed : SignedAs(copy[i], r)
    BY ValidEvent DEF SignedAs
  <2>2. ASSUME NEW i \in DOMAIN copy, NEW j \in DOMAIN copy, i # j
        PROVE  IF version \in V!LegacyVersions THEN copy[i].sig # copy[j].sig
               ELSE copy[i].canonical # copy[j].canonical
    <3>1. i \in 1..Len(copy) /\ j \in 1..Len(copy) /\ Len(copy) \in Nat
      BY ValidCopy
    <3>2. j \in 1..(i - 1) \/ i \in 1..(j - 1)
      BY <2>2, <3>1
    <3>. QED  BY <3>1, <3>2, DistinctRows
  <2>. QED  BY <2>1, <2>2, ValidRequest
<1>. QED  BY <1>1, ExportInvariance, PTL

-----------------------------------------------------------------------------
(* Version 4: a link fixes the row it is the link of.                      *)

(* The fields of a row that its link does not cover follow from those that *)
(* it covers.                                                              *)
Sealed(row) ==
    /\ IsRow(row)
    /\ row.hash = row.payload
    /\ row.nonce = V!SignedNonce("4", row)
    /\ row.prev = IF row.type = RequestCreated THEN NoHead ELSE V!SignedHead(row)

LEMMA LinkFixesRow ==
    ASSUME NEW a, NEW b, Sealed(a), Sealed(b),
           HashEventRecord(Proof, a) = HashEventRecord(Proof, b)
    PROVE  a = b
<1>1. /\ a.id = b.id /\ a.type = b.type /\ a.actor = b.actor /\ a.hash = b.hash
      /\ a.canonical = b.canonical /\ a.sig = b.sig /\ a.seq = b.seq
  BY DEF HashEventRecord
<1>2. a.payload = b.payload /\ a.nonce = b.nonce /\ a.prev = b.prev
  BY <1>1 DEF Sealed, V!SignedNonce, V!SignedHead, V!ParsesAsEvent, V!ParsesAsRequest
<1>. QED  BY <1>1, <1>2 DEF Sealed, IsRow

LEMMA ChainIsSealed ==
    ASSUME ExportInv, version = "4", NEW k \in DOMAIN chain
    PROVE  Sealed(chain[k]) /\ chain[k].seq = k
<1>1. /\ RequestFirst /\ EventsFollow /\ SignedEvents
      /\ DOMAIN chain = 1..Len(chain) /\ Len(chain) \in Nat
  BY SequenceFacts DEF ExportInv, RequestFirst
<1>2. V!RequestCreated = RequestCreated
  BY DEF V!RequestCreated, RequestCreated
<1>3. "4" \notin V!LegacyVersions
  BY DEF V!LegacyVersions
<1>4. CASE k = 1
  <2>. DEFINE row == chain[1]
              n == row.payload.body.nonce
              text == row.payload.body.text
              w == row.sig.spelling
  <2>1. row = RequestRow("4", w, row.id, n, text)
    BY <1>1 DEF RequestFirst
  <2>. HIDE DEF n, text, w
  <2>2. /\ IsRow(row) /\ row.hash = row.payload /\ row.type = RequestCreated
        /\ row.nonce = n /\ row.prev = NoHead /\ row.seq = 1
        /\ row.canonical = V!RequestCanonical("4", Room, n, text)
    BY <2>1, <1>3 DEF RequestRow, RequestPayload, IsRow
  <2>3. /\ row.canonical.tag = "request" /\ row.canonical.version = "4"
        /\ row.canonical.fields[1] = Room /\ row.canonical.fields[2] = n
    BY <1>3, <2>2, RequestMessage
  <2>4. V!SignedNonce("4", row) = n
    BY <1>2, <2>2, <2>3, ProofAssumption DEF V!SignedNonce, V!ParsesAsRequest
  <2>. QED  BY <1>4, <2>2, <2>4 DEF Sealed
<1>5. CASE k \in 2..Len(chain)
  <2>. DEFINE row == chain[k]
              link == HashEventRecord(Proof, chain[k - 1])
  <2>1. SignedFor("4", chain, signed, k)
    BY <1>1, <1>5 DEF EventsFollow
  <2>2. PICK r \in signed :
          /\ r.type # RequestCreated /\ r.head = link
          /\ row = [id |-> row.id, type |-> r.type, actor |-> r.actor,
                    payload |-> r.payload, hash |-> r.payload,
                    canonical |-> Message("4", r),
                    sig |-> Signature("4", r, row.sig.spelling),
                    nonce |-> r.nonce, seq |-> k, prev |-> link]
    BY <2>1 DEF SignedFor
  <2>. HIDE DEF link
  <2>3. /\ IsRow(row) /\ row.hash = row.payload /\ row.type # RequestCreated
        /\ row.nonce = r.nonce /\ row.prev = r.head /\ row.seq = k
        /\ row.canonical = Message("4", r)
    BY <2>2 DEF IsRow
  <2>4. /\ row.canonical.tag = "event" /\ row.canonical.version = "4"
        /\ row.canonical.fields[4] = r.nonce /\ row.canonical.fields[5] = r.head
    BY <1>3, <2>3, EventMessage DEF Message
  <2>5. V!SignedNonce("4", row) = r.nonce /\ V!SignedHead(row) = r.head
    BY <1>2, <2>3, <2>4 DEF V!SignedNonce, V!SignedHead, V!ParsesAsEvent
  <2>. QED  BY <2>3, <2>5 DEF Sealed
<1>. QED  BY <1>1, <1>4, <1>5

LEMMA ValidIsSealed ==
    ASSUME ExportInv, Valid, version = "4", NEW i \in 1..Len(copy)
    PROVE  Sealed(copy[i]) /\ copy[i].seq = i
<1>1. label = "4" /\ "4" \notin V!LegacyVersions
  BY ValidRequest DEF V!LegacyVersions
<1>2. /\ V!EventValid(Proof, "4", copy, i) /\ IsRow(copy[i])
      /\ copy[i].type = RequestCreated <=> i = 1
  BY <1>1, ValidCopy
<1>3. V!RequestCreated = RequestCreated
  BY DEF V!RequestCreated, RequestCreated
<1>4. copy[i].seq = i /\ copy[i].hash = copy[i].payload
  BY <1>2 DEF V!EventValid, V!SequenceValid, V!Intact, V!PayloadHashValid
<1>5. copy[i].nonce = V!SignedNonce("4", copy[i])
  BY <1>1, <1>2 DEF V!EventValid, V!Intact, V!FormatValid
<1>6. CASE i = 1
  <2>1. copy[i].prev = NoHead
    BY <1>2, <1>6 DEF V!EventValid, V!ChainValid
  <2>. QED  BY <1>2, <1>4, <1>5, <1>6, <2>1 DEF Sealed
<1>7. CASE i # 1
  <2>1. V!SignedHead(copy[i]) = copy[i].prev
    BY <1>2, <1>3, <1>7 DEF V!EventValid, V!Intact, V!PriorHeadValid
  <2>. QED  BY <1>2, <1>4, <1>5, <1>7, <2>1 DEF Sealed
<1>. QED  BY <1>6, <1>7

(* A row of the copy with the link of a stored row is that row.            *)
LEMMA PlaceInChain ==
    ASSUME ExportInv, Valid, version = "4", NEW i \in 1..Len(copy), NEW k \in DOMAIN chain,
           HashEventRecord(Proof, copy[i]) = HashEventRecord(Proof, chain[k])
    PROVE  i = k /\ copy[i] = chain[k]
<1>1. /\ Sealed(copy[i]) /\ copy[i].seq = i
      /\ Sealed(chain[k]) /\ chain[k].seq = k
  BY ValidIsSealed, ChainIsSealed
<1>2. copy[i] = chain[k]
  BY <1>1, LinkFixesRow
<1>. QED  BY <1>1, <1>2

(* A later row was signed over the stored row before it, and follows it.   *)
LEMMA RowBeforeLast ==
    ASSUME ExportInv, Valid, version = "4", NEW i \in 2..Len(copy)
    PROVE  /\ i - 1 \in DOMAIN chain /\ copy[i - 1] = chain[i - 1]
           /\ \E r \in signed, w \in V!Spellings :
                /\ r.head = HashEventRecord(Proof, chain[i - 1])
                /\ copy[i] = RowOf(r, w, copy[i].id, i, r.head)
<1>1. i \in 1..Len(copy) /\ i - 1 \in 1..Len(copy) /\ i # 1
  BY ValidCopy
<1>2. "4" \notin V!LegacyVersions
  BY DEF V!LegacyVersions
<1>3. PICK r \in signed :
        /\ copy[i].type = r.type /\ copy[i].actor = r.actor
        /\ copy[i].payload = r.payload /\ copy[i].hash = r.payload
        /\ copy[i].canonical = Message(version, r)
        /\ copy[i].sig = Signature(version, r, copy[i].sig.spelling)
        /\ copy[i].sig.spelling \in V!Spellings
        /\ copy[i].nonce = r.nonce
        /\ V!SignedHead(copy[i]) = r.head
  BY <1>2, ValidEvent
<1>4. /\ Sealed(copy[i]) /\ copy[i].seq = i /\ copy[i].type # RequestCreated
      /\ V!EventValid(Proof, label, copy, i)
  BY <1>1, ValidIsSealed, ValidCopy
<1>5. copy[i].prev = r.head
  BY <1>3, <1>4 DEF Sealed
<1>6. copy[i].prev = HashEventRecord(Proof, copy[i - 1])
  BY <1>1, <1>4 DEF V!EventValid, V!ChainValid
<1>7. PICK k \in DOMAIN chain : r.head = HashEventRecord(Proof, chain[k])
  BY DEF ExportInv, SignedEvents
<1>8. i - 1 = k /\ copy[i - 1] = chain[k]
  <2>. DEFINE j == i - 1
  <2>1. j \in 1..Len(copy) /\ HashEventRecord(Proof, copy[j]) = HashEventRecord(Proof, chain[k])
    BY <1>1, <1>5, <1>6, <1>7
  <2>. HIDE DEF j
  <2>2. j = k /\ copy[j] = chain[k]
    BY <2>1, PlaceInChain, Zenon
  <2>. QED  BY <2>2 DEF j
<1>9. copy[i] = RowOf(r, copy[i].sig.spelling, copy[i].id, i, r.head)
  <2>1. copy[i] = [id |-> copy[i].id, type |-> r.type, actor |-> r.actor,
                   payload |-> r.payload, hash |-> r.payload,
                   canonical |-> Message(version, r),
                   sig |-> Signature(version, r, copy[i].sig.spelling),
                   nonce |-> r.nonce, seq |-> i, prev |-> r.head]
    BY <1>3, <1>4, <1>5 DEF Sealed, IsRow
  <2>. QED  BY <2>1 DEF RowOf, Message, Signature
<1>. QED  BY <1>3, <1>7, <1>8, <1>9

(* The stored request with its signature in the spelling w.                *)
LEMMA RespelledRequest ==
    ASSUME NEW v, NEW u, NEW w, NEW id, NEW nonce, NEW text, NEW row,
           row = RequestRow(v, u, id, nonce, text)
    PROVE  Respelled(row, w) =
             [id |-> row.id, type |-> row.type, actor |-> row.actor,
              payload |-> RequestPayload(v, w, nonce, text, "sent"),
              hash |-> row.hash, canonical |-> row.canonical,
              sig |-> Respell(row.sig, w), nonce |-> row.nonce,
              seq |-> row.seq, prev |-> row.prev]
<1>. DEFINE other == [row EXCEPT !.sig.spelling = w]
            payload == [row.payload EXCEPT !.body.sig.spelling = w]
<1>1. /\ IsRow(row) /\ row.payload = RequestPayload(v, u, nonce, text, "sent")
      /\ row.sig = row.payload.body.sig
  BY DEF RequestRow, IsRow
<1>2. row.payload.form = "request" /\ payload = RequestPayload(v, w, nonce, text, "sent")
  BY <1>1 DEF RequestPayload
<1>3. [row.sig EXCEPT !.spelling = w] = Respell(row.sig, w)
  BY <1>1 DEF RequestPayload, Respell
<1>4. other = [id |-> row.id, type |-> row.type, actor |-> row.actor,
               payload |-> row.payload, hash |-> row.hash, canonical |-> row.canonical,
               sig |-> Respell(row.sig, w), nonce |-> row.nonce,
               seq |-> row.seq, prev |-> row.prev]
  BY <1>1, <1>3 DEF IsRow
<1>5. Respelled(row, w) = [other EXCEPT !.payload = payload]
  BY <1>2, <1>4 DEF Respelled
<1>. HIDE DEF other, payload
<1>. QED  BY <1>2, <1>4, <1>5

(* A copy of one row shows the stored request.                             *)
LEMMA RequestAlone ==
    ASSUME ExportInv, Valid, version = "4"
    PROVE  SameRequest(copy[1], chain[1])
<1>. DEFINE row == copy[1]
            stored == chain[1]
            w == row.sig.spelling
            n == stored.payload.body.nonce
            text == stored.payload.body.text
            rest == row.payload.body.rest
            respelled == Respelled(stored, w)
            payload == [respelled.payload EXCEPT !.body.rest = rest]
<1>1. /\ stored = RequestRow(version, stored.sig.spelling, stored.id, n, text)
      /\ 1 \in DOMAIN chain /\ 1 \in 1..Len(copy)
  BY SequenceFacts, ValidCopy DEF ExportInv, RequestFirst
<1>2. /\ row.type = RequestCreated /\ row.actor = Creator
      /\ row.sig = Respell(stored.sig, w) /\ w \in V!Spellings
      /\ row.payload.body.sig = row.sig
      /\ row.canonical = stored.canonical /\ OwnRequest(version, stored, row.payload)
      /\ row.hash = row.payload
  BY ValidRequest
<1>3. /\ Sealed(row) /\ row.seq = 1 /\ Sealed(stored) /\ stored.seq = 1
  BY <1>1, ValidIsSealed, ChainIsSealed
<1>4. stored.type = RequestCreated /\ stored.actor = Creator
  BY <1>1 DEF RequestRow
<1>5. row.nonce = stored.nonce /\ row.prev = stored.prev
  BY <1>2, <1>3, <1>4 DEF Sealed, V!SignedNonce, V!ParsesAsRequest, V!ParsesAsEvent
<1>6. row.payload = RequestPayload(version, w, n, text, rest)
  BY <1>2 DEF OwnRequest
<1>. HIDE DEF n, text, rest
<1>7. /\ respelled = [id |-> stored.id, type |-> stored.type, actor |-> stored.actor,
                      payload |-> RequestPayload(version, w, n, text, "sent"),
                      hash |-> stored.hash, canonical |-> stored.canonical,
                      sig |-> Respell(stored.sig, w), nonce |-> stored.nonce,
                      seq |-> stored.seq, prev |-> stored.prev]
  BY <1>1, RespelledRequest
<1>. HIDE DEF respelled
<1>8. payload = row.payload
  BY <1>6, <1>7 DEF RequestPayload
<1>. HIDE DEF payload
<1>9. row = [id |-> row.id, type |-> stored.type, actor |-> stored.actor,
             payload |-> payload, hash |-> payload, canonical |-> stored.canonical,
             sig |-> Respell(stored.sig, w), nonce |-> stored.nonce,
             seq |-> stored.seq, prev |-> stored.prev]
  BY <1>2, <1>3, <1>4, <1>5, <1>8 DEF Sealed, IsRow
<1>. HIDE DEF row, stored, w
<1>10. row = [respelled EXCEPT !.id = row.id, !.payload = payload, !.hash = payload]
  <2>. DEFINE a == [respelled EXCEPT !.id = row.id]
              b == [a EXCEPT !.payload = payload]
  <2>1. a = [id |-> row.id, type |-> stored.type, actor |-> stored.actor,
             payload |-> respelled.payload, hash |-> stored.hash,
             canonical |-> stored.canonical, sig |-> Respell(stored.sig, w),
             nonce |-> stored.nonce, seq |-> stored.seq, prev |-> stored.prev]
    BY <1>7
  <2>. HIDE DEF a
  <2>2. b = [id |-> row.id, type |-> stored.type, actor |-> stored.actor,
             payload |-> payload, hash |-> stored.hash,
             canonical |-> stored.canonical, sig |-> Respell(stored.sig, w),
             nonce |-> stored.nonce, seq |-> stored.seq, prev |-> stored.prev]
    BY <2>1
  <2>. HIDE DEF b
  <2>3. [b EXCEPT !.hash = payload] = row
    BY <1>9, <2>2
  <2>. QED  BY <2>3 DEF a, b
<1>. QED  BY <1>2, <1>10 DEF SameRequest, row, stored, w, rest, respelled, payload

(* A valid copy of a version-4 proof is history up to its last row, and    *)
(* that one was signed over the stored row before it                       *)
(* (verification_core.py, prior_head_valid).                               *)
THEOREM CopiesAreHistory == Spec => []ValidIsHistory
<1>1. ExportInv => ValidIsHistory
  <2>. SUFFICES ASSUME ExportInv, version = "4", Valid
                PROVE  LET n == Len(copy)
                       IN  /\ n <= Len(chain) + 1
                           /\ \A i \in 1..(n - 1) : copy[i] = chain[i]
                           /\ \/ n = 1 /\ SameRequest(copy[1], chain[1])
                              \/ /\ n > 1
                                 /\ \E r \in signed, w \in V!Spellings :
                                      /\ r.head = HashEventRecord(Proof, chain[n - 1])
                                      /\ copy[n] = RowOf(r, w, copy[n].id, n, r.head)
    BY DEF ValidIsHistory
  <2>. DEFINE n == Len(copy)
  <2>1. n \in Nat /\ n >= 1
    BY ValidCopy
  <2>2. Len(chain) \in Nat /\ DOMAIN chain = 1..Len(chain)
    BY SequenceFacts DEF ExportInv, RequestFirst
  <2>3. ASSUME NEW i \in 1..(n - 1)
        PROVE  copy[i] = chain[i]
    <3>1. i + 1 \in 2..Len(copy) /\ (i + 1) - 1 = i
      BY <2>1
    <3>. QED  BY <3>1, RowBeforeLast
  <2>4. CASE n = 1
    BY <2>1, <2>2, <2>3, <2>4, RequestAlone
  <2>5. CASE n > 1
    <3>1. n \in 2..Len(copy)
      BY <2>1, <2>5
    <3>2. n - 1 \in DOMAIN chain
      BY <3>1, RowBeforeLast
    <3>3. \E r \in signed, w \in V!Spellings :
             /\ r.head = HashEventRecord(Proof, chain[n - 1])
             /\ copy[n] = RowOf(r, w, copy[n].id, n, r.head)
      BY <3>1, RowBeforeLast
    <3>. HIDE DEF n
    <3>4. n <= Len(chain) + 1
      BY <2>1, <2>2, <3>2
    <3>. QED  BY <2>3, <2>5, <3>3, <3>4 DEF n
  <2>6. n = 1 \/ n > 1
    <3>. HIDE DEF n
    <3>. QED  BY <2>1
  <2>. QED  BY <2>4, <2>5, <2>6
<1>. QED  BY <1>1, ExportInvariance, PTL

(* A kept chain_head of a version-4 proof pins the copy that reports it to *)
(* the chain up to that event (verifier.py, --expect-head).                *)
THEOREM KeptHeadPins == Spec => []HeadPinsExport
<1>1. ExportInv => HeadPinsExport
  <2>. SUFFICES ASSUME ExportInv, version = "4", Valid, NEW k \in DOMAIN chain,
                       V!ReportedHead(Proof, copy) = HashEventRecord(Proof, chain[k])
                PROVE  copy = SubSeq(chain, 1, k)
    BY DEF HeadPinsExport
  <2>. DEFINE n == Len(copy)
              whole == SubSeq(chain, 1, k)
              T == RowsOfCopy \cup {chain[i] : i \in DOMAIN chain}
  <2>1. n \in Nat /\ n \in 1..Len(copy) /\ copy # <<>> /\ copy \in Seq(T)
    BY ValidCopy, CopyFacts, SeqMonotonic
  <2>2. Len(chain) \in Nat /\ DOMAIN chain = 1..Len(chain)
    BY SequenceFacts DEF ExportInv, RequestFirst
  <2>3. HashEventRecord(Proof, copy[n]) = HashEventRecord(Proof, chain[k])
    BY <2>1 DEF V!ReportedHead
  <2>4. n = k /\ copy[n] = chain[k]
    BY <2>1, <2>3, PlaceInChain
  <2>5. ASSUME NEW i \in 1..n
        PROVE  copy[i] = chain[i]
    <3>1. CASE i = n
      BY <2>4, <3>1
    <3>2. CASE i # n
      <4>1. i + 1 \in 2..Len(copy) /\ (i + 1) - 1 = i
        BY <2>1, <3>2
      <4>. QED  BY <4>1, RowBeforeLast
    <3>. QED  BY <3>1, <3>2
  <2>6. \A i \in 1..k : chain[i] \in T
    BY <2>2
  <2>. HIDE DEF n, T
  <2>7. /\ whole \in Seq(T) /\ Len(whole) = k
        /\ \A i \in 1..k : whole[i] = chain[i]
    <3>1. \A i \in 1..(k - 1 + 1) : 1 + i - 1 = i
      BY <2>2
    <3>2. k - 1 + 1 = k /\ 1 <= k /\ k \in Int
      BY <2>2
    <3>. QED  BY <2>6, <3>1, <3>2, SubSeqProperties
  <2>. HIDE DEF whole
  <2>8. copy = whole
    BY <2>1, <2>4, <2>5, <2>7, SeqEqual DEF n
  <2>. QED  BY <2>8 DEF whole
<1>. QED  BY <1>1, ExportInvariance, PTL

=============================================================================
