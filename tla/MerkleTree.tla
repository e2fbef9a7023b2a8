----------------------------- MODULE MerkleTree -----------------------------
(***************************************************************************)
(* The ordered Merkle tree over the turns of a compute channel             *)
(* (app/crypto.py). A hash is the term that was hashed: the preimages of a *)
(* node and of the four leaf versions have different lengths, so no two    *)
(* of them are equal unless all their parts are.                           *)
(***************************************************************************)
EXTENDS Naturals, Sequences

CONSTANT MaxPath    \* CHANNEL_MAX_MERKLE_PATH_LEN

ASSUME PathAssumption == MaxPath \in Nat

ZeroHash == [zero |-> 0]

(* compute_merkle_node                                                     *)
Node(l, r) == [left |-> l, right |-> r]

(* Mutation: a last node without a partner is left out. *)
PairedDrop(level) == SubSeq(level, 1, 2 * (Len(level) \div 2))

(* An odd level repeats its last node.                                     *)
Paired(level) ==
    IF Len(level) % 2 = 1 THEN Append(level, level[Len(level)]) ELSE level

Pairs(level) ==
    [i \in 1..(Len(level) \div 2) |-> Node(level[2 * i - 1], level[2 * i])]

(* The levels from the leaves up, more of them than there can be until one *)
(* node is left.                                                           *)
Levels(leaves) ==
    LET level[d \in 0..Len(leaves)] ==
            IF d = 0 THEN leaves ELSE Pairs(Paired(level[d - 1]))
    IN  level

(* How often the loop of compute_merkle_root runs.                         *)
Height(leaves) ==
    CHOOSE d \in 0..Len(leaves) :
        /\ Len(Levels(leaves)[d]) <= 1
        /\ \A c \in 0..(d - 1) : Len(Levels(leaves)[c]) > 1

(* compute_merkle_root                                                     *)
MerkleRoot(leaves) ==
    IF leaves = <<>> THEN ZeroHash ELSE Levels(leaves)[Height(leaves)][1]

(* How many leaves a path of each length tells apart.                      *)
Reach ==
    LET reach[k \in 0..MaxPath] == IF k = 0 THEN 1 ELSE 2 * reach[k - 1]
    IN  reach

(* turn_index >> level, for every level of a path.                         *)
Shifted(index) ==
    LET shift[k \in 0..MaxPath] == IF k = 0 THEN index ELSE shift[k - 1] \div 2
    IN  shift

BitSet(index, k) == Shifted(index)[k] % 2 = 1

(* Mutation: the sides are swapped. *)
OrientedOther(index, path) ==
    \A k \in DOMAIN path : path[k].isLeft # BitSet(index, k - 1)

(* The side of a sibling is fixed by the bit of the index at its level.    *)
Oriented(index, path) ==
    \A k \in DOMAIN path : path[k].isLeft = BitSet(index, k - 1)

(* The hashes on the way up a path, from the one it starts with.           *)
Climb(hash, path) ==
    LET current[k \in 0..Len(path)] ==
            IF k = 0 THEN hash
            ELSE IF path[k].isLeft THEN Node(path[k].sibling, current[k - 1])
                                   ELSE Node(current[k - 1], path[k].sibling)
    IN  current

(* verify_merkle_path. The bits of the index above the length of the path  *)
(* are not read.                                                           *)
PathLeadsTo(leaf, index, path, root) ==
    /\ Len(path) <= MaxPath
    /\ Oriented(index, path)
    /\ Climb(leaf, path)[Len(path)] = root

(* The path of a position (from 0), as a prover builds it. The copy that   *)
(* pads an odd level is a position too.                                    *)
PathOf(leaves, position) ==
    LET place(k) == Shifted(position)[k - 1]
        left(k) == place(k) % 2 = 1
    IN  [k \in 1..Height(leaves) |->
           [sibling |-> Paired(Levels(leaves)[k - 1])[IF left(k) THEN place(k)
                                                      ELSE place(k) + 2],
            isLeft |-> left(k)]]

=============================================================================
