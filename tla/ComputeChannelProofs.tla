------------------------ MODULE ComputeChannelProofs ------------------------
(***************************************************************************)
(* Proofs of what the settlement of a compute channel promises, for any    *)
(* number of turns, any length of paths and any altered transcript.        *)
(*                                                                         *)
(* The argument: a path that climbs to a root, of whatever length and      *)
(* sides, climbs through the levels of the tree, because a node fixes its  *)
(* two parts and a leaf is no node; so it starts with a leaf of the tree   *)
(* (ClimbSound). A leaf fixes its turn but for the signatures, so the      *)
(* accepted proofs go to distinct turns that were there when the agent     *)
(* signed, and their work adds up to the same sum (AcceptedIsRecorded).    *)
(* Down from one root, two trees of distinct leaves agree level by level   *)
(* (RootFixesLeaves), and up the path of a position the place is halved    *)
(* with each level (ClimbToRoot).                                          *)
(*                                                                         *)
(* Heights, climbs, sums and reads are recursive functions. Their          *)
(* equations, and the inductions over them, rest on Induction: the least   *)
(* counterexample is no counterexample.                                    *)
(***************************************************************************)
EXTENDS ComputeChannel, FiniteSetTheorems, SequenceTheorems, WellFoundedInduction, TLAPS

-----------------------------------------------------------------------------
(* Induction over the naturals. *)

(* A set of counterexamples has a least one: the library states that the   *)
(* subsets of a finite set are well-founded, which needs no operator.      *)
LEMMA LeastElement ==
    ASSUME NEW S \in SUBSET Nat, S # {}
    PROVE  \E n \in S : \A m \in S : n <= m
<1>1. PICK k \in S : TRUE
  OBVIOUS
<1>. DEFINE U == 0..k
            T == {0..n : n \in S \cap U}
<1>2. IsFiniteSet(U) /\ k \in U
  BY FS_Interval
<1>3. IsWellFoundedOn(StrictSubsetOrdering(U), SUBSET U)
  BY <1>2, FS_StrictSubsetOrderingWellFounded, FS_FiniteSubsetsOfFinite
<1>4. T \subseteq SUBSET U /\ T # {}
  BY <1>1, <1>2
<1>. HIDE DEF T
<1>5. PICK x \in T : \A y \in T : <<y, x>> \notin StrictSubsetOrdering(U)
  BY <1>3, <1>4, WFMin
<1>6. PICK n \in S \cap U : x = 0..n
  BY DEF T
<1>7. ASSUME NEW m \in S
      PROVE  n <= m
  <2>. SUFFICES ASSUME m < n PROVE FALSE
    BY <1>6
  <2>1. m \in U /\ 0..m \in T
    BY <1>6 DEF T
  <2>2. 0..m \subseteq x /\ n \in x /\ n \notin 0..m
    BY <1>6
  <2>3. x \in SUBSET U /\ 0..m \in SUBSET U
    BY <1>4, <2>1
  <2>. QED  BY <1>5, <2>1, <2>2, <2>3 DEF StrictSubsetOrdering
<1>. QED  BY <1>6, <1>7

(* What holds of 0 and of every number after one it holds of.              *)
LEMMA Induction ==
    ASSUME NEW S, 0 \in S, \A n \in Nat : n \in S => n + 1 \in S
    PROVE  \A n \in Nat : n \in S
<1>. SUFFICES ASSUME Nat \ S # {}
              PROVE  FALSE
  OBVIOUS
<1>1. PICK n \in Nat \ S : \A m \in Nat \ S : n <= m
  BY LeastElement
<1>2. n # 0 /\ n - 1 \in Nat /\ (n - 1) + 1 = n
  BY <1>1
<1>3. n - 1 \in S
  BY <1>1, <1>2
<1>. QED  BY <1>1, <1>2, <1>3

-----------------------------------------------------------------------------
(* Sequences, and the terms a tree is made of. *)

IsSequence(s) == s \in Seq({s[i] : i \in DOMAIN s})

LEMMA SequenceFacts ==
    ASSUME NEW s, IsSequence(s)
    PROVE  Len(s) \in Nat /\ DOMAIN s = 1..Len(s) /\ (s = <<>> <=> Len(s) = 0)
<1>. DEFINE T == {s[i] : i \in DOMAIN s}
<1>1. s \in Seq(T)
  BY DEF IsSequence
<1>. HIDE DEF T
<1>. QED  BY <1>1, LenProperties, EmptySeq

LEMMA SequenceIs ==
    ASSUME NEW n \in Nat, NEW s, DOMAIN s = 1..n, s = [i \in 1..n |-> s[i]]
    PROVE  IsSequence(s) /\ Len(s) = n
<1>. DEFINE T == {s[i] : i \in 1..n}
<1>1. s \in [1..n -> T]
  <2>1. \A i \in 1..n : s[i] \in T
    OBVIOUS
  <2>. HIDE DEF T
  <2>. QED  BY <2>1
<1>. HIDE DEF T
<1>2. s \in Seq(T)
  BY <1>1, SeqDef
<1>3. Len(s) = n
  BY <1>1, <1>2, LenProperties
<1>. QED  BY <1>2, <1>3 DEF IsSequence, T

LEMMA IsSequenceOf ==
    ASSUME NEW S, NEW s \in Seq(S)
    PROVE  IsSequence(s)
<1>1. Len(s) \in Nat /\ DOMAIN s = 1..Len(s) /\ s = [i \in 1..Len(s) |-> s[i]]
  BY LenProperties
<1>. QED  BY <1>1, SequenceIs

(* What no part of a tree but a leaf can be.                               *)
LeafTerm(x) == x # ZeroHash /\ \A l, r : x # Node(l, r)

LEMMA NodeFixesBoth ==
    ASSUME NEW l, NEW r, NEW a, NEW b, Node(l, r) = Node(a, b)
    PROVE  l = a /\ r = b
<1>1. Node(l, r).left = Node(a, b).left /\ Node(l, r).right = Node(a, b).right
  OBVIOUS
<1>. QED  BY <1>1 DEF Node

LEMMA NodeIsNotZero ==
    ASSUME NEW l, NEW r
    PROVE  Node(l, r) # ZeroHash
<1>1. "left" \in DOMAIN Node(l, r) /\ "left" \notin DOMAIN ZeroHash
  BY DEF Node, ZeroHash
<1>. QED  BY <1>1

-----------------------------------------------------------------------------
(* The levels of a tree. *)

(* Every level is the pairs of the one below it.                           *)
LEMMA LevelsAre ==
    ASSUME NEW leaves, Len(leaves) \in Nat
    PROVE  /\ DOMAIN Levels(leaves) = 0..Len(leaves) /\ Levels(leaves)[0] = leaves
           /\ \A k \in 1..Len(leaves) :
                Levels(leaves)[k] = Pairs(Paired(Levels(leaves)[k - 1]))
<1>. DEFINE first == leaves
            Step(k, v) == Pairs(Paired(v))
            Up(g, n) == [k \in 0..n |-> IF k = 0 THEN first ELSE Step(k, g[k - 1])]
            S == {n \in Nat : \E g : g = Up(g, n)}
            f == Levels(leaves)
<1>1. f = CHOOSE g : g = Up(g, Len(leaves))
  BY DEF Levels
<1>. HIDE DEF first, Step, f
<1>2. 0 \in S
  <2>1. [k \in 0..0 |-> first] = Up([k \in 0..0 |-> first], 0)
    OBVIOUS
  <2>. HIDE DEF Up
  <2>. QED  BY <2>1
<1>3. ASSUME NEW n \in Nat, n \in S
      PROVE  n + 1 \in S
  <2>1. PICK g : g = Up(g, n)
    BY <1>3
  <2>. DEFINE h == [k \in 0..(n + 1) |-> IF k = n + 1 THEN Step(n + 1, g[n]) ELSE g[k]]
  <2>2. \A k \in 0..(n + 1) : h[k] = IF k = 0 THEN first ELSE Step(k, h[k - 1])
    <3>. TAKE k \in 0..(n + 1)
    <3>1. CASE k = n + 1
      <4>1. h[k] = Step(n + 1, g[n]) /\ h[k - 1] = g[n] /\ k # 0
        BY <3>1
      <4>. HIDE DEF h
      <4>. QED  BY <3>1, <4>1
    <3>2. CASE k # n + 1
      <4>1. k \in 0..n /\ h[k] = g[k] /\ (k # 0 => h[k - 1] = g[k - 1])
        BY <3>2
      <4>. HIDE DEF h
      <4>. QED  BY <2>1, <4>1
    <3>. QED  BY <3>1, <3>2
  <2>3. h = Up(h, n + 1)
    BY <2>2
  <2>. HIDE DEF h, Up
  <2>. QED  BY <2>3
<1>. HIDE DEF S
<1>4. Len(leaves) \in S
  BY <1>2, <1>3, Induction
<1>5. \E g : g = Up(g, Len(leaves))
  BY <1>4 DEF S
<1>. HIDE DEF Up
<1>6. f = Up(f, Len(leaves))
  BY <1>1, <1>5
<1>7. f = [k \in 0..Len(leaves) |-> IF k = 0 THEN first ELSE Step(k, f[k - 1])]
  BY <1>6 DEF Up
<1>8. DOMAIN f = 0..Len(leaves)
  BY <1>7
<1>9. \A k \in 0..Len(leaves) : f[k] = IF k = 0 THEN first ELSE Step(k, f[k - 1])
  BY <1>7
<1>10. Len(leaves) \in Nat
  OBVIOUS
<1>11. f[0] = first /\ \A k \in 1..Len(leaves) : f[k] = Step(k, f[k - 1])
  BY <1>9, <1>10
<1>. QED  BY <1>8, <1>11 DEF f, first, Step

LEMMA PairedIs ==
    ASSUME NEW s, IsSequence(s)
    PROVE  /\ Len(Paired(s)) = IF Len(s) % 2 = 1 THEN Len(s) + 1 ELSE Len(s)
           /\ \A i \in 1..Len(s) : Paired(s)[i] = s[i]
           /\ Len(s) % 2 = 1 => Paired(s)[Len(s) + 1] = s[Len(s)]
           /\ IsSequence(Paired(s))
<1>1. Len(s) \in Nat /\ DOMAIN s = 1..Len(s)
  BY SequenceFacts
<1>. DEFINE T == {s[i] : i \in DOMAIN s}
<1>2. s \in Seq(T)
  BY DEF IsSequence
<1>3. CASE Len(s) % 2 = 1
  <2>1. s[Len(s)] \in T
    BY <1>1, <1>3
  <2>2. Paired(s) = Append(s, s[Len(s)])
    BY <1>3 DEF Paired
  <2>. DEFINE last == s[Len(s)]
  <2>. HIDE DEF T, last
  <2>3. /\ Append(s, last) \in Seq(T) /\ Len(Append(s, last)) = Len(s) + 1
        /\ \A i \in 1..Len(s) : Append(s, last)[i] = s[i]
        /\ Append(s, last)[Len(s) + 1] = last
    BY <1>2, <2>1, AppendProperties DEF last
  <2>4. /\ Len(Append(s, last)) \in Nat
        /\ DOMAIN Append(s, last) = 1..(Len(s) + 1)
        /\ Append(s, last) = [i \in 1..(Len(s) + 1) |-> Append(s, last)[i]]
    BY <1>1, <2>3, LenProperties
  <2>5. IsSequence(Append(s, last))
    BY <1>1, <2>4, SequenceIs
  <2>. QED  BY <1>3, <2>2, <2>3, <2>5 DEF last
<1>4. CASE Len(s) % 2 # 1
  BY <1>4 DEF Paired
<1>. QED  BY <1>3, <1>4

(* The place of the right part of node i, over n nodes.                    *)
RightOf(n, i) == IF 2 * i <= n THEN 2 * i ELSE 2 * i - 1

LEMMA PairsAre ==
    ASSUME NEW s, IsSequence(s)
    PROVE  LET up == Pairs(Paired(s))
               n == Len(s)
               half == (n + 1) \div 2
           IN  /\ IsSequence(up) /\ Len(up) = half
               /\ \A i \in 1..half : /\ 2 * i - 1 \in 1..n /\ RightOf(n, i) \in 1..n
                                     /\ up[i] = Node(s[2 * i - 1], s[RightOf(n, i)])
<1>. DEFINE n == Len(s)
            half == (n + 1) \div 2
            p == Paired(s)
            up == Pairs(p)
<1>1. n \in Nat
  BY SequenceFacts
<1>2. /\ Len(p) = IF n % 2 = 1 THEN n + 1 ELSE n
      /\ \A i \in 1..n : p[i] = s[i]
      /\ n % 2 = 1 => p[n + 1] = s[n]
  BY PairedIs
<1>. HIDE DEF n, p
<1>3. half \in Nat /\ Len(p) \div 2 = half
  BY <1>1, <1>2
<1>4. up = [i \in 1..half |-> Node(p[2 * i - 1], p[2 * i])]
  BY <1>3 DEF Pairs
<1>5. IsSequence(up) /\ Len(up) = half
  <2>. HIDE DEF half, up
  <2>1. DOMAIN up = 1..half /\ up = [i \in 1..half |-> up[i]]
    BY <1>4
  <2>. QED  BY <1>3, <2>1, SequenceIs
<1>6. ASSUME NEW i \in 1..half
      PROVE  /\ 2 * i - 1 \in 1..n /\ RightOf(n, i) \in 1..n
             /\ up[i] = Node(s[2 * i - 1], s[RightOf(n, i)])
  <2>1. i \in Nat /\ 1 <= i /\ 2 * i <= n + 1
    BY <1>1
  <2>2. up[i] = Node(p[2 * i - 1], p[2 * i])
    BY <1>4
  <2>. HIDE DEF half, up
  <2>3. CASE 2 * i <= n
    <3>1. 2 * i \in 1..n /\ 2 * i - 1 \in 1..n /\ RightOf(n, i) = 2 * i
      BY <1>1, <2>1, <2>3 DEF RightOf
    <3>. QED  BY <1>2, <2>2, <3>1
  <2>4. CASE 2 * i = n + 1
    <3>1. 2 * i - 1 = n /\ n % 2 = 1 /\ n \in 1..n /\ RightOf(n, i) = n
      BY <1>1, <2>1, <2>4 DEF RightOf
    <3>. QED  BY <1>2, <2>2, <2>4, <3>1
  <2>. QED  BY <1>1, <2>1, <2>3, <2>4
<1>. QED  BY <1>5, <1>6 DEF n, p

(* Every level is a sequence, and shorter than the one below it until one  *)
(* node is left.                                                           *)
LEMMA LevelFacts ==
    ASSUME NEW leaves, IsSequence(leaves), NEW d \in 0..Len(leaves)
    PROVE  /\ IsSequence(Levels(leaves)[d])
           /\ Len(Levels(leaves)[d]) <= 1 \/ Len(Levels(leaves)[d]) + d <= Len(leaves)
           /\ leaves # <<>> => Len(Levels(leaves)[d]) >= 1
<1>. DEFINE N == Len(leaves)
            L == Levels(leaves)
            Good(k) == /\ IsSequence(L[k])
                       /\ Len(L[k]) <= 1 \/ Len(L[k]) + k <= N
                       /\ leaves # <<>> => Len(L[k]) >= 1
            S == {k \in Nat : k <= N => Good(k)}
<1>1. N \in Nat /\ (leaves # <<>> => N >= 1)
  BY SequenceFacts
<1>2. L[0] = leaves /\ \A k \in 1..N : L[k] = Pairs(Paired(L[k - 1]))
  BY <1>1, LevelsAre
<1>. HIDE DEF N, L
<1>3. 0 \in S
  BY <1>1, <1>2 DEF N
<1>4. ASSUME NEW k \in Nat, k \in S
      PROVE  k + 1 \in S
  <2>. SUFFICES ASSUME k + 1 <= N PROVE Good(k + 1)
    OBVIOUS
  <2>1. Good(k)
    BY <1>1, <1>4
  <2>2. L[k + 1] = Pairs(Paired(L[k]))
    <3>1. k + 1 \in 1..N /\ (k + 1) - 1 = k
      BY <1>1
    <3>. QED  BY <1>2, <3>1
  <2>3. IsSequence(L[k + 1]) /\ Len(L[k + 1]) = (Len(L[k]) + 1) \div 2 /\ Len(L[k]) \in Nat
    BY <2>1, <2>2, PairsAre, SequenceFacts
  <2>. DEFINE a == Len(L[k])
              b == Len(L[k + 1])
  <2>4. a \in Nat /\ b = (a + 1) \div 2 /\ (a <= 1 \/ a + k <= N)
        /\ (leaves # <<>> => a >= 1)
    BY <2>1, <2>3
  <2>. HIDE DEF a, b
  <2>5. b <= 1 \/ b + (k + 1) <= N
    BY <1>1, <2>4
  <2>6. leaves # <<>> => b >= 1
    BY <2>4
  <2>. QED  BY <2>3, <2>5, <2>6 DEF b
<1>. HIDE DEF S
<1>5. d \in S
  BY <1>1, <1>3, <1>4, Induction DEF N
<1>. QED  BY <1>1, <1>5 DEF S, N, L

LEMMA HeightIs ==
    ASSUME NEW leaves, IsSequence(leaves)
    PROVE  /\ Height(leaves) \in 0..Len(leaves)
           /\ Len(Levels(leaves)[Height(leaves)]) <= 1
           /\ \A c \in 0..(Height(leaves) - 1) : Len(Levels(leaves)[c]) > 1
<1>. DEFINE N == Len(leaves)
            L == Levels(leaves)
            S == {d \in 0..N : Len(L[d]) <= 1}
<1>1. N \in Nat
  BY SequenceFacts
<1>2. \A d \in 0..N : /\ Len(L[d]) \in Nat
                      /\ Len(L[d]) <= 1 \/ Len(L[d]) + d <= N
  BY LevelFacts, SequenceFacts
<1>. HIDE DEF L, N
<1>3. N \in S
  BY <1>1, <1>2
<1>4. PICK d \in S : \A c \in S : d <= c
  <2>1. S \in SUBSET Nat /\ S # {}
    BY <1>1, <1>3
  <2>. HIDE DEF S
  <2>. QED  BY <2>1, LeastElement
<1>5. d \in 0..N /\ Len(L[d]) <= 1 /\ \A c \in 0..(d - 1) : Len(L[c]) > 1
  BY <1>1, <1>2, <1>4
<1>6. Height(leaves) = CHOOSE k \in 0..N : /\ Len(L[k]) <= 1
                                           /\ \A c \in 0..(k - 1) : Len(L[c]) > 1
  BY DEF Height, L, N
<1>. QED  BY <1>5, <1>6 DEF L, N

(* A node of a level above the leaves is made of two nodes below it.       *)
LEMMA LevelUp ==
    ASSUME NEW leaves, IsSequence(leaves), NEW d \in 1..Height(leaves),
           NEW i \in 1..Len(Levels(leaves)[d])
    PROVE  LET below == Levels(leaves)[d - 1]
               n == Len(below)
           IN  /\ 2 * i - 1 \in 1..n /\ RightOf(n, i) \in 1..n
               /\ Levels(leaves)[d][i] = Node(below[2 * i - 1], below[RightOf(n, i)])
<1>1. Len(leaves) \in Nat /\ Height(leaves) \in 0..Len(leaves)
  BY SequenceFacts, HeightIs
<1>2. d \in 1..Len(leaves) /\ d - 1 \in 0..Len(leaves)
  BY <1>1
<1>3. Levels(leaves)[d] = Pairs(Paired(Levels(leaves)[d - 1]))
  BY <1>1, <1>2, LevelsAre
<1>. DEFINE below == Levels(leaves)[d - 1]
            up == Levels(leaves)[d]
<1>4. IsSequence(below) /\ up = Pairs(Paired(below))
  BY <1>2, <1>3, LevelFacts
<1>5. i \in 1..Len(up)
  OBVIOUS
<1>. HIDE DEF below, up
<1>6. /\ Len(up) = (Len(below) + 1) \div 2
      /\ \A j \in 1..((Len(below) + 1) \div 2) :
            /\ 2 * j - 1 \in 1..Len(below) /\ RightOf(Len(below), j) \in 1..Len(below)
            /\ up[j] = Node(below[2 * j - 1], below[RightOf(Len(below), j)])
  BY <1>4, PairsAre
<1>7. /\ 2 * i - 1 \in 1..Len(below) /\ RightOf(Len(below), i) \in 1..Len(below)
      /\ up[i] = Node(below[2 * i - 1], below[RightOf(Len(below), i)])
  BY <1>5, <1>6
<1>. QED  BY <1>7 DEF below, up

LEMMA RootIs ==
    ASSUME NEW leaves, IsSequence(leaves), leaves # <<>>
    PROVE  /\ Len(Levels(leaves)[Height(leaves)]) = 1
           /\ MerkleRoot(leaves) = Levels(leaves)[Height(leaves)][1]
<1>1. /\ Height(leaves) \in 0..Len(leaves)
      /\ Len(Levels(leaves)[Height(leaves)]) <= 1
  BY HeightIs
<1>2. /\ Len(Levels(leaves)[Height(leaves)]) >= 1
      /\ IsSequence(Levels(leaves)[Height(leaves)])
  BY <1>1, LevelFacts
<1>3. Len(Levels(leaves)[Height(leaves)]) \in Nat
  BY <1>2, SequenceFacts
<1>. DEFINE n == Len(Levels(leaves)[Height(leaves)])
<1>4. n \in Nat /\ n <= 1 /\ n >= 1
  BY <1>1, <1>2, <1>3
<1>. HIDE DEF n
<1>5. n = 1
  BY <1>4
<1>6. MerkleRoot(leaves) = Levels(leaves)[Height(leaves)][1]
  BY DEF MerkleRoot
<1>. QED  BY <1>5, <1>6 DEF n

LEMMA RootOfTurns ==
    ASSUME NEW leaves, IsSequence(leaves), leaves # <<>>,
           \A i \in 1..Len(leaves) : LeafTerm(leaves[i])
    PROVE  MerkleRoot(leaves) # ZeroHash
<1>. DEFINE H == Height(leaves)
            L == Levels(leaves)
<1>1. Len(L[H]) = 1 /\ MerkleRoot(leaves) = L[H][1]
  BY RootIs
<1>2. H \in 0..Len(leaves) /\ Len(leaves) \in Nat
  BY HeightIs, SequenceFacts
<1>3. CASE H = 0
  <2>1. L[0] = leaves
    BY <1>2, LevelsAre
  <2>2. Len(leaves) = 1 /\ MerkleRoot(leaves) = leaves[1]
    BY <1>1, <1>3, <2>1
  <2>. QED  BY <2>2 DEF LeafTerm
<1>4. CASE H # 0
  <2>1. H \in 1..H /\ 1 \in 1..Len(L[H])
    BY <1>1, <1>2, <1>4
  <2>. DEFINE below == L[H - 1]
  <2>2. L[H][1] = Node(below[2 * 1 - 1], below[RightOf(Len(below), 1)])
    BY <2>1, LevelUp
  <2>. HIDE DEF below
  <2>. QED  BY <1>1, <2>2, NodeIsNotZero
<1>. QED  BY <1>3, <1>4

-----------------------------------------------------------------------------
(* Only a leaf leads to the root. *)

(* A hash on the way up a path is that of the one below and its sibling.   *)
LEMMA ClimbIs ==
    ASSUME NEW hash, NEW path, Len(path) \in Nat
    PROVE  /\ DOMAIN Climb(hash, path) = 0..Len(path) /\ Climb(hash, path)[0] = hash
           /\ \A k \in 1..Len(path) :
                Climb(hash, path)[k] =
                  IF path[k].isLeft THEN Node(path[k].sibling, Climb(hash, path)[k - 1])
                  ELSE Node(Climb(hash, path)[k - 1], path[k].sibling)
<1>. DEFINE first == hash
            Step(k, v) == IF path[k].isLeft THEN Node(path[k].sibling, v)
                          ELSE Node(v, path[k].sibling)
            Up(g, n) == [k \in 0..n |-> IF k = 0 THEN first ELSE Step(k, g[k - 1])]
            S == {n \in Nat : \E g : g = Up(g, n)}
            f == Climb(hash, path)
<1>1. f = CHOOSE g : g = Up(g, Len(path))
  BY DEF Climb
<1>. HIDE DEF first, Step, f
<1>2. 0 \in S
  <2>1. [k \in 0..0 |-> first] = Up([k \in 0..0 |-> first], 0)
    OBVIOUS
  <2>. HIDE DEF Up
  <2>. QED  BY <2>1
<1>3. ASSUME NEW n \in Nat, n \in S
      PROVE  n + 1 \in S
  <2>1. PICK g : g = Up(g, n)
    BY <1>3
  <2>. DEFINE h == [k \in 0..(n + 1) |-> IF k = n + 1 THEN Step(n + 1, g[n]) ELSE g[k]]
  <2>2. \A k \in 0..(n + 1) : h[k] = IF k = 0 THEN first ELSE Step(k, h[k - 1])
    <3>. TAKE k \in 0..(n + 1)
    <3>1. CASE k = n + 1
      <4>1. h[k] = Step(n + 1, g[n]) /\ h[k - 1] = g[n] /\ k # 0
        BY <3>1
      <4>. HIDE DEF h
      <4>. QED  BY <3>1, <4>1
    <3>2. CASE k # n + 1
      <4>1. k \in 0..n /\ h[k] = g[k] /\ (k # 0 => h[k - 1] = g[k - 1])
        BY <3>2
      <4>. HIDE DEF h
      <4>. QED  BY <2>1, <4>1
    <3>. QED  BY <3>1, <3>2
  <2>3. h = Up(h, n + 1)
    BY <2>2
  <2>. HIDE DEF h, Up
  <2>. QED  BY <2>3
<1>. HIDE DEF S
<1>4. Len(path) \in S
  BY <1>2, <1>3, Induction
<1>5. \E g : g = Up(g, Len(path))
  BY <1>4 DEF S
<1>. HIDE DEF Up
<1>6. f = Up(f, Len(path))
  BY <1>1, <1>5
<1>7. f = [k \in 0..Len(path) |-> IF k = 0 THEN first ELSE Step(k, f[k - 1])]
  BY <1>6 DEF Up
<1>8. DOMAIN f = 0..Len(path)
  BY <1>7
<1>9. \A k \in 0..Len(path) : f[k] = IF k = 0 THEN first ELSE Step(k, f[k - 1])
  BY <1>7
<1>10. Len(path) \in Nat
  OBVIOUS
<1>11. f[0] = first /\ \A k \in 1..Len(path) : f[k] = Step(k, f[k - 1])
  BY <1>9, <1>10
<1>. QED  BY <1>8, <1>11 DEF f, first, Step

(* Whatever the path, only a leaf of the tree climbs to its root.          *)
LEMMA ClimbSound ==
    ASSUME NEW leaves, IsSequence(leaves), \A i \in 1..Len(leaves) : LeafTerm(leaves[i]),
           NEW x, LeafTerm(x), NEW path, Len(path) \in Nat,
           Climb(x, path)[Len(path)] = MerkleRoot(leaves)
    PROVE  \E i \in 1..Len(leaves) : leaves[i] = x
<1>. DEFINE m == Len(path)
            N == Len(leaves)
            H == Height(leaves)
            L == Levels(leaves)
            at == Climb(x, path)
<1>1. N \in Nat /\ m \in Nat /\ H \in 0..N
  BY SequenceFacts, HeightIs
<1>2. /\ at[0] = x
      /\ \A k \in 1..m : \E s : at[k] = Node(s, at[k - 1]) \/ at[k] = Node(at[k - 1], s)
  BY ClimbIs
<1>3. leaves # <<>>
  <2>. SUFFICES ASSUME leaves = <<>> PROVE FALSE
    OBVIOUS
  <2>1. at[m] = ZeroHash
    BY DEF MerkleRoot
  <2>. HIDE DEF at, m
  <2>2. CASE m = 0
    BY <1>2, <2>1, <2>2 DEF LeafTerm
  <2>3. CASE m # 0
    <3>1. m \in 1..m
      BY <1>1, <2>3
    <3>. QED  BY <1>2, <2>1, <3>1, NodeIsNotZero
  <2>. QED  BY <2>2, <2>3
<1>4. Len(L[H]) = 1 /\ at[m] = L[H][1]
  BY <1>3, RootIs
<1>5. L[0] = leaves
  BY <1>1, LevelsAre
<1>6. ASSUME NEW d \in 0..H
      PROVE  IsSequence(L[d]) /\ Len(L[d]) \in Nat
  <2>1. d \in 0..N
    BY <1>1
  <2>2. IsSequence(L[d])
    BY <2>1, LevelFacts
  <2>. HIDE DEF L
  <2>. QED  BY <2>2, SequenceFacts
<1>7. \A d \in 1..H : \A i \in 1..Len(L[d]) :
         \E a, b \in 1..Len(L[d - 1]) : L[d][i] = Node(L[d - 1][a], L[d - 1][b])
  BY LevelUp
<1>. DEFINE On(j) == \E i \in 1..Len(L[H - j]) : L[H - j][i] = at[m - j]
            S == {j \in Nat : j <= m /\ j <= H => On(j)}
<1>. HIDE DEF m, N, H, L, at
<1>8. 0 \in S
  <2>1. 1 \in 1..Len(L[H]) /\ H - 0 = H /\ m - 0 = m
    BY <1>1, <1>4
  <2>. QED  BY <1>4, <2>1
<1>9. ASSUME NEW j \in Nat, j \in S
      PROVE  j + 1 \in S
  <2>. SUFFICES ASSUME j + 1 <= m, j + 1 <= H PROVE On(j + 1)
    OBVIOUS
  <2>. DEFINE d == H - j
              k == m - j
  <2>1. /\ d \in 1..H /\ k \in 1..m /\ d - 1 = H - (j + 1) /\ k - 1 = m - (j + 1)
    BY <1>1
  <2>2. PICK i \in 1..Len(L[d]) : L[d][i] = at[k]
    BY <1>1, <1>9
  <2>. HIDE DEF d, k
  <2>3. PICK a \in 1..Len(L[d - 1]), b \in 1..Len(L[d - 1]) :
               L[d][i] = Node(L[d - 1][a], L[d - 1][b])
    BY <1>7, <2>1
  <2>4. PICK s : at[k] = Node(s, at[k - 1]) \/ at[k] = Node(at[k - 1], s)
    BY <1>2, <2>1
  <2>5. L[d - 1][a] = at[k - 1] \/ L[d - 1][b] = at[k - 1]
    BY <2>2, <2>3, <2>4, NodeFixesBoth
  <2>. QED  BY <2>1, <2>5
<1>. HIDE DEF On, S
<1>10. m \in S /\ H \in S
  BY <1>1, <1>8, <1>9, Induction
<1>11. CASE m < H
  <2>1. On(m)
    BY <1>1, <1>10, <1>11 DEF S
  <2>2. PICK i \in 1..Len(L[H - m]) : L[H - m][i] = x
    BY <1>1, <1>2, <2>1 DEF On
  <2>3. H - m \in 1..H
    BY <1>1, <1>11
  <2>4. \E l, r : x = Node(l, r)
    BY <1>7, <2>2, <2>3
  <2>. QED  BY <2>4 DEF LeafTerm
<1>12. CASE m >= H
  <2>1. On(H) /\ H - H = 0
    BY <1>1, <1>10, <1>12 DEF S
  <2>2. PICK i \in 1..N : leaves[i] = at[m - H]
    BY <1>1, <1>5, <2>1 DEF On, N
  <2>3. CASE m = H
    BY <1>1, <1>2, <2>2, <2>3 DEF N
  <2>4. CASE m # H
    <3>1. m - H \in 1..m
      BY <1>1, <1>12, <2>4
    <3>2. \E l, r : at[m - H] = Node(l, r)
      BY <1>2, <3>1
    <3>. QED  BY <2>2, <3>2 DEF LeafTerm, N
  <2>. QED  BY <2>3, <2>4
<1>. QED  BY <1>1, <1>11, <1>12

-----------------------------------------------------------------------------
(* A root fixes the sequence of distinct leaves it is over. *)

Distinct(s) == \A i, j \in 1..Len(s) : s[i] = s[j] => i = j

(* Pairs of distinct nodes are distinct: their left parts are.             *)
LEMMA PairsDistinct ==
    ASSUME NEW s, IsSequence(s), Distinct(s)
    PROVE  Distinct(Pairs(Paired(s)))
<1>. DEFINE up == Pairs(Paired(s))
            n == Len(s)
            half == (n + 1) \div 2
<1>1. /\ Len(up) = half /\ n \in Nat
      /\ \A i \in 1..half : /\ 2 * i - 1 \in 1..n /\ RightOf(n, i) \in 1..n
                            /\ up[i] = Node(s[2 * i - 1], s[RightOf(n, i)])
  BY PairsAre, SequenceFacts
<1>. HIDE DEF up, half, n
<1>2. ASSUME NEW i \in 1..half, NEW j \in 1..half, up[i] = up[j]
      PROVE  i = j
  <2>1. s[2 * i - 1] = s[2 * j - 1]
    BY <1>1, <1>2, NodeFixesBoth
  <2>. DEFINE a == 2 * i - 1
              b == 2 * j - 1
  <2>2. a \in 1..n /\ b \in 1..n /\ s[a] = s[b]
    BY <1>1, <2>1
  <2>. HIDE DEF a, b
  <2>3. a = b
    BY <2>2 DEF Distinct, n
  <2>4. i \in Int /\ j \in Int
    BY <1>2
  <2>. QED  BY <2>3, <2>4 DEF a, b
<1>. QED  BY <1>1, <1>2 DEF Distinct, up

LEMMA LevelsDistinct ==
    ASSUME NEW leaves, IsSequence(leaves), Distinct(leaves)
    PROVE  \A d \in 0..Len(leaves) : Distinct(Levels(leaves)[d])
<1>. DEFINE N == Len(leaves)
            L == Levels(leaves)
            S == {d \in Nat : d <= N => Distinct(L[d])}
<1>1. N \in Nat
  BY SequenceFacts
<1>2. L[0] = leaves /\ \A d \in 1..N : L[d] = Pairs(Paired(L[d - 1]))
  BY <1>1, LevelsAre
<1>3. \A d \in 0..N : IsSequence(L[d])
  BY LevelFacts
<1>. HIDE DEF N, L
<1>4. 0 \in S
  BY <1>2
<1>5. ASSUME NEW d \in Nat, d \in S
      PROVE  d + 1 \in S
  <2>. SUFFICES ASSUME d + 1 <= N PROVE Distinct(L[d + 1])
    OBVIOUS
  <2>1. d \in 0..N /\ d + 1 \in 1..N /\ (d + 1) - 1 = d /\ d <= N
    BY <1>1
  <2>2. L[d + 1] = Pairs(Paired(L[d]))
    BY <1>2, <2>1
  <2>3. IsSequence(L[d]) /\ Distinct(L[d])
    BY <1>3, <1>5, <2>1
  <2>. QED  BY <2>2, <2>3, PairsDistinct
<1>. HIDE DEF S
<1>6. \A d \in Nat : d \in S
  BY <1>4, <1>5, Induction
<1>. QED  BY <1>6 DEF S, N, L

SameSequence(s, t) == Len(s) = Len(t) /\ \A i \in 1..Len(s) : s[i] = t[i]

(* Pairs of distinct nodes fix the nodes, also how many they are: a node   *)
(* with itself as its right part is the last one without a partner.        *)
LEMMA PairsFix ==
    ASSUME NEW s, IsSequence(s), Distinct(s), Len(s) >= 1,
           NEW t, IsSequence(t), Distinct(t), Len(t) >= 1,
           SameSequence(Pairs(Paired(s)), Pairs(Paired(t)))
    PROVE  SameSequence(s, t)
<1>. DEFINE n == Len(s)
            m == Len(t)
            half == (n + 1) \div 2
            other == (m + 1) \div 2
            up == Pairs(Paired(s))
            top == Pairs(Paired(t))
<1>1. /\ Len(up) = half /\ n \in Nat
      /\ \A i \in 1..half : /\ 2 * i - 1 \in 1..n /\ RightOf(n, i) \in 1..n
                            /\ up[i] = Node(s[2 * i - 1], s[RightOf(n, i)])
  BY PairsAre, SequenceFacts
<1>2. /\ Len(top) = other /\ m \in Nat
      /\ \A i \in 1..other : /\ 2 * i - 1 \in 1..m /\ RightOf(m, i) \in 1..m
                             /\ top[i] = Node(t[2 * i - 1], t[RightOf(m, i)])
  BY PairsAre, SequenceFacts
<1>3. half = other /\ \A i \in 1..half : up[i] = top[i]
  BY <1>1, <1>2 DEF SameSequence
<1>. HIDE DEF up, top
<1>0. n >= 1 /\ m >= 1 /\ half = other
  BY <1>3
<1>. HIDE DEF n, m
<1>4. /\ half \in Nat /\ half >= 1
      /\ n = 2 * half - 1 \/ n = 2 * half
      /\ m = 2 * half - 1 \/ m = 2 * half
  BY <1>0, <1>1, <1>2
<1>. HIDE DEF half, other
<1>5. ASSUME NEW i \in 1..half
      PROVE  s[2 * i - 1] = t[2 * i - 1] /\ s[RightOf(n, i)] = t[RightOf(m, i)]
  BY <1>1, <1>2, <1>3, NodeFixesBoth
<1>6. \A i, j \in 1..n : s[i] = s[j] => i = j
  BY DEF Distinct, n
<1>7. \A i, j \in 1..m : t[i] = t[j] => i = j
  BY DEF Distinct, m
<1>8. n = m
  <2>0. half \in 1..half
    BY <1>4
  <2>. DEFINE last == 2 * half - 1
  <2>1. s[last] = t[last] /\ s[RightOf(n, half)] = t[RightOf(m, half)]
    BY <1>5, <2>0
  <2>2. CASE n = 2 * half - 1 /\ m = 2 * half
    <3>1. RightOf(n, half) = last /\ RightOf(m, half) = last + 1
      BY <1>0, <1>4, <2>2 DEF RightOf
    <3>2. last \in 1..m /\ last + 1 \in 1..m /\ last # last + 1
      BY <1>0, <1>4, <2>2
    <3>. HIDE DEF last
    <3>. QED  BY <1>7, <2>1, <3>1, <3>2
  <2>3. CASE n = 2 * half /\ m = 2 * half - 1
    <3>1. RightOf(n, half) = last + 1 /\ RightOf(m, half) = last
      BY <1>0, <1>4, <2>3 DEF RightOf
    <3>2. last \in 1..n /\ last + 1 \in 1..n /\ last # last + 1
      BY <1>0, <1>4, <2>3
    <3>. HIDE DEF last
    <3>. QED  BY <1>6, <2>1, <3>1, <3>2
  <2>. QED  BY <1>0, <1>4, <2>2, <2>3
<1>9. ASSUME NEW i \in 1..n
      PROVE  s[i] = t[i]
  <2>. DEFINE k == (i + 1) \div 2
  <2>1. k \in 1..half /\ (i = 2 * k - 1 \/ (i = 2 * k /\ 2 * k <= n))
    BY <1>4
  <2>. HIDE DEF k
  <2>2. CASE i = 2 * k - 1
    BY <1>5, <2>1, <2>2
  <2>3. CASE i = 2 * k /\ 2 * k <= n
    <3>1. RightOf(n, k) = i /\ RightOf(m, k) = i
      BY <1>8, <2>3 DEF RightOf
    <3>. QED  BY <1>5, <2>1, <3>1
  <2>. QED  BY <2>1, <2>2, <2>3
<1>. QED  BY <1>8, <1>9 DEF SameSequence, n, m

(* Down from one root the levels are the same as far as both trees go; the *)
(* lower one then ends in leaves, so the other ends there too.             *)
LEMMA HigherTreeSame ==
    ASSUME NEW A, IsSequence(A), A # <<>>, Distinct(A),
           NEW B, IsSequence(B), B # <<>>, Distinct(B),
           \A i \in 1..Len(B) : LeafTerm(B[i]),
           MerkleRoot(A) = MerkleRoot(B), Height(A) >= Height(B)
    PROVE  SameSequence(A, B)
<1>. DEFINE HA == Height(A)
            HB == Height(B)
            LA == Levels(A)
            LB == Levels(B)
<1>1. /\ HA \in 0..Len(A) /\ HB \in 0..Len(B) /\ Len(A) \in Nat /\ Len(B) \in Nat
      /\ HA \in Nat /\ HB \in Nat /\ HA >= HB
  BY HeightIs, SequenceFacts
<1>2. Len(LA[HA]) = 1 /\ Len(LB[HB]) = 1 /\ LA[HA][1] = LB[HB][1]
  BY RootIs
<1>3. /\ LA[0] = A /\ \A d \in 1..HA : LA[d] = Pairs(Paired(LA[d - 1]))
      /\ LB[0] = B /\ \A d \in 1..HB : LB[d] = Pairs(Paired(LB[d - 1]))
  BY <1>1, LevelsAre
<1>4. ASSUME NEW d \in 0..HA
      PROVE  IsSequence(LA[d]) /\ Distinct(LA[d]) /\ Len(LA[d]) >= 1
  <2>1. d \in 0..Len(A)
    BY <1>1
  <2>2. IsSequence(LA[d]) /\ Len(LA[d]) >= 1
    BY <2>1, LevelFacts
  <2>3. Distinct(LA[d])
    BY <2>1, LevelsDistinct
  <2>. QED  BY <2>2, <2>3
<1>5. ASSUME NEW d \in 0..HB
      PROVE  IsSequence(LB[d]) /\ Distinct(LB[d]) /\ Len(LB[d]) >= 1
  <2>1. d \in 0..Len(B)
    BY <1>1
  <2>2. IsSequence(LB[d]) /\ Len(LB[d]) >= 1
    BY <2>1, LevelFacts
  <2>3. Distinct(LB[d])
    BY <2>1, LevelsDistinct
  <2>. QED  BY <2>2, <2>3
<1>6. ASSUME NEW d \in 1..HA, NEW i \in 1..Len(LA[d])
      PROVE  \E a, b : LA[d][i] = Node(a, b)
  <2>. DEFINE below == LA[d - 1]
  <2>1. LA[d][i] = Node(below[2 * i - 1], below[RightOf(Len(below), i)])
    BY LevelUp
  <2>. HIDE DEF below
  <2>. QED  BY <2>1
<1>. DEFINE Same(j) == SameSequence(LA[HA - j], LB[HB - j])
            S == {j \in Nat : j <= HB => Same(j)}
<1>. HIDE DEF HA, HB, LA, LB
<1>7. 0 \in S
  <2>1. HA - 0 = HA /\ HB - 0 = HB
    BY <1>1
  <2>2. SameSequence(LA[HA], LB[HB])
    BY <1>2 DEF SameSequence
  <2>. QED  BY <2>1, <2>2
<1>8. ASSUME NEW j \in Nat, j \in S
      PROVE  j + 1 \in S
  <2>. SUFFICES ASSUME j + 1 <= HB PROVE Same(j + 1)
    OBVIOUS
  <2>. DEFINE c == HA - j
              d == HB - j
  <2>1. /\ c \in 1..HA /\ d \in 1..HB /\ c - 1 = HA - (j + 1) /\ d - 1 = HB - (j + 1)
        /\ c - 1 \in 0..HA /\ d - 1 \in 0..HB
    BY <1>1
  <2>2. SameSequence(LA[c], LB[d])
    BY <1>1, <1>8
  <2>. HIDE DEF c, d
  <2>3. SameSequence(Pairs(Paired(LA[c - 1])), Pairs(Paired(LB[d - 1])))
    BY <1>3, <2>1, <2>2
  <2>4. SameSequence(LA[c - 1], LB[d - 1])
    BY <1>4, <1>5, <2>1, <2>3, PairsFix
  <2>. QED  BY <2>1, <2>4
<1>. HIDE DEF Same, S
<1>9. HB \in S
  BY <1>1, <1>7, <1>8, Induction
<1>10. SameSequence(LA[HA - HB], B)
  <2>1. Same(HB) /\ HB - HB = 0
    BY <1>1, <1>9 DEF S
  <2>. QED  BY <1>3, <2>1 DEF Same
<1>11. CASE HA = HB
  <2>1. HA - HB = 0
    BY <1>1, <1>11
  <2>. QED  BY <1>3, <1>10, <2>1
<1>12. CASE HA # HB
  <2>. DEFINE d == HA - HB
  <2>1. d \in 1..HA /\ d \in 0..HA
    BY <1>1, <1>12
  <2>. HIDE DEF d
  <2>2. Len(LA[d]) \in Nat /\ Len(LA[d]) >= 1
    BY <1>4, <2>1, SequenceFacts
  <2>3. 1 \in 1..Len(LA[d]) /\ 1 \in 1..Len(B) /\ B[1] = LA[d][1]
    BY <1>10, <2>2 DEF SameSequence, d
  <2>4. \E a, b : B[1] = Node(a, b)
    BY <1>6, <2>1, <2>3
  <2>. QED  BY <2>3, <2>4 DEF LeafTerm
<1>. QED  BY <1>11, <1>12

(* One root, one sequence of distinct leaves.                              *)
LEMMA RootFixesLeaves ==
    ASSUME NEW A, IsSequence(A), Distinct(A), \A i \in 1..Len(A) : LeafTerm(A[i]),
           NEW B, IsSequence(B), Distinct(B), \A i \in 1..Len(B) : LeafTerm(B[i]),
           MerkleRoot(A) = MerkleRoot(B)
    PROVE  SameSequence(A, B)
<1>1. CASE A = <<>> \/ B = <<>>
  <2>1. A = <<>> /\ B = <<>>
    <3>1. A = <<>> => MerkleRoot(A) = ZeroHash
      BY DEF MerkleRoot
    <3>2. B = <<>> => MerkleRoot(B) = ZeroHash
      BY DEF MerkleRoot
    <3>. QED  BY <1>1, <3>1, <3>2, RootOfTurns
  <2>2. A = B
    BY <2>1
  <2>. QED  BY <2>2 DEF SameSequence
<1>2. CASE A # <<>> /\ B # <<>>
  <2>1. Height(A) \in Int /\ Height(B) \in Int
    BY HeightIs, SequenceFacts
  <2>2. CASE Height(A) >= Height(B)
    BY <1>2, <2>2, HigherTreeSame
  <2>3. CASE Height(B) >= Height(A)
    <3>1. SameSequence(B, A)
      BY <1>2, <2>3, HigherTreeSame
    <3>. QED  BY <3>1 DEF SameSequence
  <2>. QED  BY <2>1, <2>2, <2>3
<1>. QED  BY <1>1, <1>2

-----------------------------------------------------------------------------
(* The path of a position leads to the root. *)

(* A path with one more step tells twice as many leaves apart.             *)
LEMMA ReachIs ==
    /\ DOMAIN Reach = 0..MaxPath /\ Reach[0] = 1
    /\ \A k \in 1..MaxPath :
         Reach[k] = 2 * Reach[k - 1]
<1>. DEFINE first == 1
            Step(k, v) == 2 * v
            Up(g, n) == [k \in 0..n |-> IF k = 0 THEN first ELSE Step(k, g[k - 1])]
            S == {n \in Nat : \E g : g = Up(g, n)}
            f == Reach
<1>1. f = CHOOSE g : g = Up(g, MaxPath)
  BY DEF Reach
<1>. HIDE DEF first, Step, f
<1>2. 0 \in S
  <2>1. [k \in 0..0 |-> first] = Up([k \in 0..0 |-> first], 0)
    OBVIOUS
  <2>. HIDE DEF Up
  <2>. QED  BY <2>1
<1>3. ASSUME NEW n \in Nat, n \in S
      PROVE  n + 1 \in S
  <2>1. PICK g : g = Up(g, n)
    BY <1>3
  <2>. DEFINE h == [k \in 0..(n + 1) |-> IF k = n + 1 THEN Step(n + 1, g[n]) ELSE g[k]]
  <2>2. \A k \in 0..(n + 1) : h[k] = IF k = 0 THEN first ELSE Step(k, h[k - 1])
    <3>. TAKE k \in 0..(n + 1)
    <3>1. CASE k = n + 1
      <4>1. h[k] = Step(n + 1, g[n]) /\ h[k - 1] = g[n] /\ k # 0
        BY <3>1
      <4>. HIDE DEF h
      <4>. QED  BY <3>1, <4>1
    <3>2. CASE k # n + 1
      <4>1. k \in 0..n /\ h[k] = g[k] /\ (k # 0 => h[k - 1] = g[k - 1])
        BY <3>2
      <4>. HIDE DEF h
      <4>. QED  BY <2>1, <4>1
    <3>. QED  BY <3>1, <3>2
  <2>3. h = Up(h, n + 1)
    BY <2>2
  <2>. HIDE DEF h, Up
  <2>. QED  BY <2>3
<1>. HIDE DEF S
<1>4. MaxPath \in S
  BY <1>2, <1>3, Induction, PathAssumption
<1>5. \E g : g = Up(g, MaxPath)
  BY <1>4 DEF S
<1>. HIDE DEF Up
<1>6. f = Up(f, MaxPath)
  BY <1>1, <1>5
<1>7. f = [k \in 0..MaxPath |-> IF k = 0 THEN first ELSE Step(k, f[k - 1])]
  BY <1>6 DEF Up
<1>8. DOMAIN f = 0..MaxPath
  BY <1>7
<1>9. \A k \in 0..MaxPath : f[k] = IF k = 0 THEN first ELSE Step(k, f[k - 1])
  BY <1>7
<1>10. MaxPath \in Nat
  BY PathAssumption
<1>11. f[0] = first /\ \A k \in 1..MaxPath : f[k] = Step(k, f[k - 1])
  BY <1>9, <1>10
<1>. QED  BY <1>8, <1>11 DEF f, first, Step

LEMMA ReachTyped ==
    \A k \in 0..MaxPath : Reach[k] \in Nat
<1>. DEFINE R == Reach
            M == MaxPath
            T == {k \in Nat : k <= M => R[k] \in Nat}
<1>1. M \in Nat
  BY PathAssumption
<1>2. R[0] = 1 /\ \A k \in 1..M : R[k] = 2 * R[k - 1]
  BY ReachIs
<1>. HIDE DEF R, M
<1>3. 0 \in T
  BY <1>2
<1>4. ASSUME NEW k \in Nat, k \in T
      PROVE  k + 1 \in T
  <2>. SUFFICES ASSUME k + 1 <= M PROVE R[k + 1] \in Nat
    OBVIOUS
  <2>1. k + 1 \in 1..M /\ (k + 1) - 1 = k /\ k <= M
    BY <1>1
  <2>2. R[k + 1] = 2 * R[k] /\ R[k] \in Nat
    BY <1>2, <1>4, <2>1
  <2>. QED  BY <2>2
<1>. HIDE DEF T
<1>5. \A k \in Nat : k \in T
  BY <1>3, <1>4, Induction
<1>. QED  BY <1>1, <1>5 DEF T, R, M

(* The paths of a tree are as long as they have to be.                     *)
LEMMA HeightReached ==
    ASSUME NEW leaves, IsSequence(leaves), Len(leaves) <= Reach[MaxPath]
    PROVE  Height(leaves) <= MaxPath
<1>. DEFINE N == Len(leaves)
            M == MaxPath
            H == Height(leaves)
            L == Levels(leaves)
            R == Reach
            S == {d \in Nat : d <= N /\ d <= M => Len(L[d]) <= R[M - d]}
<1>1. N \in Nat /\ M \in Nat /\ H \in 0..N /\ N <= R[M]
  BY SequenceFacts, PathAssumption, HeightIs
<1>2. R[0] = 1 /\ \A k \in 1..M : R[k] = 2 * R[k - 1]
  BY ReachIs
<1>3. \A k \in 0..M : R[k] \in Nat
  BY ReachTyped
<1>4. L[0] = leaves /\ \A d \in 1..N : L[d] = Pairs(Paired(L[d - 1]))
  BY <1>1, LevelsAre
<1>5. ASSUME NEW d \in 0..N
      PROVE  /\ Len(L[d]) \in Nat
             /\ Len(Pairs(Paired(L[d]))) = (Len(L[d]) + 1) \div 2
  <2>1. IsSequence(L[d])
    BY LevelFacts
  <2>. HIDE DEF L
  <2>. QED  BY <2>1, SequenceFacts, PairsAre
<1>6. H = 0 \/ \A c \in 0..(H - 1) : Len(L[c]) > 1
  BY HeightIs
<1>. HIDE DEF M, H, R, L
<1>7. 0 \in S
  <2>1. M - 0 = M /\ Len(L[0]) = N
    BY <1>1, <1>4
  <2>. QED  BY <1>1, <2>1
<1>. HIDE DEF N
<1>8. ASSUME NEW d \in Nat, d \in S
      PROVE  d + 1 \in S
  <2>. SUFFICES ASSUME d + 1 <= N, d + 1 <= M PROVE Len(L[d + 1]) <= R[M - (d + 1)]
    OBVIOUS
  <2>. DEFINE r == M - d
  <2>1. /\ d \in 0..N /\ d + 1 \in 1..N /\ (d + 1) - 1 = d
        /\ r \in 1..M /\ r - 1 \in 0..M /\ r - 1 = M - (d + 1)
    BY <1>1
  <2>2. Len(L[d]) <= R[r]
    BY <1>1, <1>8, <2>1
  <2>. HIDE DEF r
  <2>. DEFINE n == Len(L[d])
              w == R[r - 1]
  <2>3. n <= 2 * w /\ n \in Nat /\ w \in Nat
    BY <1>2, <1>3, <1>5, <2>1, <2>2
  <2>4. Len(L[d + 1]) = (n + 1) \div 2
    BY <1>4, <1>5, <2>1
  <2>. HIDE DEF n, w
  <2>5. (n + 1) \div 2 <= w
    BY <2>3
  <2>. QED  BY <2>1, <2>4, <2>5 DEF w
<1>. HIDE DEF S
<1>9. M \in S
  BY <1>1, <1>7, <1>8, Induction
<1>10. SUFFICES ASSUME M < H PROVE FALSE
  BY <1>1 DEF M, H
<1>11. M <= N /\ M - M = 0 /\ M \in 0..(H - 1) /\ M \in 0..N /\ H # 0
  BY <1>1, <1>10
<1>12. Len(L[M]) <= 1
  BY <1>1, <1>2, <1>9, <1>11 DEF S
<1>13. Len(L[M]) > 1 /\ Len(L[M]) \in Nat
  BY <1>5, <1>6, <1>11
<1>. QED  BY <1>12, <1>13

(* A place in a level is half of the place below it.                       *)
LEMMA ShiftedIs ==
    ASSUME NEW index
    PROVE  /\ DOMAIN Shifted(index) = 0..MaxPath /\ Shifted(index)[0] = index
           /\ \A k \in 1..MaxPath :
                Shifted(index)[k] = Shifted(index)[k - 1] \div 2
<1>. DEFINE first == index
            Step(k, v) == v \div 2
            Up(g, n) == [k \in 0..n |-> IF k = 0 THEN first ELSE Step(k, g[k - 1])]
            S == {n \in Nat : \E g : g = Up(g, n)}
            f == Shifted(index)
<1>1. f = CHOOSE g : g = Up(g, MaxPath)
  BY DEF Shifted
<1>. HIDE DEF first, Step, f
<1>2. 0 \in S
  <2>1. [k \in 0..0 |-> first] = Up([k \in 0..0 |-> first], 0)
    OBVIOUS
  <2>. HIDE DEF Up
  <2>. QED  BY <2>1
<1>3. ASSUME NEW n \in Nat, n \in S
      PROVE  n + 1 \in S
  <2>1. PICK g : g = Up(g, n)
    BY <1>3
  <2>. DEFINE h == [k \in 0..(n + 1) |-> IF k = n + 1 THEN Step(n + 1, g[n]) ELSE g[k]]
  <2>2. \A k \in 0..(n + 1) : h[k] = IF k = 0 THEN first ELSE Step(k, h[k - 1])
    <3>. TAKE k \in 0..(n + 1)
    <3>1. CASE k = n + 1
      <4>1. h[k] = Step(n + 1, g[n]) /\ h[k - 1] = g[n] /\ k # 0
        BY <3>1
      <4>. HIDE DEF h
      <4>. QED  BY <3>1, <4>1
    <3>2. CASE k # n + 1
      <4>1. k \in 0..n /\ h[k] = g[k] /\ (k # 0 => h[k - 1] = g[k - 1])
        BY <3>2
      <4>. HIDE DEF h
      <4>. QED  BY <2>1, <4>1
    <3>. QED  BY <3>1, <3>2
  <2>3. h = Up(h, n + 1)
    BY <2>2
  <2>. HIDE DEF h, Up
  <2>. QED  BY <2>3
<1>. HIDE DEF S
<1>4. MaxPath \in S
  BY <1>2, <1>3, Induction, PathAssumption
<1>5. \E g : g = Up(g, MaxPath)
  BY <1>4 DEF S
<1>. HIDE DEF Up
<1>6. f = Up(f, MaxPath)
  BY <1>1, <1>5
<1>7. f = [k \in 0..MaxPath |-> IF k = 0 THEN first ELSE Step(k, f[k - 1])]
  BY <1>6 DEF Up
<1>8. DOMAIN f = 0..MaxPath
  BY <1>7
<1>9. \A k \in 0..MaxPath : f[k] = IF k = 0 THEN first ELSE Step(k, f[k - 1])
  BY <1>7
<1>10. MaxPath \in Nat
  BY PathAssumption
<1>11. f[0] = first /\ \A k \in 1..MaxPath : f[k] = Step(k, f[k - 1])
  BY <1>9, <1>10
<1>. QED  BY <1>8, <1>11 DEF f, first, Step

LEMMA ShiftedTyped ==
    ASSUME NEW index \in Nat
    PROVE  \A k \in 0..MaxPath : Shifted(index)[k] \in Nat
<1>. DEFINE R == Shifted(index)
            M == MaxPath
            T == {k \in Nat : k <= M => R[k] \in Nat}
<1>1. M \in Nat
  BY PathAssumption
<1>2. R[0] = index /\ \A k \in 1..M : R[k] = R[k - 1] \div 2
  BY ShiftedIs
<1>. HIDE DEF R, M
<1>3. 0 \in T
  BY <1>2
<1>4. ASSUME NEW k \in Nat, k \in T
      PROVE  k + 1 \in T
  <2>. SUFFICES ASSUME k + 1 <= M PROVE R[k + 1] \in Nat
    OBVIOUS
  <2>1. k + 1 \in 1..M /\ (k + 1) - 1 = k /\ k <= M
    BY <1>1
  <2>2. R[k + 1] = R[k] \div 2 /\ R[k] \in Nat
    BY <1>2, <1>4, <2>1
  <2>. QED  BY <2>2
<1>. HIDE DEF T
<1>5. \A k \in Nat : k \in T
  BY <1>3, <1>4, Induction
<1>. QED  BY <1>1, <1>5 DEF T, R, M

(* The path of a position leads from its leaf to the root.                 *)
LEMMA ClimbToRoot ==
    ASSUME NEW leaves, IsSequence(leaves), Height(leaves) <= MaxPath,
           NEW pos \in Nat, pos < Len(leaves)
    PROVE  LET path == PathOf(leaves, pos)
           IN  /\ Len(path) = Height(leaves) /\ Oriented(pos, path)
               /\ Climb(leaves[pos + 1], path)[Len(path)] = MerkleRoot(leaves)
<1>. DEFINE N == Len(leaves)
            H == Height(leaves)
            L == Levels(leaves)
            P == Shifted(pos)
            path == PathOf(leaves, pos)
            at == Climb(leaves[pos + 1], path)
<1>1. N \in Nat /\ H \in 0..N /\ H \in Nat /\ DOMAIN leaves = 1..N
  BY SequenceFacts, HeightIs
<1>2. /\ DOMAIN path = 1..H /\ path = [k \in 1..H |-> path[k]]
      /\ \A k \in 1..H : path[k] =
           [sibling |-> Paired(L[k - 1])[IF P[k - 1] % 2 = 1 THEN P[k - 1]
                                         ELSE P[k - 1] + 2],
            isLeft |-> P[k - 1] % 2 = 1]
  BY DEF PathOf
<1>3. \A k \in 1..H : /\ path[k].isLeft = (P[k - 1] % 2 = 1)
                      /\ path[k].sibling =
                           Paired(L[k - 1])[IF P[k - 1] % 2 = 1 THEN P[k - 1]
                                            ELSE P[k - 1] + 2]
  BY <1>2
<1>4. Oriented(pos, path)
  BY <1>2, <1>3 DEF Oriented, BitSet
<1>. HIDE DEF path
<1>5. Len(path) = H
  BY <1>1, <1>2, SequenceIs
<1>6. /\ at[0] = leaves[pos + 1]
      /\ \A k \in 1..H : at[k] = IF path[k].isLeft THEN Node(path[k].sibling, at[k - 1])
                                 ELSE Node(at[k - 1], path[k].sibling)
  BY <1>1, <1>5, ClimbIs
<1>7. P[0] = pos /\ \A k \in 1..H : P[k] = P[k - 1] \div 2 /\ P[k - 1] \in Nat
  <2>1. MaxPath \in Nat
    BY PathAssumption
  <2>2. \A k \in 1..H : k \in 1..MaxPath /\ k - 1 \in 0..MaxPath
    BY <1>1, <2>1
  <2>. QED  BY <2>2, ShiftedIs, ShiftedTyped
<1>8. L[0] = leaves /\ \A k \in 1..H : L[k] = Pairs(Paired(L[k - 1]))
  <2>1. L[0] = leaves /\ \A d \in 1..N : L[d] = Pairs(Paired(L[d - 1]))
    BY <1>1, LevelsAre
  <2>. QED  BY <1>1, <2>1
<1>9. ASSUME NEW k \in 0..H
      PROVE  IsSequence(L[k])
  <2>1. k \in 0..Len(leaves)
    BY <1>1
  <2>. QED  BY <2>1, LevelFacts
<1>10. Len(L[H]) <= 1
  BY HeightIs
<1>. DEFINE On(k) == P[k] \in Nat /\ P[k] < Len(L[k]) /\ at[k] = L[k][P[k] + 1]
            S == {k \in Nat : k <= H => On(k)}
<1>. HIDE DEF H, L, P, at
<1>11. 0 \in S
  <2>1. On(0)
    BY <1>6, <1>7, <1>8
  <2>. QED  BY <2>1
<1>. HIDE DEF N
<1>12. ASSUME NEW k \in Nat, k \in S
       PROVE  k + 1 \in S
  <2>. SUFFICES ASSUME k + 1 <= H PROVE On(k + 1)
    OBVIOUS
  <2>1. k \in 0..H /\ k + 1 \in 1..H /\ (k + 1) - 1 = k /\ k <= H
    BY <1>1
  <2>. DEFINE below == L[k]
              n == Len(below)
              p == P[k]
              q == p \div 2
              half == (n + 1) \div 2
  <2>2. p \in Nat /\ p < n /\ at[k] = below[p + 1]
    BY <1>12, <2>1
  <2>3. IsSequence(below) /\ n \in Nat
    BY <1>9, <2>1, SequenceFacts
  <2>4. P[k + 1] = q /\ L[k + 1] = Pairs(Paired(below))
    BY <1>7, <1>8, <2>1
  <2>5. /\ path[k + 1].isLeft = (p % 2 = 1)
        /\ path[k + 1].sibling = Paired(below)[IF p % 2 = 1 THEN p ELSE p + 2]
    BY <1>3, <2>1
  <2>6. at[k + 1] = IF path[k + 1].isLeft THEN Node(path[k + 1].sibling, at[k])
                    ELSE Node(at[k], path[k + 1].sibling)
    BY <1>6, <2>1
  <2>. HIDE DEF below
  <2>7. /\ Len(Pairs(Paired(below))) = half
        /\ \A i \in 1..half : Pairs(Paired(below))[i]
                                = Node(below[2 * i - 1], below[RightOf(n, i)])
    BY <2>3, PairsAre
  <2>8. /\ \A i \in 1..n : Paired(below)[i] = below[i]
        /\ n % 2 = 1 => Paired(below)[n + 1] = below[n]
    BY <2>3, PairedIs
  <2>. HIDE DEF n, p
  <2>9. q \in Nat /\ q < half /\ q + 1 \in 1..half
    BY <2>2, <2>3
  <2>10. Pairs(Paired(below))[q + 1]
           = Node(below[2 * (q + 1) - 1], below[RightOf(n, q + 1)])
    BY <2>7, <2>9
  <2>11. at[k + 1] = Pairs(Paired(below))[q + 1]
    <3>1. CASE p % 2 = 1
      <4>1. /\ 2 * (q + 1) - 1 = p /\ RightOf(n, q + 1) = p + 1 /\ p \in 1..n
        BY <2>2, <2>3, <3>1 DEF RightOf
      <4>2. at[k + 1] = Node(Paired(below)[p], below[p + 1])
        BY <2>2, <2>5, <2>6, <3>1
      <4>3. Paired(below)[p] = below[p]
        BY <2>8, <4>1
      <4>. QED  BY <2>10, <4>1, <4>2, <4>3
    <3>2. CASE p % 2 # 1
      <4>1. 2 * (q + 1) - 1 = p + 1
        BY <2>2, <3>2
      <4>2. at[k + 1] = Node(below[p + 1], Paired(below)[p + 2])
        BY <2>2, <2>5, <2>6, <3>2
      <4>3. Paired(below)[p + 2] = below[RightOf(n, q + 1)]
        <5>1. CASE p + 2 <= n
          <6>1. p + 2 \in 1..n /\ RightOf(n, q + 1) = p + 2
            BY <2>2, <2>3, <3>2, <5>1 DEF RightOf
          <6>. QED  BY <2>8, <6>1
        <5>2. CASE ~(p + 2 <= n)
          <6>1. n % 2 = 1 /\ p + 2 = n + 1 /\ RightOf(n, q + 1) = n
            BY <2>2, <2>3, <3>2, <5>2 DEF RightOf
          <6>. QED  BY <2>8, <6>1
        <5>. QED  BY <5>1, <5>2
      <4>. QED  BY <2>10, <4>1, <4>2, <4>3
    <3>. QED  BY <3>1, <3>2
  <2>. HIDE DEF q, half
  <2>. QED  BY <2>4, <2>7, <2>9, <2>11
<1>. HIDE DEF On, S
<1>13. H \in S
  BY <1>1, <1>11, <1>12, Induction
<1>14. P[H] \in Nat /\ P[H] < Len(L[H]) /\ at[H] = L[H][P[H] + 1]
  BY <1>1, <1>13 DEF S, On
<1>15. Len(L[H]) \in Nat
  BY <1>1, <1>9, SequenceFacts
<1>16. P[H] + 1 = 1
  BY <1>10, <1>14, <1>15
<1>17. leaves # <<>>
  BY SequenceFacts
<1>18. MerkleRoot(leaves) = L[H][1]
  BY <1>17, RootIs DEF L, H
<1>. QED  BY <1>4, <1>5, <1>14, <1>16, <1>18 DEF at, path, H

-----------------------------------------------------------------------------
(* The inductive invariant of a channel. *)

(* Turns have the fields their version hashes, and the signature of their  *)
(* own place.                                                              *)
TurnsRecorded ==
    /\ turns \in Seq(Turn)
    /\ Len(turns) <= MaxRecorded
    /\ \A i \in DOMAIN turns : LeafDefined(turns[i]) /\ turns[i].sig = i

(* The agent signed a receipt over what had been recorded by then.         *)
RootSigned(root, ts) ==
    \E n \in 0..Len(ts) : root = MerkleRoot(LeavesOf(SubSeq(ts, 1, n)))

ReceiptSigned ==
    receipt # NoReceipt => RootSigned(receipt.root, turns) /\ receipt.gn \in Nat

TranscriptDecoded == received # NoTurns => IsSequence(received)

(* What WorkIsCountedOnce and PinnedPolicyHolds say of a settlement.       *)
Counted(s, ts) ==
    \E n \in 0..Len(ts) :
        /\ s.root = MerkleRoot(LeavesOf(SubSeq(ts, 1, n)))
        /\ \E f \in [DOMAIN s.items -> 1..n] :
            /\ \A i \in DOMAIN s.items : Leaf(ts[f[i]]) = Leaf(s.items[i].turn)
            /\ \A i, j \in DOMAIN s.items : ts[f[i]].index = ts[f[j]].index => i = j
            /\ Work([i \in DOMAIN s.items |-> ts[f[i]].gn])[Len(s.items)] = s.gn

UnderPolicy(s, ts) ==
    s.pinned # 0 =>
        \A i \in DOMAIN s.items :
            \E k \in DOMAIN ts : /\ Leaf(ts[k]) = Leaf(s.items[i].turn)
                                 /\ ts[k].version >= 2 /\ ts[k].policy = s.pinned

Settlement == settled # Rejected => Counted(settled, turns) /\ UnderPolicy(settled, turns)

ChannelInv == TurnsRecorded /\ ReceiptSigned /\ TranscriptDecoded /\ Settlement

-----------------------------------------------------------------------------
(* Turns and their leaves. *)

LEMMA LeafIsTerm ==
    ASSUME NEW t
    PROVE  LeafTerm(Leaf(t))
<1>1. "leaf" \in DOMAIN Leaf(t) /\ "leaf" \notin DOMAIN ZeroHash
  BY DEF Leaf, ZeroHash
<1>2. \A l, r : "leaf" \notin DOMAIN Node(l, r)
  BY DEF Node
<1>. QED  BY <1>1, <1>2 DEF LeafTerm

LEMMA LeafFixesTurn ==
    ASSUME NEW t, NEW u, Leaf(t) = Leaf(u)
    PROVE  /\ t.version = u.version /\ t.index = u.index /\ t.io = u.io /\ t.gn = u.gn
           /\ t.policy = u.policy /\ t.ids = u.ids /\ t.toploc = u.toploc
           /\ t.time = u.time
<1>1. Leaf(t).leaf = Leaf(u).leaf
  OBVIOUS
<1>2. \A k \in 1..8 : Leaf(t).leaf[k] = Leaf(u).leaf[k]
  BY <1>1
<1>. QED  BY <1>2 DEF Leaf

LEMMA LeavesAre ==
    ASSUME NEW ts, IsSequence(ts)
    PROVE  /\ IsSequence(LeavesOf(ts)) /\ Len(LeavesOf(ts)) = Len(ts)
           /\ \A i \in 1..Len(ts) : LeavesOf(ts)[i] = Leaf(ts[i])
<1>1. Len(ts) \in Nat /\ DOMAIN ts = 1..Len(ts)
  BY SequenceFacts
<1>. DEFINE s == LeavesOf(ts)
<1>2. s = [i \in 1..Len(ts) |-> Leaf(ts[i])]
  BY <1>1 DEF LeavesOf
<1>. HIDE DEF s
<1>3. DOMAIN s = 1..Len(ts) /\ s = [i \in 1..Len(ts) |-> s[i]]
  BY <1>2
<1>4. IsSequence(s) /\ Len(s) = Len(ts)
  BY <1>1, <1>3, SequenceIs
<1>. QED  BY <1>2, <1>4 DEF s

LEMMA RecordedLeaves ==
    ASSUME TurnsRecorded
    PROVE  LET leaves == LeavesOf(turns)
           IN  /\ Len(turns) \in Nat /\ DOMAIN turns = 1..Len(turns)
               /\ IsSequence(turns)
               /\ IsSequence(leaves) /\ Len(leaves) = Len(turns)
               /\ \A i \in 1..Len(turns) : /\ leaves[i] = Leaf(turns[i])
                                           /\ LeafTerm(leaves[i])
                                           /\ turns[i] \in Turn
<1>1. turns \in Seq(Turn)
  BY DEF TurnsRecorded
<1>2. /\ IsSequence(turns) /\ DOMAIN turns = 1..Len(turns) /\ Len(turns) \in Nat
      /\ \A i \in 1..Len(turns) : turns[i] \in Turn
  BY <1>1, IsSequenceOf, LenProperties, ElementOfSeq
<1>. DEFINE leaves == LeavesOf(turns)
<1>3. /\ IsSequence(leaves) /\ Len(leaves) = Len(turns)
      /\ \A i \in 1..Len(turns) : leaves[i] = Leaf(turns[i])
  BY <1>2, LeavesAre
<1>. HIDE DEF leaves
<1>4. \A i \in 1..Len(turns) : LeafTerm(leaves[i])
  BY <1>3, LeafIsTerm
<1>. QED  BY <1>2, <1>3, <1>4 DEF leaves

(* A recorded turn keeps its place.                                        *)
LEMMA MoreTurns ==
    ASSUME NEW S, NEW ts \in Seq(S), NEW t \in S
    PROVE  LET new == Append(ts, t)
           IN  /\ new \in Seq(S) /\ Len(new) = Len(ts) + 1 /\ Len(ts) \in Nat
               /\ DOMAIN ts = 1..Len(ts) /\ DOMAIN new = 1..(Len(ts) + 1)
               /\ \A i \in 1..Len(ts) : new[i] = ts[i]
               /\ new[Len(ts) + 1] = t
               /\ \A n \in 0..Len(ts) : SubSeq(new, 1, n) = SubSeq(ts, 1, n)
<1>. DEFINE new == Append(ts, t)
<1>1. /\ new \in Seq(S) /\ Len(new) = Len(ts) + 1 /\ Len(ts) \in Nat
      /\ DOMAIN ts = 1..Len(ts) /\ new[Len(ts) + 1] = t
      /\ \A i \in 1..Len(ts) : new[i] = ts[i] /\ ts[i] \in S
  BY AppendProperties, LenProperties, ElementOfSeq
<1>. HIDE DEF new
<1>2. DOMAIN new = 1..(Len(ts) + 1)
  BY <1>1, LenProperties
<1>3. ASSUME NEW n \in 0..Len(ts)
      PROVE  SubSeq(new, 1, n) = SubSeq(ts, 1, n)
  <2>1. /\ n \in Int /\ n \in Nat
        /\ \A i \in 1..n : new[i] = ts[i] /\ ts[i] \in S /\ new[i] \in S
    BY <1>1
  <2>2. /\ SubSeq(new, 1, n) \in Seq(S) /\ SubSeq(ts, 1, n) \in Seq(S)
        /\ Len(SubSeq(new, 1, n)) = (IF 1 <= n THEN n - 1 + 1 ELSE 0)
        /\ Len(SubSeq(ts, 1, n)) = (IF 1 <= n THEN n - 1 + 1 ELSE 0)
        /\ \A i \in 1..(n - 1 + 1) : SubSeq(new, 1, n)[i] = new[1 + i - 1]
        /\ \A i \in 1..(n - 1 + 1) : SubSeq(ts, 1, n)[i] = ts[1 + i - 1]
    BY <2>1, SubSeqProperties
  <2>. DEFINE a == SubSeq(new, 1, n)
              b == SubSeq(ts, 1, n)
  <2>3. /\ a \in Seq(S) /\ b \in Seq(S) /\ Len(a) = n /\ Len(b) = n
    BY <2>1, <2>2
  <2>4. \A i \in 1..n : 1 + i - 1 = i /\ n - 1 + 1 = n
    BY <2>1
  <2>5. \A i \in 1..n : a[i] = b[i]
    BY <2>1, <2>2, <2>4
  <2>. HIDE DEF a, b
  <2>6. a = b
    BY <2>3, <2>5, SeqEqual
  <2>. QED  BY <2>6 DEF a, b
<1>. QED  BY <1>1, <1>2, <1>3 DEF new

LEMMA FirstTurns ==
    ASSUME NEW S, NEW ts \in Seq(S), NEW n \in 0..Len(ts)
    PROVE  LET first == SubSeq(ts, 1, n)
           IN  /\ first \in Seq(S) /\ Len(first) = n
               /\ \A i \in 1..n : first[i] = ts[i]
<1>1. Len(ts) \in Nat /\ n \in Int /\ \A i \in 1..n : ts[i] \in S
  BY LenProperties, ElementOfSeq
<1>2. /\ SubSeq(ts, 1, n) \in Seq(S)
      /\ Len(SubSeq(ts, 1, n)) = (IF 1 <= n THEN n - 1 + 1 ELSE 0)
      /\ \A i \in 1..(n - 1 + 1) : SubSeq(ts, 1, n)[i] = ts[1 + i - 1]
  BY <1>1, SubSeqProperties
<1>3. \A i \in 1..n : 1 + i - 1 = i /\ n - 1 + 1 = n
  BY <1>1
<1>. QED  BY <1>1, <1>2, <1>3

LEMMA NumberedTurn ==
    ASSUME NEW t \in Turn, LeafDefined(t), NEW index \in Nat
    PROVE  Numbered(t, index) \in Turn /\ LeafDefined(Numbered(t, index))
<1>. DEFINE u == Numbered(t, index)
<1>1. u \in Turn
  BY DEF Turn, Numbered
<1>2. /\ u.version = t.version /\ u.policy = t.policy
      /\ u.ids = t.ids /\ u.toploc = t.toploc /\ u.time = t.time
  BY DEF Turn, Numbered
<1>. HIDE DEF u
<1>3. LeafDefined(u)
  BY <1>2 DEF LeafDefined
<1>. QED  BY <1>1, <1>3 DEF u

LEMMA SignedTurn ==
    ASSUME NEW t \in Turn, LeafDefined(t), NEW n \in Nat
    PROVE  Signed(t, n) \in Turn /\ LeafDefined(Signed(t, n)) /\ Signed(t, n).sig = n
<1>. DEFINE u == Signed(t, n)
<1>1. u \in Turn /\ u.sig = n
  BY DEF Turn, Signed
<1>2. /\ u.version = t.version /\ u.policy = t.policy
      /\ u.ids = t.ids /\ u.toploc = t.toploc /\ u.time = t.time
  BY DEF Turn, Signed
<1>. HIDE DEF u
<1>3. LeafDefined(u)
  BY <1>2 DEF LeafDefined
<1>. QED  BY <1>1, <1>3 DEF u

LEMMA RecordedTurn ==
    ASSUME ChannelAssumption, NEW ts \in Seq(Turn), Len(ts) < MaxRecorded,
           \A i \in DOMAIN ts : LeafDefined(ts[i]) /\ ts[i].sig = i,
           NEW t \in Turn, LeafDefined(t), t.sig = Len(ts) + 1
    PROVE  LET new == Append(ts, t)
           IN  /\ new \in Seq(Turn) /\ Len(new) <= MaxRecorded
               /\ \A i \in DOMAIN new : LeafDefined(new[i]) /\ new[i].sig = i
<1>. DEFINE new == Append(ts, t)
<1>1. /\ new \in Seq(Turn) /\ Len(new) = Len(ts) + 1 /\ Len(ts) \in Nat
      /\ DOMAIN ts = 1..Len(ts) /\ DOMAIN new = 1..(Len(ts) + 1)
      /\ \A i \in 1..Len(ts) : new[i] = ts[i]
      /\ new[Len(ts) + 1] = t
  BY MoreTurns
<1>. HIDE DEF new
<1>2. Len(new) <= MaxRecorded
  BY <1>1 DEF ChannelAssumption
<1>3. ASSUME NEW i \in DOMAIN new
      PROVE  LeafDefined(new[i]) /\ new[i].sig = i
  <2>1. i \in 1..Len(ts) \/ i = Len(ts) + 1
    BY <1>1
  <2>2. CASE i \in 1..Len(ts)
    BY <1>1, <2>2
  <2>3. CASE i = Len(ts) + 1
    BY <1>1, <2>3
  <2>. QED  BY <2>1, <2>2, <2>3
<1>. QED  BY <1>1, <1>2, <1>3 DEF new

-----------------------------------------------------------------------------
(* A transcript is a sequence of numbers, and decodes to a sequence. *)

(* A turn as it is read, whose work need not fit.                          *)
ReadableTurn == [version : Nat, index : Nat, io : Nat, gn : Nat, policy : Nat,
                 ids : Nat, toploc : Nat, time : Nat, sig : Nat, ack : Nat]

LEMMA TurnIsReadable ==
    ASSUME ChannelAssumption, NEW t \in Turn
    PROVE  t \in ReadableTurn
<1>1. 0..MaxGn \subseteq Nat /\ 0..3 \subseteq Nat
  BY DEF ChannelAssumption
<1>. QED  BY <1>1 DEF Turn, ReadableTurn

LEMMA TurnsAreReadable ==
    ASSUME ChannelAssumption, NEW ts \in Seq(Turn)
    PROVE  ts \in Seq(ReadableTurn)
<1>1. Turn \subseteq ReadableTurn
  BY TurnIsReadable
<1>. HIDE DEF Turn
<1>. QED  BY <1>1

(* The fields of an encoded turn and their places.                         *)
LEMMA TurnEncodes ==
    ASSUME NEW t \in ReadableTurn
    PROVE  LET e == EncodeTurn(t)
               a == IF t.policy = 0 THEN 5 ELSE 6
           IN  /\ e \in Seq(Nat) /\ Len(e) = IF t.ack = 0 THEN a + 5 ELSE a + 6
               /\ e[1] = t.version /\ e[2] = t.index /\ e[3] = t.io /\ e[4] = t.gn
               /\ e[5] = (IF t.policy = 0 THEN 0 ELSE 1)
               /\ t.policy # 0 => e[6] = t.policy
               /\ e[a + 1] = t.ids /\ e[a + 2] = t.toploc
               /\ e[a + 3] = t.time /\ e[a + 4] = t.sig
               /\ e[a + 5] = (IF t.ack = 0 THEN 0 ELSE 1)
               /\ t.ack # 0 => e[a + 6] = t.ack - 1
<1>. DEFINE first == <<t.version, t.index, t.io, t.gn>>
            pol == Optional(t.policy)
            mid == <<t.ids, t.toploc, t.time, t.sig>>
            ack == Acknowledged(t.ack)
            a == IF t.policy = 0 THEN 5 ELSE 6
            c == IF t.ack = 0 THEN 1 ELSE 2
            one == first \o pol
            two == one \o mid
            e == two \o ack
<1>0. /\ t.version \in Nat /\ t.index \in Nat /\ t.io \in Nat /\ t.gn \in Nat
      /\ t.policy \in Nat /\ t.ids \in Nat /\ t.toploc \in Nat /\ t.time \in Nat
      /\ t.sig \in Nat /\ t.ack \in Nat
  BY DEF ReadableTurn
<1>1. /\ first \in Seq(Nat) /\ Len(first) = 4
      /\ first[1] = t.version /\ first[2] = t.index /\ first[3] = t.io /\ first[4] = t.gn
  BY <1>0
<1>2. /\ pol \in Seq(Nat) /\ Len(pol) = a - 4
      /\ pol[1] = IF t.policy = 0 THEN 0 ELSE 1
      /\ t.policy # 0 => pol[2] = t.policy
  <2>1. CASE t.policy = 0
    BY <1>0, <2>1 DEF Optional
  <2>2. CASE t.policy # 0
    BY <1>0, <2>2 DEF Optional
  <2>. QED  BY <2>1, <2>2
<1>3. /\ mid \in Seq(Nat) /\ Len(mid) = 4
      /\ mid[1] = t.ids /\ mid[2] = t.toploc /\ mid[3] = t.time /\ mid[4] = t.sig
  BY <1>0
<1>4. /\ ack \in Seq(Nat) /\ Len(ack) = c
      /\ ack[1] = IF t.ack = 0 THEN 0 ELSE 1
      /\ t.ack # 0 => ack[2] = t.ack - 1
  <2>1. CASE t.ack = 0
    BY <2>1 DEF Acknowledged
  <2>2. CASE t.ack # 0
    <3>1. t.ack - 1 \in Nat
      BY <1>0, <2>2
    <3>. QED  BY <2>2, <3>1 DEF Acknowledged
  <2>. QED  BY <2>1, <2>2
<1>. HIDE DEF first, pol, mid, ack
<1>5. /\ one \in Seq(Nat) /\ Len(one) = a
      /\ \A i \in 1..4 : one[i] = first[i]
      /\ \A i \in 1..(a - 4) : one[4 + i] = pol[i]
  <2>0. /\ one \in Seq(Nat) /\ Len(one) = Len(first) + Len(pol)
        /\ \A i \in 1..(Len(first) + Len(pol)) :
             one[i] = IF i <= Len(first) THEN first[i] ELSE pol[i - Len(first)]
    BY <1>1, <1>2, ConcatProperties
  <2>. HIDE DEF one
  <2>1. /\ one \in Seq(Nat) /\ Len(one) = 4 + (a - 4)
        /\ \A i \in 1..(4 + (a - 4)) :
             one[i] = IF i <= 4 THEN first[i] ELSE pol[i - 4]
    BY <2>0, <1>1, <1>2
  <2>2. a \in {5, 6} /\ 4 + (a - 4) = a
    OBVIOUS
  <2>. HIDE DEF a
  <2>3. ASSUME NEW i \in 1..(a - 4)
        PROVE  one[4 + i] = pol[i]
    <3>1. 4 + i \in 1..(4 + (a - 4)) /\ ~(4 + i <= 4) /\ (4 + i) - 4 = i
      BY <2>2
    <3>. QED  BY <2>1, <3>1
  <2>4. \A i \in 1..4 : one[i] = first[i]
    BY <2>1, <2>2
  <2>. QED  BY <2>1, <2>2, <2>3, <2>4
<1>6. a \in {5, 6} /\ c \in {1, 2}
  OBVIOUS
<1>. HIDE DEF one
<1>7. /\ two \in Seq(Nat) /\ Len(two) = a + 4
      /\ \A i \in 1..a : two[i] = one[i]
      /\ \A i \in 1..4 : two[a + i] = mid[i]
  <2>0. /\ two \in Seq(Nat) /\ Len(two) = Len(one) + Len(mid)
        /\ \A i \in 1..(Len(one) + Len(mid)) :
             two[i] = IF i <= Len(one) THEN one[i] ELSE mid[i - Len(one)]
    BY <1>3, <1>5, ConcatProperties
  <2>. HIDE DEF two
  <2>1. /\ two \in Seq(Nat) /\ Len(two) = a + 4
        /\ \A i \in 1..(a + 4) :
             two[i] = IF i <= a THEN one[i] ELSE mid[i - a]
    BY <2>0, <1>3, <1>5
  <2>. HIDE DEF a
  <2>2. ASSUME NEW i \in 1..4
        PROVE  two[a + i] = mid[i]
    <3>1. a + i \in 1..(a + 4) /\ ~(a + i <= a) /\ (a + i) - a = i
      BY <1>6
    <3>. QED  BY <2>1, <3>1
  <2>3. \A i \in 1..a : two[i] = one[i]
    BY <1>6, <2>1
  <2>. QED  BY <2>1, <2>2, <2>3
<1>. HIDE DEF two
<1>8. /\ e \in Seq(Nat) /\ Len(e) = a + 4 + c
      /\ \A i \in 1..(a + 4) : e[i] = two[i]
      /\ \A i \in 1..c : e[a + 4 + i] = ack[i]
  <2>0. /\ e \in Seq(Nat) /\ Len(e) = Len(two) + Len(ack)
        /\ \A i \in 1..(Len(two) + Len(ack)) :
             e[i] = IF i <= Len(two) THEN two[i] ELSE ack[i - Len(two)]
    BY <1>4, <1>7, ConcatProperties
  <2>. HIDE DEF e
  <2>1. /\ e \in Seq(Nat) /\ Len(e) = (a + 4) + c
        /\ \A i \in 1..((a + 4) + c) :
             e[i] = IF i <= a + 4 THEN two[i] ELSE ack[i - (a + 4)]
    BY <2>0, <1>4, <1>7
  <2>. HIDE DEF a, c
  <2>2. ASSUME NEW i \in 1..c
        PROVE  e[a + 4 + i] = ack[i]
    <3>1. /\ a + 4 + i \in 1..((a + 4) + c) /\ ~(a + 4 + i <= a + 4)
          /\ (a + 4 + i) - (a + 4) = i
      BY <1>6
    <3>. QED  BY <2>1, <3>1
  <2>3. \A i \in 1..(a + 4) : e[i] = two[i]
    BY <1>6, <2>1
  <2>. QED  BY <2>1, <2>2, <2>3
<1>9. EncodeTurn(t) = e
  BY DEF EncodeTurn, first, pol, mid, ack, one, two
<1>. HIDE DEF e
<1>10. /\ e[1] = t.version /\ e[2] = t.index /\ e[3] = t.io /\ e[4] = t.gn
       /\ e[5] = (IF t.policy = 0 THEN 0 ELSE 1)
       /\ t.policy # 0 => e[6] = t.policy
  <2>1. \A i \in 1..a : e[i] = one[i]
    BY <1>6, <1>7, <1>8
  <2>2. e[1] = first[1] /\ e[2] = first[2] /\ e[3] = first[3] /\ e[4] = first[4]
    BY <1>5, <1>6, <2>1
  <2>3. 1 \in 1..(a - 4) /\ 5 \in 1..a /\ 4 + 1 = 5
    BY <1>6
  <2>4. e[5] = pol[1]
    BY <1>5, <2>1, <2>3
  <2>5. ASSUME t.policy # 0
        PROVE  e[6] = pol[2]
    <3>1. 2 \in 1..(a - 4) /\ 6 \in 1..a /\ 4 + 2 = 6
      BY <2>5
    <3>. QED  BY <1>5, <2>1, <3>1
  <2>. QED  BY <1>1, <1>2, <2>2, <2>4, <2>5
<1>11. /\ e[a + 1] = t.ids /\ e[a + 2] = t.toploc
       /\ e[a + 3] = t.time /\ e[a + 4] = t.sig
  <2>. HIDE DEF a
  <2>1. \A i \in 1..4 : a + i \in 1..(a + 4)
    BY <1>6
  <2>2. \A i \in 1..4 : e[a + i] = mid[i]
    BY <1>7, <1>8, <2>1
  <2>. QED  BY <1>3, <2>2
<1>12. /\ e[a + 5] = (IF t.ack = 0 THEN 0 ELSE 1)
       /\ t.ack # 0 => e[a + 6] = t.ack - 1
  <2>. HIDE DEF a
  <2>1. a + 4 + 1 = a + 5 /\ a + 4 + 2 = a + 6 /\ 1 \in 1..c /\ (t.ack # 0 => 2 \in 1..c)
    BY <1>6
  <2>2. e[a + 5] = ack[1] /\ (t.ack # 0 => e[a + 6] = ack[2])
    BY <1>8, <2>1
  <2>. QED  BY <1>4, <2>2
<1>13. Len(e) = IF t.ack = 0 THEN a + 5 ELSE a + 6
  BY <1>6, <1>8
<1>. QED  BY <1>8, <1>9, <1>10, <1>11, <1>12, <1>13

(* A transcript of more turns is that of fewer and one more turn.          *)
LEMMA SentIs ==
    ASSUME NEW ts, Len(ts) \in Nat
    PROVE  /\ DOMAIN Sent(ts) = 0..Len(ts) /\ Sent(ts)[0] = <<Len(ts)>>
           /\ \A k \in 1..Len(ts) :
                Sent(ts)[k] = Sent(ts)[k - 1] \o EncodeTurn(ts[k])
<1>. DEFINE first == <<Len(ts)>>
            Step(k, v) == v \o EncodeTurn(ts[k])
            Up(g, n) == [k \in 0..n |-> IF k = 0 THEN first ELSE Step(k, g[k - 1])]
            S == {n \in Nat : \E g : g = Up(g, n)}
            f == Sent(ts)
<1>1. f = CHOOSE g : g = Up(g, Len(ts))
  BY DEF Sent
<1>. HIDE DEF first, Step, f
<1>2. 0 \in S
  <2>1. [k \in 0..0 |-> first] = Up([k \in 0..0 |-> first], 0)
    OBVIOUS
  <2>. HIDE DEF Up
  <2>. QED  BY <2>1
<1>3. ASSUME NEW n \in Nat, n \in S
      PROVE  n + 1 \in S
  <2>1. PICK g : g = Up(g, n)
    BY <1>3
  <2>. DEFINE h == [k \in 0..(n + 1) |-> IF k = n + 1 THEN Step(n + 1, g[n]) ELSE g[k]]
  <2>2. \A k \in 0..(n + 1) : h[k] = IF k = 0 THEN first ELSE Step(k, h[k - 1])
    <3>. TAKE k \in 0..(n + 1)
    <3>1. CASE k = n + 1
      <4>1. h[k] = Step(n + 1, g[n]) /\ h[k - 1] = g[n] /\ k # 0
        BY <3>1
      <4>. HIDE DEF h
      <4>. QED  BY <3>1, <4>1
    <3>2. CASE k # n + 1
      <4>1. k \in 0..n /\ h[k] = g[k] /\ (k # 0 => h[k - 1] = g[k - 1])
        BY <3>2
      <4>. HIDE DEF h
      <4>. QED  BY <2>1, <4>1
    <3>. QED  BY <3>1, <3>2
  <2>3. h = Up(h, n + 1)
    BY <2>2
  <2>. HIDE DEF h, Up
  <2>. QED  BY <2>3
<1>. HIDE DEF S
<1>4. Len(ts) \in S
  BY <1>2, <1>3, Induction
<1>5. \E g : g = Up(g, Len(ts))
  BY <1>4 DEF S
<1>. HIDE DEF Up
<1>6. f = Up(f, Len(ts))
  BY <1>1, <1>5
<1>7. f = [k \in 0..Len(ts) |-> IF k = 0 THEN first ELSE Step(k, f[k - 1])]
  BY <1>6 DEF Up
<1>8. DOMAIN f = 0..Len(ts)
  BY <1>7
<1>9. \A k \in 0..Len(ts) : f[k] = IF k = 0 THEN first ELSE Step(k, f[k - 1])
  BY <1>7
<1>10. Len(ts) \in Nat
  OBVIOUS
<1>11. f[0] = first /\ \A k \in 1..Len(ts) : f[k] = Step(k, f[k - 1])
  BY <1>9, <1>10
<1>. QED  BY <1>8, <1>11 DEF f, first, Step

LEMMA SentTyped ==
    ASSUME NEW ts \in Seq(ReadableTurn)
    PROVE  \A i \in 0..Len(ts) : Sent(ts)[i] \in Seq(Nat) /\ Len(Sent(ts)[i]) >= 1
<1>. DEFINE N == Len(ts)
            sent == Sent(ts)
            Good(i) == sent[i] \in Seq(Nat) /\ Len(sent[i]) >= 1
            S == {i \in Nat : i <= N => Good(i)}
<1>1. N \in Nat /\ \A i \in 1..N : ts[i] \in ReadableTurn
  BY LenProperties, ElementOfSeq
<1>2. sent[0] = <<N>> /\ \A i \in 1..N : sent[i] = sent[i - 1] \o EncodeTurn(ts[i])
  BY <1>1, SentIs
<1>. HIDE DEF N, sent
<1>3. 0 \in S
  <2>1. <<N>> \in Seq(Nat) /\ Len(<<N>>) = 1
    BY <1>1
  <2>2. Good(0)
    BY <1>2, <2>1
  <2>. QED  BY <2>2
<1>4. ASSUME NEW i \in Nat, i \in S
      PROVE  i + 1 \in S
  <2>. SUFFICES ASSUME i + 1 <= N PROVE Good(i + 1)
    OBVIOUS
  <2>1. i + 1 \in 1..N /\ (i + 1) - 1 = i /\ i <= N
    BY <1>1
  <2>2. sent[i + 1] = sent[i] \o EncodeTurn(ts[i + 1]) /\ Good(i)
    BY <1>2, <1>4, <2>1
  <2>. DEFINE e == EncodeTurn(ts[i + 1])
  <2>3. e \in Seq(Nat)
    BY <1>1, <2>1, TurnEncodes
  <2>. HIDE DEF e
  <2>4. Len(sent[i] \o e) = Len(sent[i]) + Len(e) /\ Len(e) \in Nat /\ Len(sent[i]) \in Nat
    BY <2>2, <2>3, ConcatProperties, LenProperties
  <2>5. sent[i] \o e \in Seq(Nat)
    BY <2>2, <2>3, ConcatProperties
  <2>6. sent[i + 1] = sent[i] \o e
    BY <2>2 DEF e
  <2>7. Len(sent[i]) + Len(e) >= 1
    BY <2>2, <2>4
  <2>. QED  BY <2>4, <2>5, <2>6, <2>7
<1>. HIDE DEF S
<1>5. \A i \in Nat : i \in S
  BY <1>3, <1>4, Induction
<1>. QED  BY <1>1, <1>5 DEF S, N, sent

(* A transcript, also an altered one, is a sequence of numbers.            *)
LEMMA TranscriptsTyped ==
    ASSUME ChannelAssumption, NEW ts \in Seq(Turn), NEW data \in Transcripts(ts)
    PROVE  data \in Seq(Nat)
<1>. DEFINE sent == Encode(ts)
<1>1. sent \in Seq(Nat) /\ Len(sent) >= 1
  <2>1. Len(ts) \in 0..Len(ts)
    BY LenProperties
  <2>2. ts \in Seq(ReadableTurn)
    BY TurnsAreReadable
  <2>. QED  BY <2>1, <2>2, SentTyped DEF Encode
<1>2. \/ data = sent
      \/ data = Front(sent)
      \/ \E f \in Fields : data = Append(sent, f)
      \/ \E k \in DOMAIN sent, f \in Fields : data = [sent EXCEPT ![k] = f]
  BY DEF Transcripts
<1>. HIDE DEF sent
<1>3. Fields \subseteq Nat
  BY DEF ChannelAssumption
<1>4. Front(sent) \in Seq(Nat)
  <2>1. Len(sent) \in Nat /\ 1 \in Int /\ Len(sent) - 1 \in Int
    BY <1>1, LenProperties
  <2>2. \A i \in 1..(Len(sent) - 1) : sent[i] \in Nat
    BY <1>1, <2>1, ElementOfSeq
  <2>. QED  BY <1>1, <2>1, <2>2, SubSeqProperties DEF Front
<1>5. ASSUME NEW k \in DOMAIN sent, NEW f \in Fields
      PROVE  [sent EXCEPT ![k] = f] \in Seq(Nat)
  BY <1>1, <1>3, ExceptSeq
<1>6. ASSUME NEW f \in Fields
      PROVE  Append(sent, f) \in Seq(Nat)
  BY <1>1, <1>3, AppendProperties
<1>. QED  BY <1>1, <1>2, <1>4, <1>5, <1>6

(* What decode_fcc4_transcript returns, if it does not raise.              *)
LEMMA Decoded ==
    ASSUME ChannelAssumption, NEW data \in Seq(Nat), Decode(data) # NoTurns
    PROVE  /\ data # <<>> /\ data[1] \in Nat /\ data[1] <= MaxTurns
           /\ Reading(data)[data[1]].next = Len(data) + 1
           /\ IsSequence(Decode(data)) /\ Len(Decode(data)) = data[1]
           /\ \A i \in 1..data[1] : Decode(data)[i] = Reading(data)[i].turn
<1>1. /\ data # <<>> /\ ~(data[1] > MaxTurns)
      /\ Reading(data)[data[1]].next = Len(data) + 1
      /\ Decode(data) = [i \in 1..data[1] |-> Reading(data)[i].turn]
  BY DEF Decode
<1>2. data[1] \in Nat
  BY <1>1, EmptySeq, LenProperties, ElementOfSeq
<1>. DEFINE ts == Decode(data)
            n == data[1]
<1>3. /\ DOMAIN ts = 1..n /\ ts = [i \in 1..n |-> ts[i]]
      /\ \A i \in 1..n : ts[i] = Reading(data)[i].turn
  BY <1>1
<1>. HIDE DEF ts, n
<1>4. IsSequence(ts) /\ Len(ts) = n
  BY <1>2, <1>3, SequenceIs DEF n
<1>5. n <= MaxTurns
  BY <1>1, <1>2 DEF ChannelAssumption, n
<1>. QED  BY <1>1, <1>2, <1>3, <1>4, <1>5 DEF ts, n

-----------------------------------------------------------------------------
(* What verify_receipt accepts was recorded before the agent signed. *)

(* A submission is a sequence of proofs with finite paths.                 *)
LEMMA SubmissionFacts ==
    ASSUME ChannelAssumption, TranscriptDecoded, NEW items \in Submissions
    PROVE  /\ IsSequence(items)
           /\ \A i \in DOMAIN items : Len(items[i].path) \in Nat
<1>1. CASE received \in {NoTurns, <<>>}
  <2>1. items = <<>>
    BY <1>1 DEF Submissions
  <2>2. items \in Seq({})
    BY <2>1
  <2>3. IsSequence(items)
    BY <2>2, IsSequenceOf
  <2>4. DOMAIN items = {}
    BY <2>1
  <2>. QED  BY <2>3, <2>4
<1>2. CASE received \notin {NoTurns, <<>>}
  <2>. DEFINE leaves == LeavesOf(received)
              usable == {x \in Items(received) :
                \E q \in Policies :
                    TurnProofOk(x.turn, x.at, x.path, receipt.root, q)}
  <2>1. items \in {s \in UNION {[1..n -> usable] : n \in 0..MaxRecorded} : Increasing(s)}
    BY <1>2 DEF Submissions
  <2>2. PICK n \in 0..MaxRecorded : items \in [1..n -> usable]
    BY <2>1
  <2>3. IsSequence(leaves)
    BY <1>2, LeavesAre DEF TranscriptDecoded
  <2>4. Height(leaves) \in Nat
    BY <2>3, HeightIs, SequenceFacts
  <2>5. ASSUME NEW x \in usable
        PROVE  Len(x.path) \in Nat
    <3>. DEFINE paths == {PathOf(leaves, p) : p \in 0..(Len(Paired(leaves)) - 1)}
    <3>1. x.path \in paths
      <4>1. x \in Items(received)
        OBVIOUS
      <4>2. PICK i \in 0..(MaxTurns - 1), path \in paths, j \in DOMAIN received :
                   x = [at |-> i, turn |-> received[j], path |-> path]
        BY <4>1 DEF Items
      <4>. HIDE DEF paths
      <4>. QED  BY <4>2
    <3>2. PICK p : x.path = PathOf(leaves, p)
      BY <3>1
    <3>. DEFINE e == PathOf(leaves, p)
                h == Height(leaves)
    <3>3. DOMAIN e = 1..h /\ e = [k \in 1..h |-> e[k]]
      BY DEF PathOf
    <3>. HIDE DEF e, h
    <3>4. Len(e) = h
      BY <2>4, <3>3, SequenceIs DEF h
    <3>. QED  BY <2>4, <3>2, <3>4 DEF e, h
  <2>6. n \in Nat /\ DOMAIN items = 1..n /\ items = [i \in 1..n |-> items[i]]
    BY <2>2 DEF ChannelAssumption
  <2>7. IsSequence(items)
    BY <2>6, SequenceIs
  <2>. HIDE DEF usable
  <2>8. \A i \in DOMAIN items : Len(items[i].path) \in Nat
    BY <2>2, <2>5, <2>6
  <2>. QED  BY <2>7, <2>8
<1>. QED  BY <1>1, <1>2

(* A proof that leads to the root over the first turns is of one of them.  *)
LEMMA ProofIsOfTurn ==
    ASSUME TurnsRecorded, NEW n \in 0..Len(turns), NEW t, NEW path, Len(path) \in Nat,
           NEW index, NEW pinned,
           TurnProofOk(t, index, path, MerkleRoot(LeavesOf(SubSeq(turns, 1, n))), pinned)
    PROVE  \E k \in 1..n : Leaf(turns[k]) = Leaf(t)
<1>. DEFINE first == SubSeq(turns, 1, n)
            leaves == LeavesOf(first)
<1>1. first \in Seq(Turn) /\ Len(first) = n /\ \A k \in 1..n : first[k] = turns[k]
  BY FirstTurns DEF TurnsRecorded
<1>2. IsSequence(first)
  BY <1>1, IsSequenceOf
<1>. HIDE DEF first
<1>3. /\ IsSequence(leaves) /\ Len(leaves) = n
      /\ \A k \in 1..n : leaves[k] = Leaf(first[k])
  BY <1>1, <1>2, LeavesAre
<1>. HIDE DEF leaves
<1>4. \A k \in 1..Len(leaves) : LeafTerm(leaves[k])
  BY <1>3, LeafIsTerm
<1>5. Climb(Leaf(t), path)[Len(path)] = MerkleRoot(leaves)
  BY DEF TurnProofOk, PathLeadsTo, leaves, first
<1>6. PICK k \in 1..Len(leaves) : leaves[k] = Leaf(t)
  BY <1>3, <1>4, <1>5, LeafIsTerm, ClimbSound
<1>. QED  BY <1>1, <1>3, <1>6

(* What verified_work_from_turns accepts: the proofs go to as many turns   *)
(* of the signed root, by the turn index, and the sums are equal term by   *)
(* term.                                                                   *)
LEMMA AcceptedIsRecorded ==
    ASSUME ChannelAssumption, TurnsRecorded, NEW n \in 0..Len(turns),
           NEW root, root = MerkleRoot(LeavesOf(SubSeq(turns, 1, n))),
           NEW items, IsSequence(items),
           \A i \in DOMAIN items : Len(items[i].path) \in Nat,
           NEW gn \in Nat, NEW pinned, VerifiedWork(items, root, gn, pinned) # Rejected,
           NEW s, s = [items |-> items, root |-> root, gn |-> gn, pinned |-> pinned]
    PROVE  Counted(s, turns) /\ UnderPolicy(s, turns)
<1>0. s.items = items /\ s.root = root /\ s.gn = gn /\ s.pinned = pinned
  OBVIOUS
<1>1. /\ DistinctTurns(items) /\ Total(items) = gn
      /\ \A i \in DOMAIN items :
           TurnProofOk(items[i].turn, items[i].at, items[i].path, root, pinned)
  BY DEF VerifiedWork
<1>2. /\ Len(turns) \in Nat /\ DOMAIN turns = 1..Len(turns) /\ n \in Nat
      /\ \A k \in 1..n : k \in DOMAIN turns
  BY LenProperties DEF TurnsRecorded
<1>3. \A i \in DOMAIN items : \E k \in 1..n : Leaf(turns[k]) = Leaf(items[i].turn)
  BY <1>1, ProofIsOfTurn
<1>. DEFINE f == [i \in DOMAIN items |->
                    CHOOSE k \in 1..n : Leaf(turns[k]) = Leaf(items[i].turn)]
            gns == [i \in DOMAIN items |-> turns[f[i]].gn]
<1>4. /\ f \in [DOMAIN items -> 1..n]
      /\ \A i \in DOMAIN items : Leaf(turns[f[i]]) = Leaf(items[i].turn)
  BY <1>3
<1>. HIDE DEF f
<1>5. \A i \in DOMAIN items : /\ turns[f[i]].index = items[i].turn.index
                              /\ turns[f[i]].gn = items[i].turn.gn
                              /\ turns[f[i]].version = items[i].turn.version
                              /\ turns[f[i]].policy = items[i].turn.policy
  BY <1>4, LeafFixesTurn
<1>6. \A i, j \in DOMAIN items : turns[f[i]].index = turns[f[j]].index => i = j
  BY <1>1, <1>5 DEF DistinctTurns
<1>7. gns = GnsOf(items)
  BY <1>5 DEF GnsOf
<1>8. Work(gns)[Len(items)] = gn
  <2>1. gn # Rejected
    BY DEF ChannelAssumption
  <2>2. Work(GnsOf(items))[Len(items)] = gn
    BY <1>1, <2>1 DEF Total
  <2>. HIDE DEF gns
  <2>. QED  BY <1>7, <2>2
<1>9. Counted(s, turns)
  <2>. DEFINE Right(g) == /\ \A i \in DOMAIN items : Leaf(turns[g[i]]) = Leaf(items[i].turn)
                          /\ \A i, j \in DOMAIN items :
                               turns[g[i]].index = turns[g[j]].index => i = j
                          /\ Work([i \in DOMAIN items |-> turns[g[i]].gn])[Len(items)] = gn
  <2>1. Right(f)
    BY <1>4, <1>6, <1>8
  <2>. HIDE DEF Right
  <2>2. \E g \in [DOMAIN items -> 1..n] : Right(g)
    BY <1>4, <2>1
  <2>3. \E m \in 0..Len(turns) :
            /\ root = MerkleRoot(LeavesOf(SubSeq(turns, 1, m)))
            /\ \E g \in [DOMAIN items -> 1..m] : Right(g)
    BY <2>2
  <2>. QED  BY <1>0, <2>3 DEF Counted, Right
<1>10. UnderPolicy(s, turns)
  <2>1. ASSUME pinned # 0, NEW i \in DOMAIN items
        PROVE  \E k \in DOMAIN turns : /\ Leaf(turns[k]) = Leaf(items[i].turn)
                                       /\ turns[k].version >= 2 /\ turns[k].policy = pinned
    <3>1. f[i] \in DOMAIN turns /\ Leaf(turns[f[i]]) = Leaf(items[i].turn)
      BY <1>2, <1>4
    <3>2. PolicyOk(items[i].turn, pinned) /\ LeafDefined(items[i].turn)
      BY <1>1 DEF TurnProofOk
    <3>3. items[i].turn.version \in {2, 3} /\ items[i].turn.policy = pinned
      BY <2>1, <3>2 DEF PolicyOk, LeafDefined
    <3>4. turns[f[i]].version >= 2 /\ turns[f[i]].policy = pinned
      BY <1>5, <3>3
    <3>. QED  BY <3>1, <3>4
  <2>. QED  BY <1>0, <2>1 DEF UnderPolicy
<1>. QED  BY <1>9, <1>10

-----------------------------------------------------------------------------
(* Every step keeps the invariant. *)

LEMMA RootStaysSigned ==
    ASSUME NEW ts \in Seq(Turn), NEW t \in Turn, NEW root, RootSigned(root, ts)
    PROVE  RootSigned(root, Append(ts, t))
<1>. DEFINE new == Append(ts, t)
<1>1. PICK n \in 0..Len(ts) : root = MerkleRoot(LeavesOf(SubSeq(ts, 1, n)))
  BY DEF RootSigned
<1>2. n \in 0..Len(new) /\ SubSeq(new, 1, n) = SubSeq(ts, 1, n)
  BY MoreTurns
<1>. HIDE DEF new
<1>3. root = MerkleRoot(LeavesOf(SubSeq(new, 1, n)))
  BY <1>1, <1>2
<1>. QED  BY <1>2, <1>3 DEF RootSigned, new

LEMMA StaysSettled ==
    ASSUME NEW ts \in Seq(Turn), NEW t \in Turn, NEW s, Counted(s, ts), UnderPolicy(s, ts)
    PROVE  Counted(s, Append(ts, t)) /\ UnderPolicy(s, Append(ts, t))
<1>. DEFINE new == Append(ts, t)
<1>1. /\ Len(new) = Len(ts) + 1 /\ Len(ts) \in Nat /\ DOMAIN ts = 1..Len(ts)
      /\ DOMAIN new = 1..(Len(ts) + 1)
      /\ \A i \in 1..Len(ts) : new[i] = ts[i]
      /\ \A n \in 0..Len(ts) : SubSeq(new, 1, n) = SubSeq(ts, 1, n)
  BY MoreTurns
<1>. HIDE DEF new
<1>. DEFINE D == DOMAIN s.items
            Right(u, g) == /\ \A i \in D : Leaf(u[g[i]]) = Leaf(s.items[i].turn)
                           /\ \A i, j \in D : u[g[i]].index = u[g[j]].index => i = j
                           /\ Work([i \in D |-> u[g[i]].gn])[Len(s.items)] = s.gn
<1>2. Counted(s, new)
  <2>1. PICK n \in 0..Len(ts) :
          /\ s.root = MerkleRoot(LeavesOf(SubSeq(ts, 1, n)))
          /\ \E g \in [D -> 1..n] : Right(ts, g)
    BY DEF Counted
  <2>. HIDE DEF Right
  <2>2. PICK g \in [D -> 1..n] : Right(ts, g)
    BY <2>1
  <2>3. \A i \in D : new[g[i]] = ts[g[i]]
    BY <1>1, <2>2
  <2>4. [i \in D |-> new[g[i]].gn] = [i \in D |-> ts[g[i]].gn]
    BY <2>3
  <2>5. Right(new, g)
    <3>1. \A i \in D : Leaf(new[g[i]]) = Leaf(s.items[i].turn)
      BY <2>2, <2>3 DEF Right
    <3>2. \A i, j \in D : new[g[i]].index = new[g[j]].index => i = j
      BY <2>2, <2>3 DEF Right
    <3>3. Work([i \in D |-> new[g[i]].gn])[Len(s.items)] = s.gn
      BY <2>2, <2>4 DEF Right
    <3>. QED  BY <3>1, <3>2, <3>3 DEF Right
  <2>6. n \in 0..Len(new)
    BY <1>1
  <2>7. s.root = MerkleRoot(LeavesOf(SubSeq(new, 1, n)))
    BY <1>1, <2>1
  <2>8. \E m \in 0..Len(new) :
          /\ s.root = MerkleRoot(LeavesOf(SubSeq(new, 1, m)))
          /\ \E h \in [D -> 1..m] : Right(new, h)
    BY <2>5, <2>6, <2>7
  <2>. QED  BY <2>8 DEF Counted, Right
<1>3. UnderPolicy(s, new)
  <2>1. ASSUME s.pinned # 0, NEW i \in D
        PROVE  \E k \in DOMAIN new : /\ Leaf(new[k]) = Leaf(s.items[i].turn)
                                     /\ new[k].version >= 2 /\ new[k].policy = s.pinned
    <3>1. PICK k \in DOMAIN ts : /\ Leaf(ts[k]) = Leaf(s.items[i].turn)
                                 /\ ts[k].version >= 2 /\ ts[k].policy = s.pinned
      BY <2>1 DEF UnderPolicy
    <3>2. k \in DOMAIN new /\ new[k] = ts[k]
      BY <1>1
    <3>. QED  BY <3>1, <3>2
  <2>. QED  BY <2>1 DEF UnderPolicy
<1>. QED  BY <1>2, <1>3 DEF new

LEMMA ChannelInvInit ==
    ASSUME ChannelAssumption, ChannelInit
    PROVE  ChannelInv
<1>. USE DEF ChannelInit
<1>1. TurnsRecorded
  <2>1. <<>> \in Seq(Turn) /\ Len(<<>>) = 0 /\ DOMAIN <<>> = {}
    BY EmptySeq
  <2>. QED  BY <2>1 DEF TurnsRecorded, ChannelAssumption
<1>2. ReceiptSigned /\ TranscriptDecoded /\ Settlement
  BY DEF ReceiptSigned, TranscriptDecoded, Settlement
<1>. QED  BY <1>1, <1>2 DEF ChannelInv

(* Every step keeps the invariant.                                         *)
LEMMA ChannelInvNext ==
    ASSUME ChannelAssumption, TemplatesAssumption, ChannelInv, [ChannelNext]_cvars
    PROVE  ChannelInv'
<1>. USE DEF ChannelInv
<1>1. ASSUME NEW template \in Templates, Record(template)
      PROVE  ChannelInv'
  <2>1. /\ Len(turns) < MaxRecorded /\ LeafDefined(template)
        /\ receipt' = receipt /\ received' = received /\ settled' = settled
    BY <1>1 DEF Record
  <2>2. PICK index \in {Len(turns)} \cup {turns[i].index : i \in DOMAIN turns} :
          turns' = Append(turns, Signed(Numbered(template, index), Len(turns) + 1))
    BY <1>1 DEF Record
  <2>. DEFINE t == Signed(Numbered(template, index), Len(turns) + 1)
  <2>3. turns' = Append(turns, t) /\ turns \in Seq(Turn)
    BY <2>2 DEF TurnsRecorded
  <2>4. /\ t \in Turn /\ turns' \in Seq(Turn) /\ Len(turns') <= MaxRecorded
        /\ \A i \in DOMAIN turns' : LeafDefined(turns'[i]) /\ turns'[i].sig = i
    <3>1. /\ Len(turns) \in Nat /\ Len(turns) + 1 \in Nat
          /\ \A i \in DOMAIN turns : turns[i] \in Turn
      BY <2>3, LenProperties, ElementOfSeq
    <3>2. index \in Nat
      BY <3>1 DEF Turn
    <3>3. template \in Turn /\ LeafDefined(template)
      BY <2>1, TemplatesAssumption DEF TemplatesAssumption
    <3>4. Numbered(template, index) \in Turn /\ LeafDefined(Numbered(template, index))
      BY <3>2, <3>3, NumberedTurn
    <3>5. t \in Turn /\ LeafDefined(t) /\ t.sig = Len(turns) + 1
      BY <3>1, <3>4, SignedTurn
    <3>. HIDE DEF t
    <3>6. \A i \in DOMAIN turns : LeafDefined(turns[i]) /\ turns[i].sig = i
      BY DEF TurnsRecorded
    <3>. DEFINE new == Append(turns, t)
    <3>7. /\ new \in Seq(Turn) /\ Len(new) <= MaxRecorded
          /\ \A i \in DOMAIN new : LeafDefined(new[i]) /\ new[i].sig = i
      BY <2>1, <2>3, <3>5, <3>6, RecordedTurn
    <3>. HIDE DEF new
    <3>8. turns' = new
      BY <2>3 DEF new
    <3>. QED  BY <3>5, <3>7, <3>8
  <2>. HIDE DEF t
  <2>5. TurnsRecorded'
    BY <2>4 DEF TurnsRecorded
  <2>6. ReceiptSigned'
    BY <2>1, <2>3, <2>4, RootStaysSigned DEF ReceiptSigned
  <2>7. TranscriptDecoded'
    BY <2>1 DEF TranscriptDecoded
  <2>8. Settlement'
    BY <2>1, <2>3, <2>4, StaysSettled DEF Settlement
  <2>. QED  BY <2>5, <2>6, <2>7, <2>8
<1>2. ASSUME NEW gn \in 0..MaxGn, SignReceipt(gn, 0)
      PROVE  ChannelInv'
  <2>1. /\ turns' = turns /\ received' = received /\ settled' = settled
        /\ receipt' = [root |-> MerkleRoot(LeavesOf(turns)), gn |-> gn, payable |-> 0]
    BY <1>2 DEF SignReceipt
  <2>2. receipt'.root = MerkleRoot(LeavesOf(turns)) /\ receipt'.gn \in Nat
    BY <2>1
  <2>3. Len(turns) \in 0..Len(turns) /\ SubSeq(turns, 1, Len(turns)) = turns
    <3>1. Len(turns) \in 0..Len(turns)
      BY LenProperties DEF TurnsRecorded
    <3>2. turns \in Seq(Turn)
      BY DEF TurnsRecorded
    <3>3. /\ SubSeq(turns, 1, Len(turns)) \in Seq(Turn)
          /\ Len(SubSeq(turns, 1, Len(turns))) = Len(turns)
          /\ \A i \in 1..Len(turns) : SubSeq(turns, 1, Len(turns))[i] = turns[i]
      BY <3>1, <3>2, FirstTurns
    <3>4. SubSeq(turns, 1, Len(turns)) = turns
      BY <3>2, <3>3, SeqEqual
    <3>. QED  BY <3>1, <3>4
  <2>4. RootSigned(receipt'.root, turns)
    BY <2>2, <2>3 DEF RootSigned
  <2>5. ReceiptSigned'
    BY <2>1, <2>2, <2>4 DEF ReceiptSigned
  <2>6. TurnsRecorded' /\ TranscriptDecoded' /\ Settlement'
    BY <2>1 DEF TurnsRecorded, TranscriptDecoded, Settlement
  <2>. QED  BY <2>5, <2>6
<1>3. ASSUME NEW data \in Transcripts(turns), ReceiveTranscript(data)
      PROVE  ChannelInv'
  <2>1. /\ turns' = turns /\ receipt' = receipt /\ settled' = settled
        /\ received' = Decode(data) /\ Decode(data) # NoTurns
    BY <1>3 DEF ReceiveTranscript
  <2>2. data \in Seq(Nat)
    BY TranscriptsTyped DEF TurnsRecorded
  <2>3. TranscriptDecoded'
    BY <2>1, <2>2, Decoded DEF TranscriptDecoded
  <2>4. TurnsRecorded' /\ ReceiptSigned' /\ Settlement'
    BY <2>1 DEF TurnsRecorded, ReceiptSigned, Settlement
  <2>. QED  BY <2>3, <2>4
<1>4. ASSUME receipt # NoReceipt, NEW items \in Submissions, NEW pinned \in Policies,
             Submit(items, pinned)
      PROVE  ChannelInv'
  <2>1. /\ turns' = turns /\ receipt' = receipt /\ received' = received
        /\ settled' = [items |-> items, root |-> receipt.root, gn |-> receipt.gn,
                       pinned |-> pinned]
    BY <1>4 DEF Submit
  <2>2. VerifiedWork(items, receipt.root, receipt.gn, pinned) # Rejected
    BY <1>4 DEF Submit, VerifiedReceipt
  <2>3. IsSequence(items) /\ \A i \in DOMAIN items : Len(items[i].path) \in Nat
    BY SubmissionFacts
  <2>4. receipt.gn \in Nat
    BY <1>4 DEF ReceiptSigned
  <2>5. PICK n \in 0..Len(turns) : receipt.root = MerkleRoot(LeavesOf(SubSeq(turns, 1, n)))
    BY <1>4 DEF ReceiptSigned, RootSigned
  <2>6. Counted(settled', turns) /\ UnderPolicy(settled', turns)
    BY <2>1, <2>2, <2>3, <2>4, <2>5, AcceptedIsRecorded
  <2>7. Settlement'
    BY <2>1, <2>6 DEF Settlement
  <2>8. TurnsRecorded' /\ ReceiptSigned' /\ TranscriptDecoded'
    BY <2>1 DEF TurnsRecorded, ReceiptSigned, TranscriptDecoded
  <2>. QED  BY <2>7, <2>8
<1>5. CASE UNCHANGED cvars
  BY <1>5 DEF cvars, TurnsRecorded, ReceiptSigned, TranscriptDecoded, Settlement
<1>. QED  BY <1>1, <1>2, <1>3, <1>4, <1>5 DEF ChannelNext

(* What is settled was recorded, in every reachable state.                 *)
THEOREM ChannelInvariant ==
    ChannelSpec => []ChannelInv
<1>1. ChannelInit => ChannelInv
  BY ChannelInvInit, ChannelAssumption
<1>2. ChannelInv /\ [ChannelNext]_cvars => ChannelInv'
  BY ChannelInvNext, ChannelAssumption, TemplatesAssumption
<1>. QED  BY <1>1, <1>2, PTL DEF ChannelSpec

(* Accepted work was done once: a settled claim is the sum over turns that *)
(* were recorded before the agent signed, no two of one turn index         *)
(* (compute_channel.py, verified_work_from_turns, verify_receipt).         *)
THEOREM CountedOnce ==
    ChannelSpec => []WorkIsCountedOnce
<1>1. ChannelInv => WorkIsCountedOnce
  BY DEF ChannelInv, Settlement, Counted, WorkIsCountedOnce
<1>. QED  BY <1>1, ChannelInvariant, PTL

(* On a channel with a pinned decode policy every counted turn was         *)
(* recorded under it (compute_channel.py, verify_turn_proof).              *)
THEOREM PolicyIsPinned ==
    ChannelSpec => []PinnedPolicyHolds
<1>1. ChannelInv => PinnedPolicyHolds
  BY DEF ChannelInv, Settlement, UnderPolicy, PinnedPolicyHolds
<1>. QED  BY <1>1, ChannelInvariant, PTL

-----------------------------------------------------------------------------
(* A root is a root over one sequence of turns. *)

LEMMA RootIsOfOne ==
    ASSUME TurnsRecorded
    PROVE  RootBindsTurns
<1>. DEFINE leaves == LeavesOf(turns)
            N == Len(turns)
<1>1. /\ N \in Nat /\ DOMAIN turns = 1..N /\ IsSequence(leaves) /\ Len(leaves) = N
      /\ \A i \in 1..N : LeafTerm(leaves[i])
  BY RecordedLeaves
<1>. HIDE DEF leaves, N
<1>2. ASSUME \A i, j \in 1..N : leaves[i] = leaves[j] => i = j,
             NEW n \in 0..N, NEW f \in Arrangements(n, 1..N),
             MerkleRoot([i \in 1..n |-> leaves[f[i]]]) = MerkleRoot(leaves)
      PROVE  n = N /\ \A i \in 1..n : f[i] = i
  <2>. DEFINE other == [i \in 1..n |-> leaves[f[i]]]
  <2>1. n \in Nat /\ f \in [1..n -> 1..N] /\ \A i, j \in 1..n : f[i] = f[j] => i = j
    BY DEF Arrangements
  <2>2. /\ DOMAIN other = 1..n /\ other = [i \in 1..n |-> other[i]]
        /\ \A i \in 1..n : other[i] = leaves[f[i]]
    OBVIOUS
  <2>3. MerkleRoot(other) = MerkleRoot(leaves)
    BY <1>2
  <2>. HIDE DEF other
  <2>4. IsSequence(other) /\ Len(other) = n
    BY <2>1, <2>2, SequenceIs
  <2>5. \A i \in 1..n : LeafTerm(other[i])
    BY <1>1, <2>1, <2>2
  <2>6. Distinct(other)
    BY <1>2, <2>1, <2>2, <2>4 DEF Distinct
  <2>7. Distinct(leaves)
    BY <1>1, <1>2 DEF Distinct
  <2>8. SameSequence(other, leaves)
    BY <1>1, <2>3, <2>4, <2>5, <2>6, <2>7, RootFixesLeaves
  <2>9. n = N /\ \A i \in 1..n : leaves[f[i]] = leaves[i]
    BY <1>1, <2>2, <2>4, <2>8 DEF SameSequence
  <2>10. \A i \in 1..n : f[i] = i
    BY <1>2, <2>1, <2>9
  <2>. QED  BY <2>9, <2>10
<1>. QED  BY <1>1, <1>2 DEF RootBindsTurns, leaves, N

(* No two sequences of the same distinct turns have one root, although odd *)
(* levels repeat a leaf (crypto.py, compute_merkle_root).                  *)
THEOREM RootBinds ==
    ChannelSpec => []RootBindsTurns
<1>1. ChannelInv => RootBindsTurns
  BY RootIsOfOne DEF ChannelInv
<1>. QED  BY <1>1, ChannelInvariant, PTL

-----------------------------------------------------------------------------
(* The turns of an honest channel are accepted. *)

(* A sum of work is the one before it and the work of one more turn.       *)
LEMMA WorkIs ==
    ASSUME NEW gns, Len(gns) \in Nat
    PROVE  /\ DOMAIN Work(gns) = 0..Len(gns) /\ Work(gns)[0] = 0
           /\ \A k \in 1..Len(gns) :
                Work(gns)[k] = Work(gns)[k - 1] + gns[k]
<1>. DEFINE first == 0
            Step(k, v) == v + gns[k]
            Up(g, n) == [k \in 0..n |-> IF k = 0 THEN first ELSE Step(k, g[k - 1])]
            S == {n \in Nat : \E g : g = Up(g, n)}
            f == Work(gns)
<1>1. f = CHOOSE g : g = Up(g, Len(gns))
  BY DEF Work
<1>. HIDE DEF first, Step, f
<1>2. 0 \in S
  <2>1. [k \in 0..0 |-> first] = Up([k \in 0..0 |-> first], 0)
    OBVIOUS
  <2>. HIDE DEF Up
  <2>. QED  BY <2>1
<1>3. ASSUME NEW n \in Nat, n \in S
      PROVE  n + 1 \in S
  <2>1. PICK g : g = Up(g, n)
    BY <1>3
  <2>. DEFINE h == [k \in 0..(n + 1) |-> IF k = n + 1 THEN Step(n + 1, g[n]) ELSE g[k]]
  <2>2. \A k \in 0..(n + 1) : h[k] = IF k = 0 THEN first ELSE Step(k, h[k - 1])
    <3>. TAKE k \in 0..(n + 1)
    <3>1. CASE k = n + 1
      <4>1. h[k] = Step(n + 1, g[n]) /\ h[k - 1] = g[n] /\ k # 0
        BY <3>1
      <4>. HIDE DEF h
      <4>. QED  BY <3>1, <4>1
    <3>2. CASE k # n + 1
      <4>1. k \in 0..n /\ h[k] = g[k] /\ (k # 0 => h[k - 1] = g[k - 1])
        BY <3>2
      <4>. HIDE DEF h
      <4>. QED  BY <2>1, <4>1
    <3>. QED  BY <3>1, <3>2
  <2>3. h = Up(h, n + 1)
    BY <2>2
  <2>. HIDE DEF h, Up
  <2>. QED  BY <2>3
<1>. HIDE DEF S
<1>4. Len(gns) \in S
  BY <1>2, <1>3, Induction
<1>5. \E g : g = Up(g, Len(gns))
  BY <1>4 DEF S
<1>. HIDE DEF Up
<1>6. f = Up(f, Len(gns))
  BY <1>1, <1>5
<1>7. f = [k \in 0..Len(gns) |-> IF k = 0 THEN first ELSE Step(k, f[k - 1])]
  BY <1>6 DEF Up
<1>8. DOMAIN f = 0..Len(gns)
  BY <1>7
<1>9. \A k \in 0..Len(gns) : f[k] = IF k = 0 THEN first ELSE Step(k, f[k - 1])
  BY <1>7
<1>10. Len(gns) \in Nat
  OBVIOUS
<1>11. f[0] = first /\ \A k \in 1..Len(gns) : f[k] = Step(k, f[k - 1])
  BY <1>9, <1>10
<1>. QED  BY <1>8, <1>11 DEF f, first, Step

(* No sum on the way is more than the last one, so none is refused.        *)
LEMMA WorkGrows ==
    ASSUME NEW gns, Len(gns) \in Nat, \A k \in 1..Len(gns) : gns[k] \in Nat
    PROVE  LET sum == Work(gns)
           IN  \A k \in 0..Len(gns) : sum[k] \in Nat /\ sum[k] <= sum[Len(gns)]
<1>. DEFINE N == Len(gns)
            sum == Work(gns)
            S == {k \in Nat : k <= N => sum[k] \in Nat}
            T == {j \in Nat : j <= N => sum[N - j] <= sum[N]}
<1>1. /\ N \in Nat /\ sum[0] = 0
      /\ \A k \in 1..N : sum[k] = sum[k - 1] + gns[k] /\ gns[k] \in Nat
  BY WorkIs
<1>. HIDE DEF N, sum
<1>2. 0 \in S
  BY <1>1
<1>3. ASSUME NEW k \in Nat, k \in S
      PROVE  k + 1 \in S
  <2>. SUFFICES ASSUME k + 1 <= N PROVE sum[k + 1] \in Nat
    OBVIOUS
  <2>1. k + 1 \in 1..N /\ (k + 1) - 1 = k /\ k <= N
    BY <1>1
  <2>2. sum[k + 1] = sum[k] + gns[k + 1] /\ gns[k + 1] \in Nat /\ sum[k] \in Nat
    BY <1>1, <1>3, <2>1
  <2>. QED  BY <2>2
<1>. HIDE DEF S
<1>4. \A k \in Nat : k \in S
  BY <1>2, <1>3, Induction
<1>5. \A k \in 0..N : sum[k] \in Nat
  BY <1>1, <1>4 DEF S
<1>6. 0 \in T
  <2>1. N - 0 = N /\ sum[N] \in Nat
    BY <1>1, <1>5
  <2>. QED  BY <2>1
<1>7. ASSUME NEW j \in Nat, j \in T
      PROVE  j + 1 \in T
  <2>. SUFFICES ASSUME j + 1 <= N PROVE sum[N - (j + 1)] <= sum[N]
    OBVIOUS
  <2>. DEFINE k == N - j
  <2>1. k \in 1..N /\ k - 1 = N - (j + 1) /\ k - 1 \in 0..N /\ k \in 0..N /\ N \in 0..N
    BY <1>1
  <2>2. sum[k] <= sum[N]
    BY <1>1, <1>7, <2>1
  <2>. HIDE DEF k
  <2>3. sum[k] = sum[k - 1] + gns[k] /\ gns[k] \in Nat
    BY <1>1, <2>1
  <2>4. sum[k] \in Nat /\ sum[k - 1] \in Nat /\ sum[N] \in Nat
    BY <1>5, <2>1
  <2>5. sum[k - 1] <= sum[N]
    BY <2>2, <2>3, <2>4
  <2>. QED  BY <2>1, <2>5
<1>. HIDE DEF T
<1>8. \A j \in Nat : j \in T
  BY <1>6, <1>7, Induction
<1>9. ASSUME NEW k \in 0..N
      PROVE  sum[k] <= sum[N]
  <2>1. N - k \in Nat /\ N - k <= N /\ N - (N - k) = k
    BY <1>1
  <2>2. N - k \in T
    BY <1>8, <2>1
  <2>. QED  BY <2>1, <2>2 DEF T
<1>. QED  BY <1>5, <1>9 DEF N, sum

(* Proofs that hold, of distinct turns whose work fits, are accepted       *)
(* (verified_work_from_turns).                                             *)
LEMMA WorkAccepted ==
    ASSUME ChannelAssumption, NEW items, IsSequence(items), NEW root, NEW pinned,
           NEW gn \in Nat,
           Len(items) <= MaxTurns, \A i \in DOMAIN items : items[i].at < MaxTurns,
           DistinctTurns(items),
           \A i \in DOMAIN items : items[i].turn.gn \in Nat,
           \A i \in DOMAIN items :
             TurnProofOk(items[i].turn, items[i].at, items[i].path, root, pinned),
           Work(GnsOf(items))[Len(items)] = gn, gn <= MaxGn
    PROVE  VerifiedWork(items, root, gn, pinned) = gn
<1>. DEFINE gns == GnsOf(items)
<1>1. Len(items) \in Nat /\ DOMAIN items = 1..Len(items)
  BY SequenceFacts
<1>2. /\ DOMAIN gns = 1..Len(items) /\ gns = [i \in 1..Len(items) |-> gns[i]]
      /\ \A i \in 1..Len(items) : gns[i] \in Nat
  BY <1>1 DEF GnsOf
<1>. HIDE DEF gns
<1>3. Len(gns) = Len(items)
  BY <1>1, <1>2, SequenceIs
<1>. DEFINE sum == Work(gns)
<1>4. \A k \in 0..Len(items) : sum[k] \in Nat /\ sum[k] <= sum[Len(items)]
  BY <1>1, <1>2, <1>3, WorkGrows
<1>5. sum[Len(items)] = gn
  BY DEF gns
<1>. HIDE DEF sum
<1>6. ~\E k \in DOMAIN items : sum[k] > MaxGn
  <2>1. MaxGn \in Nat
    BY DEF ChannelAssumption
  <2>. QED  BY <1>1, <1>4, <1>5, <2>1
<1>7. Total(items) = gn
  BY <1>5, <1>6 DEF Total, sum, gns
<1>. QED  BY <1>7 DEF VerifiedWork

(* The proof of a recorded turn holds (verify_turn_proof).                 *)
LEMMA HonestTurn ==
    ASSUME ChannelAssumption, TurnsRecorded, WithPolicies, NEW i \in DOMAIN turns
    PROVE  LET leaves == LeavesOf(turns)
           IN  TurnProofOk(turns[i], i - 1, PathOf(leaves, i - 1), MerkleRoot(leaves), 0)
<1>. DEFINE leaves == LeavesOf(turns)
            t == turns[i]
            pos == i - 1
<1>1. /\ Len(turns) \in Nat /\ DOMAIN turns = 1..Len(turns)
      /\ IsSequence(leaves) /\ Len(leaves) = Len(turns)
      /\ leaves[i] = Leaf(t) /\ t \in Turn
  BY RecordedLeaves
<1>. HIDE DEF leaves
<1>2. LeafDefined(t) /\ t.sig = i
  BY DEF TurnsRecorded
<1>3. PolicyOk(t, 0)
  <2>1. t.version = 2 => t.policy # 0
    BY DEF WithPolicies
  <2>. QED  BY <1>2, <2>1 DEF PolicyOk, LeafDefined
<1>4. SignedByEnclave(t)
  BY <1>2 DEF SignedByEnclave
<1>5. pos \in Nat /\ pos < Len(leaves) /\ pos + 1 = i
  BY <1>1
<1>6. Len(leaves) <= Reach[MaxPath]
  <2>1. Len(leaves) <= MaxRecorded /\ MaxRecorded <= MaxTurns /\ MaxTurns <= Reach[MaxPath]
    BY <1>1 DEF TurnsRecorded, ChannelAssumption
  <2>2. MaxRecorded \in Nat /\ MaxTurns \in Nat /\ Reach[MaxPath] \in Int
    <3>1. Reach[MaxPath] \in Nat
      BY ReachTyped, PathAssumption
    <3>. QED  BY <3>1 DEF ChannelAssumption
  <2>. QED  BY <1>1, <2>1, <2>2
<1>7. Height(leaves) <= MaxPath
  BY <1>1, <1>6, HeightReached
<1>. DEFINE path == PathOf(leaves, pos)
<1>. HIDE DEF pos, t
<1>8. /\ Len(path) = Height(leaves) /\ Oriented(pos, path)
      /\ Climb(leaves[pos + 1], path)[Len(path)] = MerkleRoot(leaves)
  BY <1>1, <1>5, <1>7, ClimbToRoot
<1>. HIDE DEF path
<1>9. Len(path) <= MaxPath /\ Climb(Leaf(t), path)[Len(path)] = MerkleRoot(leaves)
  BY <1>1, <1>5, <1>7, <1>8
<1>10. PathLeadsTo(Leaf(t), pos, path, MerkleRoot(leaves))
  BY <1>8, <1>9 DEF PathLeadsTo
<1>11. TurnProofOk(t, pos, path, MerkleRoot(leaves), 0)
  BY <1>2, <1>3, <1>4, <1>10 DEF TurnProofOk
<1>. QED  BY <1>11 DEF t, pos, path, leaves

LEMMA HonestAccepted ==
    ASSUME ChannelAssumption, TurnsRecorded
    PROVE  HonestIsAccepted
<1>. DEFINE leaves == LeavesOf(turns)
            root == MerkleRoot(leaves)
            N == Len(turns)
            items == [i \in DOMAIN turns |->
                        [at |-> i - 1, turn |-> turns[i], path |-> PathOf(leaves, i - 1)]]
            sum == Work(GnsOf(items))[N]
<1>. SUFFICES ASSUME WithPolicies,
                     \A i, j \in DOMAIN turns : turns[i].index = turns[j].index => i = j,
                     sum <= MaxGn
              PROVE  /\ VerifiedWork(items, root, sum, 0) = sum
                     /\ \A i \in DOMAIN turns :
                          VerifiedWork(<<items[i]>>, root, turns[i].gn, 0) = turns[i].gn
  BY DEF HonestIsAccepted
<1>1. /\ N \in Nat /\ DOMAIN turns = 1..N
      /\ \A i \in 1..N : turns[i] \in Turn
  BY RecordedLeaves
<1>2. N <= MaxTurns /\ MaxTurns \in Nat
  BY <1>1 DEF TurnsRecorded, ChannelAssumption
<1>3. \A i \in 1..N : turns[i].gn \in Nat /\ turns[i].gn <= MaxGn
  BY <1>1 DEF Turn, ChannelAssumption
<1>4. ASSUME NEW i \in 1..N
      PROVE  TurnProofOk(turns[i], i - 1, PathOf(leaves, i - 1), root, 0)
  BY <1>1, HonestTurn
<1>. HIDE DEF leaves, root, N
<1>5. /\ DOMAIN items = 1..N /\ items = [i \in 1..N |-> items[i]]
      /\ \A i \in 1..N : items[i] = [at |-> i - 1, turn |-> turns[i],
                                     path |-> PathOf(leaves, i - 1)]
  BY <1>1
<1>6. \A i \in 1..N : /\ items[i].at = i - 1 /\ items[i].turn = turns[i]
                      /\ items[i].path = PathOf(leaves, i - 1)
  BY <1>5
<1>. HIDE DEF items
<1>7. IsSequence(items) /\ Len(items) = N
  BY <1>1, <1>5, SequenceIs
<1>8. \A i \in 1..N : TurnProofOk(items[i].turn, items[i].at, items[i].path, root, 0)
  BY <1>4, <1>6
<1>9. \A i \in 1..N : items[i].at < MaxTurns
  BY <1>1, <1>2, <1>6
<1>10. VerifiedWork(items, root, sum, 0) = sum
  <2>1. DistinctTurns(items)
    BY <1>1, <1>5, <1>6 DEF DistinctTurns
  <2>2. sum \in Nat
    <3>. DEFINE gns == GnsOf(items)
    <3>1. /\ DOMAIN gns = 1..N /\ gns = [i \in 1..N |-> gns[i]]
          /\ \A i \in 1..N : gns[i] \in Nat
      BY <1>3, <1>5, <1>6 DEF GnsOf
    <3>. HIDE DEF gns
    <3>2. Len(gns) = N /\ N \in 0..N
      BY <1>1, <3>1, SequenceIs
    <3>3. Work(gns)[N] \in Nat
      BY <1>1, <3>1, <3>2, WorkGrows
    <3>. QED  BY <3>3 DEF gns
  <2>3. \A i \in DOMAIN items : items[i].turn.gn \in Nat
    BY <1>3, <1>5, <1>6
  <2>4. Work(GnsOf(items))[Len(items)] = sum
    BY <1>7
  <2>. HIDE DEF sum
  <2>5. sum <= MaxGn
    BY DEF sum
  <2>. QED  BY <1>2, <1>5, <1>7, <1>8, <1>9, <2>1, <2>2, <2>3, <2>4, <2>5, WorkAccepted
<1>11. ASSUME NEW i \in 1..N
       PROVE  VerifiedWork(<<items[i]>>, root, turns[i].gn, 0) = turns[i].gn
  <2>. DEFINE one == <<items[i]>>
              gn == turns[i].gn
              gns == GnsOf(one)
  <2>1. DOMAIN one = 1..1 /\ one = [k \in 1..1 |-> one[k]] /\ one[1] = items[i]
    OBVIOUS
  <2>. HIDE DEF one
  <2>2. IsSequence(one) /\ Len(one) = 1
    BY <2>1, SequenceIs
  <2>3. \A k \in DOMAIN one : k = 1 /\ one[k] = items[i]
    BY <2>1
  <2>4. DistinctTurns(one)
    BY <2>3 DEF DistinctTurns
  <2>5. gn \in Nat /\ gn <= MaxGn
    BY <1>3
  <2>6. Work(gns)[1] = gn
    <3>1. DOMAIN gns = 1..1 /\ gns = [k \in 1..1 |-> gns[k]] /\ gns[1] = gn
      BY <1>6, <2>1 DEF GnsOf
    <3>. HIDE DEF gns, gn
    <3>2. Len(gns) = 1
      BY <3>1, SequenceIs
    <3>. DEFINE s == Work(gns)
    <3>3. s[0] = 0 /\ \A k \in 1..1 : s[k] = s[k - 1] + gns[k]
      BY <3>2, WorkIs
    <3>. HIDE DEF s
    <3>4. s[1] = 0 + gns[1]
      BY <3>3
    <3>5. gn \in Nat
      BY <2>5
    <3>. QED  BY <3>1, <3>4, <3>5 DEF s
  <2>7. \A k \in DOMAIN one : /\ one[k].at < MaxTurns /\ one[k].turn.gn \in Nat
                              /\ TurnProofOk(one[k].turn, one[k].at, one[k].path, root, 0)
    BY <1>6, <1>8, <1>9, <2>3, <2>5
  <2>8. Len(one) <= MaxTurns
    BY <1>1, <1>2, <2>2
  <2>. HIDE DEF gn
  <2>9. VerifiedWork(one, root, gn, 0) = gn
    BY <2>2, <2>4, <2>5, <2>6, <2>7, <2>8, WorkAccepted
  <2>. QED  BY <2>9 DEF one, gn
<1>. QED  BY <1>1, <1>10, <1>11

(* However many they are, the turns of an honest channel are accepted with *)
(* their paths (crypto.py, compute_merkle_root and verify_merkle_path      *)
(* agree on padding and orientation).                                      *)
THEOREM HonestAreAccepted ==
    ChannelSpec => []HonestIsAccepted
<1>1. ChannelInv => HonestIsAccepted
  BY HonestAccepted, ChannelAssumption DEF ChannelInv
<1>. QED  BY <1>1, ChannelInvariant, PTL

-----------------------------------------------------------------------------
(* A transcript is read in one way. *)

FlagOf(t) == IF t.policy = 0 THEN 0 ELSE 1

(* What is read is what was encoded at that place.                         *)
LEMMA ReadIsEncoded ==
    ASSUME NEW data \in Seq(Nat), NEW k \in Nat, k >= 1, ReadTurn(data, k).next # 0
    PROVE  LET r == ReadTurn(data, k)
               e == EncodeTurn(r.turn)
           IN  /\ r.turn \in ReadableTurn /\ r.next \in Nat /\ r.next <= Len(data) + 1
               /\ e \in Seq(Nat) /\ r.next = k + Len(e)
               /\ \A j \in 1..Len(e) : e[j] = data[k + j - 1]
<1>. DEFINE flag  == data[k + 4]
            p     == IF flag = 1 THEN k + 6 ELSE k + 5
            acked == data[p + 4]
            end   == IF acked = 1 THEN p + 6 ELSE p + 5
            turn  == [version |-> data[k], index |-> data[k + 1], io |-> data[k + 2],
                      gn |-> data[k + 3],
                      policy |-> IF flag = 1 THEN data[k + 5] ELSE 0,
                      ids |-> data[p], toploc |-> data[p + 1], time |-> data[p + 2],
                      sig |-> data[p + 3],
                      ack |-> IF acked = 1 THEN data[p + 5] + 1 ELSE 0]
            fits  == /\ k + 4 <= Len(data) /\ flag \in {0, 1}
                     /\ p + 4 <= Len(data) /\ acked \in {0, 1}
                     /\ end <= Len(data) + 1
                     /\ FieldsConsistent(turn, flag)
            r     == ReadTurn(data, k)
<1>1. r = IF fits THEN [turn |-> turn, next |-> end] ELSE [turn |-> Rejected, next |-> 0]
  BY DEF ReadTurn
<1>. HIDE DEF turn, fits, end, r
<1>2. fits /\ r.turn = turn /\ r.next = end
  <2>1. CASE fits
    BY <1>1, <2>1
  <2>2. CASE ~fits
    <3>1. r.next = 0
      BY <1>1, <2>2
    <3>. QED  BY <3>1 DEF r
  <2>. QED  BY <2>1, <2>2
<1>3. /\ Len(data) \in Nat /\ \A i \in 1..Len(data) : data[i] \in Nat
  BY LenProperties, ElementOfSeq
<1>4. /\ k + 4 <= Len(data) /\ flag \in {0, 1} /\ p + 4 <= Len(data) /\ acked \in {0, 1}
      /\ end <= Len(data) + 1 /\ FieldsConsistent(turn, flag)
  BY <1>2 DEF fits
<1>5. p \in {k + 5, k + 6} /\ end \in {p + 5, p + 6}
  BY DEF end
<1>. HIDE DEF p
<1>6. /\ data[k] \in Nat /\ data[k + 1] \in Nat /\ data[k + 2] \in Nat
      /\ data[k + 3] \in Nat /\ data[k + 4] \in Nat
      /\ flag = 1 => data[k + 5] \in Nat
      /\ data[p] \in Nat /\ data[p + 1] \in Nat /\ data[p + 2] \in Nat
      /\ data[p + 3] \in Nat /\ data[p + 4] \in Nat
      /\ acked = 1 => data[p + 5] \in Nat
  <2>1. /\ k \in 1..Len(data) /\ k + 1 \in 1..Len(data) /\ k + 2 \in 1..Len(data)
        /\ k + 3 \in 1..Len(data) /\ k + 4 \in 1..Len(data) /\ k + 5 \in 1..Len(data)
        /\ p \in 1..Len(data) /\ p + 1 \in 1..Len(data) /\ p + 2 \in 1..Len(data)
        /\ p + 3 \in 1..Len(data) /\ p + 4 \in 1..Len(data)
    BY <1>3, <1>4, <1>5
  <2>. HIDE DEF acked, flag
  <2>2. acked = 1 => p + 5 \in 1..Len(data)
    BY <1>3, <1>4, <1>5 DEF end
  <2>. QED  BY <1>3, <2>1, <2>2
<1>. HIDE DEF flag, acked
<1>7. /\ turn.version = data[k] /\ turn.index = data[k + 1] /\ turn.io = data[k + 2]
      /\ turn.gn = data[k + 3] /\ turn.policy = (IF flag = 1 THEN data[k + 5] ELSE 0)
      /\ turn.ids = data[p] /\ turn.toploc = data[p + 1] /\ turn.time = data[p + 2]
      /\ turn.sig = data[p + 3]
      /\ turn.ack = (IF acked = 1 THEN data[p + 5] + 1 ELSE 0)
  BY DEF turn
<1>8. turn \in ReadableTurn
  <2>. DEFINE pol == IF flag = 1 THEN data[k + 5] ELSE 0
              ack == IF acked = 1 THEN data[p + 5] + 1 ELSE 0
  <2>1. pol \in Nat
    <3>1. CASE flag = 1
      BY <1>6, <3>1
    <3>2. CASE flag # 1
      BY <3>2
    <3>. QED  BY <3>1, <3>2
  <2>3. ack \in Nat
    <3>1. CASE acked = 1
      <4>. DEFINE w == data[p + 5]
      <4>1. w \in Nat
        BY <1>6, <3>1
      <4>2. ack = w + 1
        BY <3>1
      <4>. HIDE DEF w, ack
      <4>. QED  BY <4>1, <4>2
    <3>2. CASE acked # 1
      BY <3>2
    <3>. QED  BY <3>1, <3>2
  <2>2. turn = [version |-> data[k], index |-> data[k + 1], io |-> data[k + 2],
                gn |-> data[k + 3], policy |-> pol, ids |-> data[p],
                toploc |-> data[p + 1], time |-> data[p + 2], sig |-> data[p + 3],
                ack |-> ack]
    BY DEF turn
  <2>. HIDE DEF pol, ack
  <2>. QED  BY <1>6, <2>1, <2>2, <2>3 DEF ReadableTurn
<1>9. /\ flag = 0 => turn.policy = 0
      /\ flag = 1 => turn.policy # 0 /\ turn.policy = data[k + 5]
  <2>1. CASE flag = 1
    <3>1. turn.policy = data[k + 5]
      BY <1>7, <2>1
    <3>2. turn.policy # 0
      BY <1>4, <2>1 DEF FieldsConsistent
    <3>. QED  BY <2>1, <3>1, <3>2
  <2>2. CASE flag = 0
    <3>1. turn.policy = 0
      BY <1>7, <2>2
    <3>. QED  BY <2>2, <3>1
  <2>. QED  BY <1>4, <2>1, <2>2
<1>10. /\ acked = 0 => turn.ack = 0
       /\ acked = 1 => turn.ack # 0 /\ turn.ack - 1 = data[p + 5]
  <2>1. CASE acked = 1
    <3>. DEFINE w == data[p + 5]
                v == turn.ack
    <3>1. w \in Nat
      BY <1>6, <2>1
    <3>2. v = w + 1
      BY <1>7, <2>1
    <3>. HIDE DEF w, v
    <3>3. v # 0 /\ v - 1 = w
      BY <3>1, <3>2
    <3>. QED  BY <2>1, <3>3 DEF w, v
  <2>2. CASE acked = 0
    <3>1. turn.ack = 0
      BY <1>7, <2>2
    <3>. QED  BY <2>2, <3>1
  <2>. QED  BY <1>4, <2>1, <2>2
<1>. DEFINE e == EncodeTurn(turn)
            a == IF turn.policy = 0 THEN 5 ELSE 6
<1>11. /\ e \in Seq(Nat) /\ Len(e) = IF turn.ack = 0 THEN a + 5 ELSE a + 6
       /\ e[1] = turn.version /\ e[2] = turn.index /\ e[3] = turn.io /\ e[4] = turn.gn
       /\ e[5] = (IF turn.policy = 0 THEN 0 ELSE 1)
       /\ turn.policy # 0 => e[6] = turn.policy
       /\ e[a + 1] = turn.ids /\ e[a + 2] = turn.toploc
       /\ e[a + 3] = turn.time /\ e[a + 4] = turn.sig
       /\ e[a + 5] = (IF turn.ack = 0 THEN 0 ELSE 1)
       /\ turn.ack # 0 => e[a + 6] = turn.ack - 1
  BY <1>8, TurnEncodes
<1>12. /\ p = k + a /\ a \in {5, 6} /\ (a = 6 <=> flag = 1)
       /\ end = (IF turn.ack = 0 THEN p + 5 ELSE p + 6)
       /\ flag \in {0, 1} /\ acked \in {0, 1}
  BY <1>4, <1>9, <1>10 DEF p, end
<1>. HIDE DEF e, a
<1>13. /\ e[1] = data[k] /\ e[2] = data[k + 1] /\ e[3] = data[k + 2] /\ e[4] = data[k + 3]
       /\ e[5] = data[k + 4] /\ (a = 6 => e[6] = data[k + 5])
  BY <1>7, <1>9, <1>11, <1>12 DEF flag
<1>14. /\ e[a + 1] = data[p] /\ e[a + 2] = data[p + 1] /\ e[a + 3] = data[p + 2]
       /\ e[a + 4] = data[p + 3] /\ e[a + 5] = data[p + 4]
       /\ (turn.ack # 0 => e[a + 6] = data[p + 5])
  BY <1>7, <1>10, <1>11, <1>12 DEF acked
<1>15. end = k + Len(e) /\ Len(e) \in Nat
  BY <1>11, <1>12
<1>16. ASSUME NEW j \in 1..Len(e)
       PROVE  e[j] = data[k + j - 1]
  <2>1. CASE j <= a
    <3>1. /\ j \in {1, 2, 3, 4, 5, 6} /\ (j = 6 => a = 6)
      BY <1>12, <2>1
    <3>2. /\ k + 1 - 1 = k /\ k + 2 - 1 = k + 1 /\ k + 3 - 1 = k + 2 /\ k + 4 - 1 = k + 3
          /\ k + 5 - 1 = k + 4 /\ k + 6 - 1 = k + 5
      OBVIOUS
    <3>. QED  BY <1>13, <3>1, <3>2
  <2>2. CASE ~(j <= a)
    <3>. DEFINE i == j - a
    <3>1. j = a + i /\ i \in {1, 2, 3, 4, 5, 6} /\ (i = 6 => turn.ack # 0)
      <4>. DEFINE n == Len(e)
      <4>1. n = (IF turn.ack = 0 THEN a + 5 ELSE a + 6) /\ j \in 1..n
        BY <1>11
      <4>. HIDE DEF n
      <4>. QED  BY <1>12, <2>2, <4>1
    <3>2. k + j - 1 = p + (i - 1) /\ p + 0 = p
      BY <1>5, <1>12
    <3>. HIDE DEF i
    <3>3. /\ 1 - 1 = 0 /\ 2 - 1 = 1 /\ 3 - 1 = 2 /\ 4 - 1 = 3 /\ 5 - 1 = 4 /\ 6 - 1 = 5
      OBVIOUS
    <3>. QED  BY <1>14, <3>1, <3>2, <3>3
  <2>. QED  BY <1>11, <1>12, <2>1, <2>2
<1>17. r.next \in Nat
  BY <1>2, <1>15
<1>. QED  BY <1>2, <1>4, <1>8, <1>11, <1>15, <1>16, <1>17 DEF r, e

(* What was encoded at a place is read from it.                            *)
LEMMA EncodedIsRead ==
    ASSUME NEW data \in Seq(Nat), NEW k \in Nat, k >= 1,
           NEW t \in ReadableTurn, FieldsConsistent(t, FlagOf(t)),
           k + Len(EncodeTurn(t)) <= Len(data) + 1,
           \A j \in 1..Len(EncodeTurn(t)) : data[k + j - 1] = EncodeTurn(t)[j]
    PROVE  ReadTurn(data, k) = [turn |-> t, next |-> k + Len(EncodeTurn(t))]
<1>. DEFINE e == EncodeTurn(t)
            a == IF t.policy = 0 THEN 5 ELSE 6
            n == Len(e)
<1>1. /\ Len(e) = IF t.ack = 0 THEN a + 5 ELSE a + 6
      /\ e[1] = t.version /\ e[2] = t.index /\ e[3] = t.io /\ e[4] = t.gn
      /\ e[5] = (IF t.policy = 0 THEN 0 ELSE 1)
      /\ t.policy # 0 => e[6] = t.policy
      /\ e[a + 1] = t.ids /\ e[a + 2] = t.toploc
      /\ e[a + 3] = t.time /\ e[a + 4] = t.sig
      /\ e[a + 5] = (IF t.ack = 0 THEN 0 ELSE 1)
      /\ t.ack # 0 => e[a + 6] = t.ack - 1
  BY TurnEncodes
<1>2. \A j \in 1..n : data[k + j - 1] = e[j]
  OBVIOUS
<1>3. a \in {5, 6} /\ (a = 5 <=> t.policy = 0)
  OBVIOUS
<1>. DEFINE flag  == data[k + 4]
            p     == IF flag = 1 THEN k + 6 ELSE k + 5
            acked == data[p + 4]
            end   == IF acked = 1 THEN p + 6 ELSE p + 5
            turn  == [version |-> data[k], index |-> data[k + 1], io |-> data[k + 2],
                      gn |-> data[k + 3],
                      policy |-> IF flag = 1 THEN data[k + 5] ELSE 0,
                      ids |-> data[p], toploc |-> data[p + 1], time |-> data[p + 2],
                      sig |-> data[p + 3],
                      ack |-> IF acked = 1 THEN data[p + 5] + 1 ELSE 0]
            fits  == /\ k + 4 <= Len(data) /\ flag \in {0, 1}
                     /\ p + 4 <= Len(data) /\ acked \in {0, 1}
                     /\ end <= Len(data) + 1
                     /\ FieldsConsistent(turn, flag)
<1>4. ReadTurn(data, k) = IF fits THEN [turn |-> turn, next |-> end]
                          ELSE [turn |-> Rejected, next |-> 0]
  BY DEF ReadTurn
<1>5. t.policy \in Nat /\ t.ack \in Nat /\ Len(data) \in Nat
  BY LenProperties DEF ReadableTurn
<1>6. n = (IF t.ack = 0 THEN a + 5 ELSE a + 6) /\ n \in Nat /\ k + n <= Len(data) + 1
  BY <1>1, <1>3
<1>. HIDE DEF e, n, a
<1>7. /\ data[k] = t.version /\ data[k + 1] = t.index /\ data[k + 2] = t.io
      /\ data[k + 3] = t.gn /\ flag = FlagOf(t) /\ (t.policy # 0 => data[k + 5] = t.policy)
  <2>1. /\ 1 \in 1..n /\ 2 \in 1..n /\ 3 \in 1..n /\ 4 \in 1..n /\ 5 \in 1..n
        /\ 6 \in 1..n
    BY <1>3, <1>6
  <2>2. /\ k + 1 - 1 = k /\ k + 2 - 1 = k + 1 /\ k + 3 - 1 = k + 2 /\ k + 4 - 1 = k + 3
        /\ k + 5 - 1 = k + 4 /\ k + 6 - 1 = k + 5
    OBVIOUS
  <2>3. /\ data[k] = e[1] /\ data[k + 1] = e[2] /\ data[k + 2] = e[3] /\ data[k + 3] = e[4]
        /\ data[k + 4] = e[5] /\ data[k + 5] = e[6]
    BY <1>2, <2>1, <2>2
  <2>. QED  BY <1>1, <2>3 DEF FlagOf
<1>8. p = k + a /\ flag \in {0, 1} /\ (flag = 1 <=> t.policy # 0)
  BY <1>3, <1>7 DEF FlagOf
<1>. HIDE DEF p, flag
<1>9. /\ data[p] = t.ids /\ data[p + 1] = t.toploc /\ data[p + 2] = t.time
      /\ data[p + 3] = t.sig /\ acked = (IF t.ack = 0 THEN 0 ELSE 1)
      /\ (t.ack # 0 => data[p + 5] = t.ack - 1)
  <2>1. /\ a + 1 \in 1..n /\ a + 2 \in 1..n /\ a + 3 \in 1..n /\ a + 4 \in 1..n
        /\ a + 5 \in 1..n /\ (t.ack # 0 => a + 6 \in 1..n)
    BY <1>3, <1>6
  <2>2. /\ k + (a + 1) - 1 = p /\ k + (a + 2) - 1 = p + 1 /\ k + (a + 3) - 1 = p + 2
        /\ k + (a + 4) - 1 = p + 3 /\ k + (a + 5) - 1 = p + 4 /\ k + (a + 6) - 1 = p + 5
    BY <1>3, <1>8
  <2>3. /\ data[p] = e[a + 1] /\ data[p + 1] = e[a + 2] /\ data[p + 2] = e[a + 3]
        /\ data[p + 3] = e[a + 4] /\ data[p + 4] = e[a + 5]
        /\ (t.ack # 0 => data[p + 5] = e[a + 6])
    BY <1>2, <2>1, <2>2
  <2>. QED  BY <1>1, <2>3 DEF a
<1>10. end = k + n /\ acked \in {0, 1} /\ (acked = 1 <=> t.ack # 0)
  BY <1>3, <1>6, <1>8, <1>9
<1>11. turn = t
  <2>. DEFINE pol == IF flag = 1 THEN data[k + 5] ELSE 0
              ack == IF acked = 1 THEN data[p + 5] + 1 ELSE 0
  <2>1. pol = t.policy
    <3>1. CASE t.policy = 0
      BY <1>8, <3>1
    <3>2. CASE t.policy # 0
      BY <1>7, <1>8, <3>2
    <3>. QED  BY <3>1, <3>2
  <2>2. ack = t.ack
    <3>1. CASE t.ack = 0
      BY <1>10, <3>1
    <3>2. CASE t.ack # 0
      <4>1. ack = data[p + 5] + 1
        BY <1>10, <3>2
      <4>2. (t.ack - 1) + 1 = t.ack
        BY <1>5
      <4>. QED  BY <1>9, <3>2, <4>1, <4>2
    <3>. QED  BY <3>1, <3>2
  <2>. HIDE DEF pol, ack
  <2>3. turn = [version |-> t.version, index |-> t.index, io |-> t.io, gn |-> t.gn,
                policy |-> t.policy, ids |-> t.ids, toploc |-> t.toploc,
                time |-> t.time, sig |-> t.sig, ack |-> t.ack]
    BY <1>7, <1>9, <2>1, <2>2 DEF pol, ack
  <2>4. t = [version |-> t.version, index |-> t.index, io |-> t.io, gn |-> t.gn,
             policy |-> t.policy, ids |-> t.ids, toploc |-> t.toploc,
             time |-> t.time, sig |-> t.sig, ack |-> t.ack]
    BY DEF ReadableTurn
  <2>. QED  BY <2>3, <2>4
<1>. HIDE DEF turn, acked, end
<1>12. fits
  <2>1. k + 4 <= Len(data) /\ p + 4 <= Len(data) /\ end <= Len(data) + 1
    BY <1>3, <1>5, <1>6, <1>8, <1>10
  <2>. QED  BY <1>7, <1>8, <1>10, <1>11, <2>1
<1>. HIDE DEF fits
<1>. QED  BY <1>4, <1>10, <1>11, <1>12 DEF n, e

(* A read starts where the one before it ended, or fails with it.          *)
LEMMA ReadingIs ==
    ASSUME NEW data, data[1] \in Nat
    PROVE  /\ DOMAIN Reading(data) = 0..data[1]
           /\ Reading(data)[0] = [turn |-> Rejected, next |-> 2]
           /\ \A k \in 1..data[1] :
                Reading(data)[k] = LET before == Reading(data)[k - 1]
                                   IN  IF before.next = 0 THEN before
                                       ELSE ReadTurn(data, before.next)
<1>. DEFINE first == [turn |-> Rejected, next |-> 2]
            Step(k, v) == LET before == v
                          IN  IF before.next = 0 THEN before
                              ELSE ReadTurn(data, before.next)
            Up(g, n) == [k \in 0..n |-> IF k = 0 THEN first ELSE Step(k, g[k - 1])]
            S == {n \in Nat : \E g : g = Up(g, n)}
            f == Reading(data)
<1>1. f = CHOOSE g : g = Up(g, data[1])
  BY DEF Reading
<1>. HIDE DEF first, Step, f
<1>2. 0 \in S
  <2>1. [k \in 0..0 |-> first] = Up([k \in 0..0 |-> first], 0)
    OBVIOUS
  <2>. HIDE DEF Up
  <2>. QED  BY <2>1
<1>3. ASSUME NEW n \in Nat, n \in S
      PROVE  n + 1 \in S
  <2>1. PICK g : g = Up(g, n)
    BY <1>3
  <2>. DEFINE h == [k \in 0..(n + 1) |-> IF k = n + 1 THEN Step(n + 1, g[n]) ELSE g[k]]
  <2>2. \A k \in 0..(n + 1) : h[k] = IF k = 0 THEN first ELSE Step(k, h[k - 1])
    <3>. TAKE k \in 0..(n + 1)
    <3>1. CASE k = n + 1
      <4>1. h[k] = Step(n + 1, g[n]) /\ h[k - 1] = g[n] /\ k # 0
        BY <3>1
      <4>. HIDE DEF h
      <4>. QED  BY <3>1, <4>1
    <3>2. CASE k # n + 1
      <4>1. k \in 0..n /\ h[k] = g[k] /\ (k # 0 => h[k - 1] = g[k - 1])
        BY <3>2
      <4>. HIDE DEF h
      <4>. QED  BY <2>1, <4>1
    <3>. QED  BY <3>1, <3>2
  <2>3. h = Up(h, n + 1)
    BY <2>2
  <2>. HIDE DEF h, Up
  <2>. QED  BY <2>3
<1>. HIDE DEF S
<1>4. data[1] \in S
  BY <1>2, <1>3, Induction
<1>5. \E g : g = Up(g, data[1])
  BY <1>4 DEF S
<1>. HIDE DEF Up
<1>6. f = Up(f, data[1])
  BY <1>1, <1>5
<1>7. f = [k \in 0..data[1] |-> IF k = 0 THEN first ELSE Step(k, f[k - 1])]
  BY <1>6 DEF Up
<1>8. DOMAIN f = 0..data[1]
  BY <1>7
<1>9. \A k \in 0..data[1] : f[k] = IF k = 0 THEN first ELSE Step(k, f[k - 1])
  BY <1>7
<1>10. data[1] \in Nat
  OBVIOUS
<1>11. f[0] = first /\ \A k \in 1..data[1] : f[k] = Step(k, f[k - 1])
  BY <1>9, <1>10
<1>. QED  BY <1>8, <1>11 DEF f, first, Step

LEMMA SentSteps ==
    ASSUME NEW ts \in Seq(ReadableTurn)
    PROVE  LET sent == Sent(ts)
           IN  /\ Len(ts) \in Nat /\ sent[0] = <<Len(ts)>>
               /\ \A i \in 0..Len(ts) : sent[i] \in Seq(Nat)
               /\ \A i \in 1..Len(ts) :
                    LET e == EncodeTurn(ts[i])
                    IN  /\ ts[i] \in ReadableTurn /\ e \in Seq(Nat)
                        /\ Len(sent[i]) = Len(sent[i - 1]) + Len(e)
                        /\ \A j \in 1..Len(sent[i - 1]) : sent[i][j] = sent[i - 1][j]
                        /\ \A j \in 1..Len(e) : sent[i][Len(sent[i - 1]) + j] = e[j]
<1>. DEFINE sent == Sent(ts)
<1>1. Len(ts) \in Nat /\ \A i \in 1..Len(ts) : ts[i] \in ReadableTurn
  BY LenProperties, ElementOfSeq
<1>2. /\ sent[0] = <<Len(ts)>>
      /\ \A i \in 1..Len(ts) : sent[i] = sent[i - 1] \o EncodeTurn(ts[i])
  BY <1>1, SentIs
<1>3. \A i \in 0..Len(ts) : sent[i] \in Seq(Nat)
  BY SentTyped
<1>. HIDE DEF sent
<1>4. ASSUME NEW i \in 1..Len(ts)
      PROVE  LET e == EncodeTurn(ts[i])
             IN  /\ e \in Seq(Nat)
                 /\ Len(sent[i]) = Len(sent[i - 1]) + Len(e)
                 /\ \A j \in 1..Len(sent[i - 1]) : sent[i][j] = sent[i - 1][j]
                 /\ \A j \in 1..Len(e) : sent[i][Len(sent[i - 1]) + j] = e[j]
  <2>. DEFINE e == EncodeTurn(ts[i])
              s == sent[i - 1]
              u == sent[i]
  <2>1. u = s \o e
    BY <1>2
  <2>2. e \in Seq(Nat)
    BY <1>1, TurnEncodes
  <2>3. s \in Seq(Nat)
    BY <1>1, <1>3
  <2>. HIDE DEF e, s, u
  <2>4. /\ Len(s \o e) = Len(s) + Len(e)
        /\ \A j \in 1..(Len(s) + Len(e)) :
             (s \o e)[j] = IF j <= Len(s) THEN s[j] ELSE e[j - Len(s)]
    BY <2>2, <2>3, ConcatProperties
  <2>5. Len(s) \in Nat /\ Len(e) \in Nat
    BY <2>2, <2>3, LenProperties
  <2>6. ASSUME NEW j \in 1..Len(s)
        PROVE  u[j] = s[j]
    BY <2>1, <2>4, <2>5
  <2>7. ASSUME NEW j \in 1..Len(e)
        PROVE  u[Len(s) + j] = e[j]
    <3>. DEFINE m == Len(s)
                n == Len(e)
    <3>1. m + j \in 1..(m + n) /\ ~(m + j <= m) /\ (m + j) - m = j
      BY <2>5
    <3>. HIDE DEF m, n
    <3>2. u[m + j] = e[(m + j) - m]
      BY <2>1, <2>4, <3>1 DEF m, n
    <3>. QED  BY <3>1, <3>2 DEF m
  <2>. QED  BY <2>1, <2>2, <2>4, <2>6, <2>7 DEF e, s, u
<1>. QED  BY <1>1, <1>2, <1>3, <1>4 DEF sent

(* The transcript is the encoding of the turns read from it: no read       *)
(* failed on the way, as a failure stays, so every turn read is what       *)
(* stands there.                                                           *)
LEMMA DecodedIsEncoded ==
    ASSUME ChannelAssumption, NEW data \in Seq(Nat), Decode(data) # NoTurns
    PROVE  Encode(Decode(data)) = data
<1>. DEFINE ts == Decode(data)
            n == data[1]
            read == Reading(data)
            sent == Sent(ts)
<1>1. /\ data # <<>> /\ n \in Nat /\ read[n].next = Len(data) + 1
      /\ IsSequence(ts) /\ Len(ts) = n /\ \A i \in 1..n : ts[i] = read[i].turn
  BY Decoded
<1>2. Len(data) \in Nat /\ Len(data) >= 1 /\ \A i \in 1..Len(data) : data[i] \in Nat
  BY <1>1, EmptySeq, LenProperties, ElementOfSeq
<1>3. /\ read[0].next = 2
      /\ \A i \in 1..n : read[i] = IF read[i - 1].next = 0 THEN read[i - 1]
                                   ELSE ReadTurn(data, read[i - 1].next)
  <2>1. /\ read[0] = [turn |-> Rejected, next |-> 2]
        /\ \A i \in 1..n : read[i] = LET before == read[i - 1]
                                     IN  IF before.next = 0 THEN before
                                         ELSE ReadTurn(data, before.next)
    BY <1>1, ReadingIs
  <2>. HIDE DEF read
  <2>2. read[0].next = 2
    BY <2>1
  <2>. QED  BY <2>1, <2>2
<1>. HIDE DEF read, ts
<1>. DEFINE S == {j \in Nat : j <= n => read[n - j].next # 0}
<1>4. \A j \in Nat : j \in S
  <2>. HIDE DEF n
  <2>1. 0 \in S
    <3>1. n - 0 = n /\ Len(data) + 1 # 0
      BY <1>1, <1>2
    <3>. QED  BY <1>1, <3>1
  <2>2. ASSUME NEW j \in Nat, j \in S
        PROVE  j + 1 \in S
    <3>. SUFFICES ASSUME j + 1 <= n PROVE read[n - (j + 1)].next # 0
      OBVIOUS
    <3>. DEFINE i == n - j
    <3>1. i \in 1..n /\ i - 1 = n - (j + 1) /\ j <= n
      BY <1>1
    <3>2. read[i].next # 0
      BY <2>2, <3>1
    <3>. HIDE DEF i
    <3>3. read[i - 1].next # 0
      BY <1>3, <3>1, <3>2
    <3>. QED  BY <3>1, <3>3
  <2>. HIDE DEF S
  <2>. QED  BY <2>1, <2>2, Induction
<1>5. ASSUME NEW i \in 0..n
      PROVE  read[i].next # 0
  <2>. HIDE DEF n
  <2>1. n - i \in Nat /\ n - i <= n /\ n - (n - i) = i
    BY <1>1
  <2>2. n - i \in S
    BY <1>4, <2>1
  <2>. QED  BY <2>1, <2>2
<1>. HIDE DEF S
<1>6. ASSUME NEW i \in 1..n
      PROVE  read[i] = ReadTurn(data, read[i - 1].next)
  <2>1. i - 1 \in 0..n
    BY <1>1
  <2>. QED  BY <1>3, <1>5, <2>1
<1>. DEFINE T == {i \in Nat : i <= n => read[i].next \in Nat /\ read[i].next >= 1}
<1>7. \A i \in Nat : i \in T
  <2>. HIDE DEF n
  <2>1. 0 \in T
    BY <1>3
  <2>2. ASSUME NEW i \in Nat, i \in T
        PROVE  i + 1 \in T
    <3>. SUFFICES ASSUME i + 1 <= n
                  PROVE  read[i + 1].next \in Nat /\ read[i + 1].next >= 1
      OBVIOUS
    <3>1. i + 1 \in 1..n /\ i + 1 \in 0..n /\ (i + 1) - 1 = i /\ i <= n
      BY <1>1
    <3>. DEFINE k == read[i].next
                r == read[i + 1]
    <3>2. k \in Nat /\ k >= 1 /\ r = ReadTurn(data, k) /\ r.next # 0
      BY <1>5, <1>6, <2>2, <3>1 DEF n
    <3>. HIDE DEF k
    <3>3. r.next \in Nat
      BY <3>2, ReadIsEncoded
    <3>. HIDE DEF r
    <3>4. r.next >= 1
      BY <3>2, <3>3
    <3>. QED  BY <3>3, <3>4 DEF r
  <2>. HIDE DEF T
  <2>. QED  BY <2>1, <2>2, Induction
<1>8. ASSUME NEW i \in 1..n
      PROVE  LET k == read[i - 1].next
                 e == EncodeTurn(ts[i])
             IN  /\ k \in Nat /\ k >= 1 /\ ts[i] \in ReadableTurn
                 /\ read[i].next = k + Len(e) /\ e \in Seq(Nat)
                 /\ \A j \in 1..Len(e) : e[j] = data[k + j - 1]
  <2>. DEFINE k == read[i - 1].next
  <2>1. i - 1 \in Nat /\ i - 1 <= n /\ i - 1 \in 0..n /\ i \in 0..n
    BY <1>1
  <2>2. k \in Nat /\ k >= 1
    BY <1>7, <2>1
  <2>3. read[i] = ReadTurn(data, k) /\ ReadTurn(data, k).next # 0
    BY <1>5, <1>6, <2>1
  <2>4. ts[i] = ReadTurn(data, k).turn
    BY <1>1, <2>3
  <2>. HIDE DEF k
  <2>. DEFINE r == ReadTurn(data, k)
              e == EncodeTurn(r.turn)
  <2>5. /\ r.turn \in ReadableTurn /\ e \in Seq(Nat) /\ r.next = k + Len(e)
        /\ \A j \in 1..Len(e) : e[j] = data[k + j - 1]
    BY <2>2, <2>3, ReadIsEncoded
  <2>. HIDE DEF r
  <2>. QED  BY <2>2, <2>3, <2>4, <2>5 DEF k, r
<1>. HIDE DEF T
<1>9. ts \in Seq(ReadableTurn)
  <2>1. ts = [i \in 1..n |-> ts[i]]
    BY <1>1 DEF IsSequence
  <2>2. \A i \in 1..n : ts[i] \in ReadableTurn
    BY <1>8
  <2>. HIDE DEF n
  <2>3. ts \in [1..n -> ReadableTurn]
    BY <2>1, <2>2
  <2>. QED  BY <1>1, <2>3
<1>10. /\ sent[0] = <<Len(ts)>> /\ \A i \in 0..Len(ts) : sent[i] \in Seq(Nat)
      /\ \A i \in 1..Len(ts) :
           LET e == EncodeTurn(ts[i])
           IN  /\ ts[i] \in ReadableTurn /\ e \in Seq(Nat)
               /\ Len(sent[i]) = Len(sent[i - 1]) + Len(e)
               /\ \A j \in 1..Len(sent[i - 1]) : sent[i][j] = sent[i - 1][j]
               /\ \A j \in 1..Len(e) : sent[i][Len(sent[i - 1]) + j] = e[j]
  BY <1>9, SentSteps
<1>. HIDE DEF sent
<1>11. sent[0] = <<n>> /\ \A i \in 0..n : sent[i] \in Seq(Nat)
  BY <1>1, <1>10
<1>12. ASSUME NEW i \in 1..n
      PROVE  LET e == EncodeTurn(ts[i])
             IN  /\ e \in Seq(Nat)
                 /\ Len(sent[i]) = Len(sent[i - 1]) + Len(e)
                 /\ \A j \in 1..Len(sent[i - 1]) : sent[i][j] = sent[i - 1][j]
                 /\ \A j \in 1..Len(e) : sent[i][Len(sent[i - 1]) + j] = e[j]
  BY <1>1, <1>10
<1>. DEFINE Good(i) == /\ read[i].next = Len(sent[i]) + 1
                       /\ \A j \in 1..Len(sent[i]) : sent[i][j] = data[j]
            U == {i \in Nat : i <= n => Good(i)}
<1>13. 0 \in U
  <2>1. Len(sent[0]) = 1 /\ sent[0][1] = n
    BY <1>11
  <2>2. Good(0)
    BY <1>3, <2>1
  <2>. QED  BY <2>2
<1>14. ASSUME NEW i \in Nat, i \in U
       PROVE  i + 1 \in U
  <2>. SUFFICES ASSUME i + 1 <= n PROVE Good(i + 1)
    OBVIOUS
  <2>. DEFINE e == EncodeTurn(ts[i + 1])
              s == sent[i]
              u == sent[i + 1]
              k == read[i].next
  <2>1. i + 1 \in 1..n /\ (i + 1) - 1 = i /\ i <= n /\ i \in 0..n
    BY <1>1
  <2>2. k = Len(s) + 1 /\ \A j \in 1..Len(s) : s[j] = data[j]
    BY <1>14, <2>1
  <2>3. /\ k \in Nat /\ read[i + 1].next = k + Len(e) /\ e \in Seq(Nat)
        /\ \A j \in 1..Len(e) : e[j] = data[k + j - 1]
    BY <1>8, <2>1
  <2>4. /\ Len(u) = Len(s) + Len(e) /\ s \in Seq(Nat)
        /\ \A j \in 1..Len(s) : u[j] = s[j]
        /\ \A j \in 1..Len(e) : u[Len(s) + j] = e[j]
    <3>1. s \in Seq(Nat)
      BY <1>11, <2>1
    <3>2. /\ Len(sent[i + 1]) = Len(sent[(i + 1) - 1]) + Len(e)
          /\ \A j \in 1..Len(sent[(i + 1) - 1]) : sent[i + 1][j] = sent[(i + 1) - 1][j]
          /\ \A j \in 1..Len(e) : sent[i + 1][Len(sent[(i + 1) - 1]) + j] = e[j]
      BY <1>12, <2>1
    <3>3. sent[(i + 1) - 1] = sent[i]
      BY <2>1
    <3>. HIDE DEF e
    <3>. QED  BY <3>1, <3>2, <3>3
  <2>. DEFINE m == Len(s)
              l == Len(e)
  <2>5. m \in Nat /\ l \in Nat
    BY <2>3, <2>4, LenProperties
  <2>. HIDE DEF e, s, u, k, m, l
  <2>6. read[i + 1].next = Len(u) + 1
    <3>1. Len(u) = m + l /\ k = m + 1 /\ read[i + 1].next = k + l
      BY <2>2, <2>3, <2>4 DEF m, l
    <3>. QED  BY <2>5, <3>1
  <2>7. ASSUME NEW j \in 1..Len(u)
        PROVE  u[j] = data[j]
    <3>1. j \in 1..(m + l)
      BY <2>4 DEF m, l
    <3>2. CASE j <= m
      <4>1. j \in 1..m
        BY <2>5, <3>1, <3>2
      <4>. QED  BY <2>2, <2>4, <4>1 DEF m
    <3>3. CASE ~(j <= m)
      <4>. DEFINE x == j - m
      <4>1. x \in 1..l /\ j = m + x /\ (m + 1) + x - 1 = j
        BY <2>5, <3>1, <3>3
      <4>. HIDE DEF x
      <4>2. u[m + x] = e[x]
        BY <2>4, <4>1 DEF m, l
      <4>3. e[x] = data[k + x - 1] /\ k = m + 1
        BY <2>2, <2>3, <4>1 DEF m, l
      <4>. QED  BY <4>1, <4>2, <4>3
    <3>. QED  BY <3>2, <3>3
  <2>. QED  BY <2>6, <2>7 DEF u
<1>. HIDE DEF U, Good
<1>15. n \in U
  BY <1>1, <1>13, <1>14, Induction
<1>16. Good(n)
  <2>. HIDE DEF n
  <2>. QED  BY <1>1, <1>15 DEF U
<1>. DEFINE all == sent[n]
<1>17. all \in Seq(Nat) /\ n \in 0..n
  BY <1>1, <1>11
<1>18. read[n].next = Len(all) + 1 /\ \A j \in 1..Len(all) : all[j] = data[j]
  BY <1>16 DEF Good
<1>. HIDE DEF all
<1>19. Len(all) \in Nat
  BY <1>17, LenProperties
<1>20. Len(all) = Len(data)
  <2>. DEFINE x == Len(all)
              y == Len(data)
  <2>1. x + 1 = y + 1 /\ x \in Nat /\ y \in Nat
    BY <1>1, <1>2, <1>18, <1>19
  <2>. HIDE DEF x, y
  <2>2. x = y
    BY <2>1
  <2>. QED  BY <2>2 DEF x, y
<1>21. all = data
  BY <1>17, <1>18, <1>20, SeqEqual
<1>22. Encode(ts) = all
  BY <1>1 DEF Encode, sent, all
<1>. QED  BY <1>21, <1>22 DEF ts

(* The turns of a channel are read from their encoding, one by one.        *)
LEMMA EncodedDecodes ==
    ASSUME ChannelAssumption, TurnsRecorded, WithPolicies
    PROVE  Decode(Encode(turns)) = turns
<1>. DEFINE n == Len(turns)
            sent == Sent(turns)
            data == Encode(turns)
            read == Reading(data)
<1>1. /\ turns \in Seq(Turn) /\ turns \in Seq(ReadableTurn) /\ n \in Nat
      /\ DOMAIN turns = 1..n /\ n <= MaxTurns /\ MaxTurns \in Nat
      /\ \A i \in 1..n : turns[i] \in Turn
  <2>1. turns \in Seq(Turn) /\ n <= MaxRecorded
    BY DEF TurnsRecorded
  <2>2. n \in Nat /\ DOMAIN turns = 1..n /\ \A i \in 1..n : turns[i] \in Turn
    BY <2>1, LenProperties, ElementOfSeq
  <2>3. n <= MaxTurns /\ MaxTurns \in Nat
    BY <2>1, <2>2 DEF ChannelAssumption
  <2>. QED  BY <2>1, <2>2, <2>3, TurnsAreReadable
<1>2. data = sent[n]
  BY DEF Encode
<1>3. ASSUME NEW i \in 1..n
      PROVE  FieldsConsistent(turns[i], FlagOf(turns[i]))
  <2>. DEFINE t == turns[i]
  <2>1. LeafDefined(t) /\ (t.version = 2 => t.policy # 0)
    BY <1>1 DEF TurnsRecorded, WithPolicies
  <2>. HIDE DEF t
  <2>2. FieldsConsistent(t, FlagOf(t))
    BY <2>1 DEF LeafDefined, FieldsConsistent, FlagOf
  <2>. QED  BY <2>2 DEF t
<1>4. /\ sent[0] = <<n>> /\ \A i \in 0..n : sent[i] \in Seq(Nat)
      /\ \A i \in 1..n :
           LET e == EncodeTurn(turns[i])
           IN  /\ turns[i] \in ReadableTurn /\ e \in Seq(Nat)
               /\ Len(sent[i]) = Len(sent[i - 1]) + Len(e)
               /\ \A j \in 1..Len(sent[i - 1]) : sent[i][j] = sent[i - 1][j]
               /\ \A j \in 1..Len(e) : sent[i][Len(sent[i - 1]) + j] = e[j]
  BY <1>1, SentSteps
<1>. HIDE DEF sent, data
<1>5. ASSUME NEW i \in 1..n
      PROVE  LET e == EncodeTurn(turns[i])
             IN  /\ turns[i] \in ReadableTurn /\ e \in Seq(Nat)
                 /\ Len(sent[i]) = Len(sent[i - 1]) + Len(e)
                 /\ \A j \in 1..Len(sent[i - 1]) : sent[i][j] = sent[i - 1][j]
                 /\ \A j \in 1..Len(e) : sent[i][Len(sent[i - 1]) + j] = e[j]
                 /\ Len(sent[i - 1]) \in Nat /\ Len(e) \in Nat
  <2>1. i - 1 \in 0..n
    BY <1>1
  <2>2. sent[i - 1] \in Seq(Nat) /\ EncodeTurn(turns[i]) \in Seq(Nat)
    BY <1>4, <2>1
  <2>3. Len(sent[i - 1]) \in Nat /\ Len(EncodeTurn(turns[i])) \in Nat
    BY <2>2, LenProperties
  <2>. QED  BY <1>4, <2>3
<1>. HIDE DEF n
<1>. DEFINE Prefix(i) == /\ Len(sent[i]) <= Len(data)
                         /\ \A j \in 1..Len(sent[i]) : data[j] = sent[i][j]
            S == {j \in Nat : j <= n => Prefix(n - j)}
<1>6. 0 \in S
  <2>1. n - 0 = n /\ data \in Seq(Nat)
    BY <1>1, <1>2, <1>4
  <2>2. Len(data) \in Nat
    BY <2>1, LenProperties
  <2>3. Prefix(n)
    BY <1>2, <2>2
  <2>. QED  BY <2>1, <2>3
<1>7. ASSUME NEW j \in Nat, j \in S
      PROVE  j + 1 \in S
  <2>. SUFFICES ASSUME j + 1 <= n PROVE Prefix(n - (j + 1))
    OBVIOUS
  <2>. DEFINE i == n - j
              s == sent[i - 1]
              u == sent[i]
  <2>1. i \in 1..n /\ i - 1 = n - (j + 1) /\ j <= n
    BY <1>1
  <2>2. Len(u) <= Len(data) /\ \A k \in 1..Len(u) : data[k] = u[k]
    BY <1>7, <2>1
  <2>. HIDE DEF i
  <2>. DEFINE e == EncodeTurn(turns[i])
              x == Len(s)
              y == Len(e)
              z == Len(u)
  <2>3. z = x + y /\ x \in Nat /\ y \in Nat /\ \A k \in 1..x : u[k] = s[k]
    BY <1>5, <2>1
  <2>4. Len(data) \in Nat
    BY <1>1, <1>2, <1>4, LenProperties
  <2>. HIDE DEF s, u, e
  <2>5. z <= Len(data) /\ \A k \in 1..z : data[k] = u[k]
    BY <2>2
  <2>. HIDE DEF x, y, z
  <2>6. x <= Len(data) /\ \A k \in 1..x : data[k] = s[k]
    BY <2>3, <2>4, <2>5
  <2>7. Prefix(i - 1)
    BY <2>6 DEF x, s
  <2>. QED  BY <2>1, <2>7
<1>. HIDE DEF S
<1>8. ASSUME NEW i \in 0..n
      PROVE  Prefix(i)
  <2>1. n - i \in Nat /\ n - i <= n /\ n - (n - i) = i
    BY <1>1
  <2>2. n - i \in S
    BY <1>6, <1>7, <2>1, Induction
  <2>. QED  BY <2>1, <2>2 DEF S
<1>9. data \in Seq(Nat) /\ Len(data) \in Nat /\ data # <<>> /\ data[1] = n
  <2>1. data \in Seq(Nat)
    BY <1>1, <1>2, <1>4
  <2>2. Len(sent[0]) = 1 /\ sent[0][1] = n /\ 0 \in 0..n
    BY <1>1, <1>4
  <2>3. 1 <= Len(data) /\ data[1] = n
    BY <1>8, <2>2
  <2>4. data # <<>>
    BY <2>3
  <2>. QED  BY <2>1, <2>3, <2>4, LenProperties
<1>10. /\ read[0] = [turn |-> Rejected, next |-> 2]
       /\ \A i \in 1..n : read[i] = LET before == read[i - 1]
                                    IN  IF before.next = 0 THEN before
                                        ELSE ReadTurn(data, before.next)
  BY <1>1, <1>9, ReadingIs
<1>. HIDE DEF read
<1>. DEFINE Good(i) == /\ read[i].next = Len(sent[i]) + 1
                       /\ i # 0 => read[i].turn = turns[i]
            U == {i \in Nat : i <= n => Good(i)}
<1>11. 0 \in U
  <2>1. Len(sent[0]) = 1 /\ read[0].next = 2
    BY <1>4, <1>10
  <2>2. Good(0)
    BY <2>1
  <2>. QED  BY <2>2
<1>12. ASSUME NEW i \in Nat, i \in U
       PROVE  i + 1 \in U
  <2>. SUFFICES ASSUME i + 1 <= n PROVE Good(i + 1)
    OBVIOUS
  <2>. DEFINE c == i + 1
  <2>1. c \in 1..n /\ c - 1 = i /\ i <= n /\ i \in 0..n /\ c \in 0..n /\ c # 0
    BY <1>1
  <2>. HIDE DEF c
  <2>. DEFINE t == turns[c]
              e == EncodeTurn(t)
              m == Len(sent[i])
              l == Len(e)
              k == m + 1
  <2>2. /\ t \in ReadableTurn /\ e \in Seq(Nat)
        /\ Len(sent[c]) = m + l
        /\ \A j \in 1..l : sent[c][m + j] = e[j]
        /\ m \in Nat /\ l \in Nat
    BY <1>5, <2>1
  <2>3. read[i].next = k
    BY <1>12, <2>1
  <2>4. Len(sent[c]) <= Len(data) /\ \A j \in 1..Len(sent[c]) : data[j] = sent[c][j]
    BY <1>8, <2>1
  <2>5. FieldsConsistent(t, FlagOf(t))
    BY <1>3, <2>1
  <2>6. read[c] = IF read[i].next = 0 THEN read[i] ELSE ReadTurn(data, read[i].next)
    BY <1>10, <2>1
  <2>. HIDE DEF e, m, t
  <2>7. \A j \in 1..l : data[k + j - 1] = e[j]
    <3>. TAKE j \in 1..l
    <3>1. k + j - 1 = m + j /\ m + j \in 1..(m + l)
      BY <2>2
    <3>2. data[m + j] = sent[c][m + j]
      BY <2>2, <2>4, <3>1
    <3>. QED  BY <2>2, <3>1, <3>2
  <2>8. k \in Nat /\ k >= 1 /\ k + l <= Len(data) + 1
    BY <1>9, <2>2, <2>4
  <2>9. ReadTurn(data, k) = [turn |-> t, next |-> k + l]
    <3>. HIDE DEF k
    <3>. QED  BY <1>9, <2>2, <2>5, <2>7, <2>8, EncodedIsRead DEF e
  <2>10. read[c] = [turn |-> t, next |-> k + l]
    <3>. HIDE DEF l
    <3>1. k # 0
      BY <2>2
    <3>. HIDE DEF k
    <3>. QED  BY <2>3, <2>6, <2>9, <3>1
  <2>11. read[c].turn = t /\ read[c].next = k + l
    BY <2>10
  <2>12. k + l = Len(sent[c]) + 1
    <3>. HIDE DEF l
    <3>. QED  BY <2>2
  <2>13. Good(c)
    BY <2>11, <2>12 DEF t
  <2>. QED  BY <2>13 DEF c
<1>. HIDE DEF U
<1>13. ASSUME NEW i \in 0..n
       PROVE  Good(i)
  <2>1. i \in Nat /\ i <= n
    BY <1>1
  <2>2. i \in U
    BY <1>11, <1>12, <2>1, Induction
  <2>. QED  BY <2>1, <2>2 DEF U
<1>14. read[n].next = Len(data) + 1
  <2>1. Good(n)
    BY <1>1, <1>13
  <2>. QED  BY <1>2, <2>1
<1>15. \A i \in 1..n : read[i].turn = turns[i]
  <2>. TAKE i \in 1..n
  <2>1. i \in 0..n /\ i # 0
    BY <1>1
  <2>. QED  BY <1>13, <2>1
<1>16. ~(data[1] > MaxTurns)
  BY <1>1, <1>9
<1>17. Decode(data) = [i \in 1..n |-> read[i].turn]
  BY <1>9, <1>14, <1>16 DEF Decode, read
<1>18. turns = [i \in 1..n |-> turns[i]]
  BY <1>1, LenProperties
<1>19. Decode(data) = turns
  BY <1>15, <1>17, <1>18
<1>. QED  BY <1>19 DEF data

(* What decodes is the encoding of what it decodes to, and the turns of a  *)
(* channel come back from their own encoding (compute_channel.py,          *)
(* decode_fcc4_transcript).                                                *)
THEOREM TranscriptReadsOneWay ==
    ChannelSpec => []TranscriptIsExact
<1>1. ChannelInv => TranscriptIsExact
  <2>. SUFFICES ASSUME ChannelInv
                PROVE  /\ \A data \in Transcripts(turns) :
                            Decode(data) # NoTurns => Encode(Decode(data)) = data
                       /\ WithPolicies => Decode(Encode(turns)) = turns
    BY DEF TranscriptIsExact
  <2>1. TurnsRecorded
    BY DEF ChannelInv
  <2>2. ASSUME NEW data \in Transcripts(turns), Decode(data) # NoTurns
        PROVE  Encode(Decode(data)) = data
    <3>1. data \in Seq(Nat)
      BY <2>1, ChannelAssumption, TranscriptsTyped DEF TurnsRecorded
    <3>. QED  BY <2>2, <3>1, ChannelAssumption, DecodedIsEncoded
  <2>3. WithPolicies => Decode(Encode(turns)) = turns
    BY <2>1, ChannelAssumption, EncodedDecodes
  <2>. QED  BY <2>2, <2>3
<1>. QED  BY <1>1, ChannelInvariant, PTL

=============================================================================
