----------------------------- MODULE MerkleTree -----------------------------
(***************************************************************************)
(* The RFC 6962 tree of interop/aat.py: the root of a sequence of leaves,   *)
(* the audit path of one leaf computed two ways (top down, and bottom up    *)
(* for all leaves at once), and the two readings of a path a verifier       *)
(* makes: the root it leads to and the leaf index it proves.                *)
(*                                                                         *)
(* SHA-256 is a free constructor: a node is the tuple of its two children,  *)
(* so different trees have different roots.  Indexes start at 0, as in the  *)
(* code; sequences start at 1.                                              *)
(***************************************************************************)
EXTENDS Integers, Sequences

LeafHash(content)  == <<"leaf", content>>
Node(left, right)  == <<"node", left, right>>
EmptyRoot          == <<"empty">>

\* What index_from_path answers when it raises ValueError.
NoIndex == -1

(* Where n >= 2 leaves split: k doubles from 1 while its double is below n. *)
Doubled(k, n) == IF k * 2 < n THEN k * 2 ELSE k

Split(n) ==
    LET k[i \in 0 .. n] == IF i = 0 THEN 1 ELSE Doubled(k[i - 1], n)
    IN  k[n]

(* Root of the `count` leaves that follow the first `from`; mth[n] is the   *)
(* root of n leaves, wherever they begin.                                   *)
SubtreeRoot(leaves, from, count) ==
    LET mth[n \in 1 .. Len(leaves)] ==
          [lo \in 0 .. Len(leaves) - n |->
             IF n = 1 THEN leaves[lo + 1]
             ELSE LET k == Split(n) IN Node(mth[k][lo], mth[n - k][lo + k])]
    IN  IF count = 0 THEN EmptyRoot ELSE mth[count][from]

MerkleRoot(leaves) == SubtreeRoot(leaves, 0, Len(leaves))

PathStep(hash, side) == [hash |-> hash, side |-> side]

(* PATH(m, D[n]): the siblings from the leaf up; side is where the sibling  *)
(* sits.  Defined for 0 <= index < Len(leaves).                             *)
SubtreePath(leaves, index, from, count) ==
    LET path[n \in 1 .. Len(leaves)] ==
          [lo \in 0 .. Len(leaves) - n |->
             IF n = 1 THEN << >>
             ELSE LET k == Split(n)
                  IN  IF index - lo < k
                      THEN Append(path[k][lo],
                                  PathStep(SubtreeRoot(leaves, lo + k, n - k), "right"))
                      ELSE Append(path[n - k][lo + k],
                                  PathStep(SubtreeRoot(leaves, lo, k), "left"))]
    IN  path[count][from]

AuditPath(leaves, index) == SubtreePath(leaves, index, 0, Len(leaves))

\* A faulty variant: an unpaired last node is hashed with itself.
LevelAbove_Duplicates(level) ==
    [j \in 1 .. (Len(level) + 1) \div 2 |->
        Node(level[2 * j - 1],
             IF 2 * j <= Len(level) THEN level[2 * j] ELSE level[2 * j - 1])]

(* One level up: pairs are hashed, an unpaired last node is promoted.       *)
LevelAbove(level) ==
    [j \in 1 .. (Len(level) + 1) \div 2 |->
        IF 2 * j <= Len(level) THEN Node(level[2 * j - 1], level[2 * j])
                               ELSE level[2 * j - 1]]

\* The levels up to the first of one node.
MerkleLevels(leaves) ==
    LET level[h \in 1 .. Len(leaves)] ==
          IF h = 1 THEN leaves ELSE LevelAbove(level[h - 1])
        top == CHOOSE h \in 1 .. Len(leaves) :
                  Len(level[h]) = 1 /\ \A g \in 1 .. h - 1 : Len(level[g]) > 1
    IN  IF leaves = << >> THEN << <<EmptyRoot>> >> ELSE [h \in 1 .. top |-> level[h]]

(* One level further on a leaf's way up: the sibling is pos ^ 1, if there   *)
(* is one, and pos halves.                                                  *)
Climb(at, level) ==
    LET sib == IF at.pos % 2 = 0 THEN at.pos + 1 ELSE at.pos - 1
    IN  [path |-> IF sib < Len(level)
                  THEN Append(at.path, PathStep(level[sib + 1],
                                                IF sib < at.pos THEN "left" ELSE "right"))
                  ELSE at.path,
         pos  |-> at.pos \div 2]

PathThrough(levels, index) ==
    LET at[h \in 1 .. Len(levels)] ==
          IF h = 1 THEN [path |-> << >>, pos |-> index] ELSE Climb(at[h - 1], levels[h - 1])
    IN  at[Len(levels)].path

(* Every leaf's path from one bottom-up build.                              *)
AuditPaths(leaves) == [i \in 1 .. Len(leaves) |-> PathThrough(MerkleLevels(leaves), i - 1)]

Part(lo, size) == [lo |-> lo, size |-> size]

(* From a part of the tree to the half a step leaves the leaf in; a path    *)
(* longer than the tree is deep raises.                                     *)
Descend(part, step) ==
    LET k == Split(part.size)
    IN  IF part.size <= 1 THEN Part(NoIndex, 0)
        ELSE IF step.side = "right" THEN Part(part.lo, k)
                                    ELSE Part(part.lo + k, part.size - k)

(* The index a path proves in a part of the tree: the last step first; a    *)
(* path shorter than the tree is deep raises.                               *)
IndexWithin(path, part) ==
    LET at[d \in 0 .. Len(path)] ==
          IF d = 0 THEN part ELSE Descend(at[d - 1], path[Len(path) - d + 1])
    IN  IF at[Len(path)].size = 1 THEN at[Len(path)].lo ELSE NoIndex

IndexFromPath(path, n) == IndexWithin(path, Part(0, n))

Join(hash, step) ==
    IF step.side = "left" THEN Node(step.hash, hash) ELSE Node(hash, step.hash)

RootFromPath(leaf, path) ==
    LET h[k \in 0 .. Len(path)] == IF k = 0 THEN leaf ELSE Join(h[k - 1], path[k])
    IN  h[Len(path)]
=============================================================================
