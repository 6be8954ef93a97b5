----------------------------- MODULE EpochTree ------------------------------
(***************************************************************************)
(* The tree of an epoch as its trail grows (anchor_epoch, aat.py:644): each *)
(* record adds a leaf, and the batch evidence of the epoch is the root of   *)
(* the leaves so far with a path for each of them.                          *)
(***************************************************************************)
EXTENDS MerkleTree

CONSTANTS
    Contents,       \* what is hashed into a leaf: a record without its batch
    MaxLeaves

ASSUME MaxLeavesAssumption == MaxLeaves \in Nat

VARIABLE leaves

TreeInit == leaves = << >>

\* leaves.append(leaf_hash(record))
Grow ==
    /\ Len(leaves) < MaxLeaves
    /\ \E c \in Contents : leaves' = Append(leaves, LeafHash(c))

TreeSpec == TreeInit /\ [][Grow]_leaves

-----------------------------------------------------------------------------
(***************************************************************************)
(* PROPERTY ProofsFit (aat.py:228-316).  The bottom-up levels end in the    *)
(* root of the recursive tree and the bottom-up paths are the recursive     *)
(* ones; each leads from its own leaf, and from no different one, to the    *)
(* root, and proves its own index; read against a tree of another size it   *)
(* proves no index the path of another leaf proves there.                   *)
(***************************************************************************)
ProofsFit ==
    LET n      == Len(leaves)
        root   == MerkleRoot(leaves)
        levels == MerkleLevels(leaves)
        paths  == AuditPaths(leaves)
    IN  /\ levels[Len(levels)] = <<root>>
        /\ \A i \in 1 .. n :
             /\ paths[i] = AuditPath(leaves, i - 1)
             /\ IndexFromPath(paths[i], n) = i - 1
             /\ \A j \in 1 .. n :
                  (RootFromPath(leaves[j], paths[i]) = root) <=> (leaves[i] = leaves[j])
        /\ \A i, j \in 1 .. n, m \in 1 .. n + 1 :
             i # j => \/ IndexFromPath(paths[i], m) = NoIndex
                      \/ IndexFromPath(paths[i], m) # IndexFromPath(paths[j], m)
=============================================================================
