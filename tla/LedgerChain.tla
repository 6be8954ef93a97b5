---------------------------- MODULE LedgerChain ----------------------------
(***************************************************************************)
(* The entries of a ledger and its hash chain: how an entry is made, what  *)
(* the loader (_replay) and verify() (verify_text) require of the lines.   *)
(* A digest is represented by all that it covers, the (idx, data) pairs of *)
(* the chain up to its entry, so that distinct contents have distinct      *)
(* digests: SHA-256 without collisions.  The time stamp is part of `data`. *)
(***************************************************************************)
EXTENDS Integers, Sequences

CONSTANT Data    \* the payloads

Digest == Seq(Nat \X Data)
GENESIS == << >>
Entry == [idx : Nat, data : Data, prev_hash : Digest, self_hash : Digest]

HashEntry(idx, data, prev) == Append(prev, <<idx, data>>)

NewEntry(idx, data, prev) ==
    [idx |-> idx, data |-> data, prev_hash |-> prev,
     self_hash |-> HashEntry(idx, data, prev)]

\* The link the k-th entry of f must carry, and the one that follows f.
PrevOf(f, k) == IF k = 1 THEN GENESIS ELSE f[k - 1].self_hash
LastHash(f) == IF f = << >> THEN GENESIS ELSE f[Len(f)].self_hash

\* _replay: the lines of f after position `from` continue the hash `prev`.
\* The stored idx is not looked at.
Continues(f, from, prev) ==
    \A k \in (from + 1)..Len(f) :
        /\ f[k].prev_hash = IF k = from + 1 THEN prev ELSE f[k - 1].self_hash
        /\ f[k].self_hash = HashEntry(f[k].idx, f[k].data, f[k].prev_hash)

\* verify_text: the chain from GENESIS, and the idx of every line.
VerifyText(f) ==
    \A k \in 1..Len(f) :
        /\ f[k].idx = k - 1
        /\ f[k].prev_hash = PrevOf(f, k)
        /\ f[k].self_hash = HashEntry(f[k].idx, f[k].data, f[k].prev_hash)
=============================================================================
