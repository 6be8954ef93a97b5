------------------------------ MODULE AATEpoch ------------------------------
(***************************************************************************)
(* interop/aat.py, section 6.4: records of one epoch get a detached batch   *)
(* object each (anchor_epoch), and a relying party checks those objects     *)
(* against the epoch anchors it holds (verify_epochs); the exit code of     *)
(* `aat verify` puts both verdicts together.                                *)
(***************************************************************************)
EXTENDS AATVerdict

\* SHA-256 of the raw root: what the token over an epoch is over (32 bytes).
Imprint(root) == <<"sha256", root>>

(***************************************************************************)
(* anchor_epoch: the records are changed in place before the TSA is asked,  *)
(* so when it refuses (RuntimeError) or the request raises, they carry the  *)
(* batch of an epoch that has no anchor, and their earlier batch is gone.   *)
(***************************************************************************)
AnchorEpoch(records, eid, tsa, host) ==
    LET leaves == [i \in 1 .. Len(records) |-> Leaf(records[i])]
        root   == MerkleRoot(leaves)
        paths  == AuditPaths(leaves)
        batch(i) == [epoch_id |-> eid, merkle_root |-> root, leaf_index |-> i - 1,
                     inclusion_proof |-> paths[i]]
        anchor == [epoch_id |-> eid, merkle_root |-> root, leaf_count |-> Len(records)]
        st     == Stamp(host, Imprint(root), 32)
    IN  [records |-> [i \in 1 .. Len(records) |-> [batch |-> batch(i)] ++ NoBatch(records[i])],
         anchor  |-> IF ~tsa THEN anchor
                     ELSE IF st.status = "anchored"
                     THEN [tsa |-> [token |-> st.token, imprint |-> Imprint(root)]] ++ anchor
                     ELSE None]

-----------------------------------------------------------------------------
(* verify_epochs.  anchors is a set; two different anchors of one epoch     *)
(* conflict, and the one the list has first counts.                         *)

Anchored(anchors)        == {a.epoch_id : a \in anchors}
AnchorOf(anchors, eid)   == CHOOSE a \in anchors : a.epoch_id = eid
ConflictProblems(anchors) ==
    If(\E a, b \in anchors : a # b /\ a.epoch_id = b.epoch_id, "conflicting anchors")

(* The records whose batch is judged: those that have one, of an epoch that *)
(* has an anchor.                                                           *)
Judged(records, anchors, eid) ==
    {i \in 1 .. Len(records) :
        /\ "batch" \in DOMAIN records[i]
        /\ records[i].batch.epoch_id = eid
        /\ eid \in Anchored(anchors)}

Proof(r) == Get(r.batch, "inclusion_proof")

BatchProblems(records, anchors, i) ==
    LET r == records[i]
        b == r.batch
        a == AnchorOf(anchors, b.epoch_id)
    IN  IF "batch" \notin DOMAIN r THEN {}
        ELSE IF b.epoch_id \notin Anchored(anchors) THEN {"no anchor for the epoch"}
        ELSE If(a.merkle_root # b.merkle_root, "merkle_root differs from the anchor")
             \cup If(Proof(r) # None /\ RootFromPath(Leaf(r), Proof(r)) # b.merkle_root,
                     "proof does not lead to merkle_root")
             \cup If(/\ Proof(r) # None
                     /\ RootFromPath(Leaf(r), Proof(r)) = b.merkle_root
                     /\ IndexFromPath(Proof(r), a.leaf_count) # b.leaf_index,
                     "proof proves another leaf index")
             \cup If(\E j \in Judged(records, anchors, b.epoch_id) :
                        /\ j < i
                        /\ records[j].batch.leaf_index = b.leaf_index
                        /\ Leaf(records[j]) # Leaf(r), "two records at one leaf_index")
             \cup If(b.leaf_index >= a.leaf_count, "leaf_index beyond leaf_count")

(* leaves_by_epoch: the leaf at an index, the last proven one, else the     *)
(* first record that claims it.                                             *)
LeafAt(records, judged, index) ==
    LET at     == {i \in judged : records[i].batch.leaf_index = index}
        proven == {i \in at : Proof(records[i]) # None}
    IN  IF proven # {} THEN Leaf(records[CHOOSE i \in proven : \A j \in proven : j <= i])
                       ELSE Leaf(records[CHOOSE i \in at : \A j \in at : i <= j])

\* A whole epoch that was dropped leaves no index to miss.
LeavesMissing_SomeLeft(indexes, anchor) ==
    indexes # {} /\ Cardinality(indexes) < anchor.leaf_count

LeavesMissing(indexes, anchor) == Cardinality(indexes) < anchor.leaf_count

(* One epoch: rebuilt when every leaf is present, else incomplete; a record *)
(* without a proof needs the rebuilt epoch.                                 *)
EpochProblems(records, anchors, eid, complete) ==
    LET a       == AnchorOf(anchors, eid)
        judged  == Judged(records, anchors, eid)
        indexes == {records[i].batch.leaf_index : i \in judged}
        bare    == {i \in judged : Proof(records[i]) = None}
        whole   == indexes = 0 .. a.leaf_count - 1
        rebuilt == MerkleRoot([k \in 1 .. a.leaf_count |-> LeafAt(records, judged, k - 1)])
    IN  If(Cardinality(indexes) > a.leaf_count, "more leaves than leaf_count")
        \cup If(whole /\ rebuilt # a.merkle_root, "leaves do not rebuild the root")
        \cup If(/\ whole /\ rebuilt = a.merkle_root
                /\ \E i \in bare : Leaf(records[i])
                     # LeafAt(records, judged, records[i].batch.leaf_index),
                "record without a proof is not the leaf")
        \cup If(bare # {} /\ ~ (whole /\ rebuilt = a.merkle_root), "membership not verifiable")
        \cup If(complete /\ LeavesMissing(indexes, a), "anchored leaves missing")

(* The token of an anchor against the roots the relying party holds.        *)
TsaVerdict(anchor, host, ca) ==
    IF "tsa" \notin DOMAIN anchor THEN "none"
    ELSE VerifyToken(host, anchor.tsa.token, Imprint(anchor.merkle_root), ca)

TsaProblems(anchors, host, ca) ==
    If(\E a \in anchors : /\ "tsa" \in DOMAIN a
                          /\ a.tsa.imprint # Imprint(a.merkle_root), "imprint is not the root's")
      \cup If(\E a \in anchors : TsaVerdict(a, host, ca) = "bad", "token does not verify")

BatchesFit(records, anchors, complete) ==
    /\ ConflictProblems(anchors) = {}
    /\ \A i \in 1 .. Len(records) : BatchProblems(records, anchors, i) = {}
    /\ \A eid \in Anchored(anchors) : EpochProblems(records, anchors, eid, complete) = {}

(* "ok", "problem", or "not_run": CheckNotRun leaves no verdict behind.     *)
(* fit is BatchesFit of the records.                                        *)
VerifyEpochs(fit, anchors, host, ca) ==
    IF \E a \in anchors : TsaVerdict(a, host, ca) = "not_run" THEN "not_run"
    ELSE IF TsaProblems(anchors, host, ca) = {} /\ fit THEN "ok" ELSE "problem"

TimeVerified(anchors, host, ca) ==
    LET stamped == {a \in anchors : "tsa" \in DOMAIN a}
    IN  /\ stamped # {}
        /\ \A a \in stamped : TsaVerdict(a, host, ca) = "good"

(***************************************************************************)
(* `aat verify chain [--epochs anchors]`, once its files are read: 0 only   *)
(* when every verdict asked for is good, 1 otherwise, 74 (EX_IOERR) and no  *)
(* verdict when a check could not be run here.  chainOk is VerifyChain of   *)
(* the records, fit their BatchesFit.                                       *)
(***************************************************************************)
ExitCode(chainOk, fit, anchors, host, ca) ==
    LET epochs == IF anchors = None THEN "ok" ELSE VerifyEpochs(fit, anchors, host, ca)
    IN  IF epochs = "not_run" THEN 74
        ELSE IF chainOk /\ epochs = "ok" THEN 0 ELSE 1
=============================================================================
