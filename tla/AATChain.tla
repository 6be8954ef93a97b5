------------------------------ MODULE AATChain ------------------------------
(***************************************************************************)
(* interop/aat.py: the Agent Audit Trail chains exported from an omega      *)
(* agent ledger, and their verifier.  Pure operators: from_omega,           *)
(* close_record, tombstone, sign_record(_hybrid), anchor_epoch, and the     *)
(* verdicts of verify_chain, verify_epochs and the command line.            *)
(*                                                                         *)
(* A record is a function from the field names it carries, as the dict is:  *)
(* a missing field is outside its DOMAIN.  A hash is the hashed value (no   *)
(* collisions), a signature names its key and the value it is over, and a   *)
(* key is its own kid (RFC 7638 thumbprints are one to one).                *)
(***************************************************************************)
EXTENDS Integers, FiniteSets, SequencesExt, MerkleTree, Timestamp

CONSTANTS
    Keys,       \* the key pairs there are
    AlgOf       \* [Keys -> SigAlgs]

Get(d, k)          == IF k \in DOMAIN d THEN d[k] ELSE None
Without(d, fields) == [k \in DOMAIN d \ fields |-> d[k]]
d ++ e             == [k \in DOMAIN d \cup DOMAIN e |->     \* {**e, **d}
                          IF k \in DOMAIN d THEN d[k] ELSE e[k]]
Put(d, key, value) == [k \in DOMAIN d \cup {key} |-> IF k = key THEN value ELSE d[k]]
If(cond, why)      == IF cond THEN {why} ELSE {}

-----------------------------------------------------------------------------
(* Vocabularies (sections 3.1, 4.2, 7 and 8 of the draft).                  *)

ActionTypes     == {"tool_call", "tool_response", "decision", "delegation",
                    "escalation", "error", "lifecycle"}
Outcomes        == {"success", "failure", "timeout", "denied", "escalated"}
TrustLevels     == {"L0", "L1", "L2", "L3", "L4"}
RecordPhases    == {"pre_execution", "post_execution", "concurrent"}
SigAlgs         == {"ES256", "ML-DSA-65"}
LifecycleEvents == {"session_start", "session_end", "pause", "resume",
                    "configuration_change", "key_rotation",
                    "trust_level_change", "record_deleted"}
Mandatory       == {"record_id", "timestamp", "agent_id", "agent_version",
                    "session_id", "action_type", "action_detail", "outcome",
                    "trust_level", "parent_record_id", "prev_hash",
                    "record_phase"}
DetailRequired  ==
    [tool_call     |-> {"tool_name", "parameters_hash"},
     tool_response |-> {"tool_name", "response_hash", "parent_call_id"},
     decision      |-> {"decision_type"},
     delegation    |-> {"delegate_agent_id", "delegate_trust_level",
                        "task_description_hash"},
     escalation    |-> {"escalation_reason", "escalation_target"},
     error         |-> {"error_code", "error_message", "error_category",
                        "recoverable"},
     lifecycle     |-> {"event"}]
PreExecutionRequired  == {<<"decision", "denied">>, <<"decision", "escalated">>,
                          <<"delegation", "denied">>}
SignatureValueFields  == {"signature", "signature_classical"}

\* The three tables of the export: what an omega action and outcome become.
ActionMap  == [tool_call |-> "tool_call", decision |-> "decision",
               file_write |-> "tool_call", file_read |-> "tool_call",
               command_exec |-> "tool_call", network |-> "tool_call"]
OutcomeMap == [executed |-> "success", blocked |-> "denied",
               pending_approval |-> "escalated"]
PhaseMap   == [blocked |-> "pre_execution", pending_approval |-> "pre_execution",
               executed |-> "post_execution"]

-----------------------------------------------------------------------------
(* Hashes and signatures.                                                   *)

NoBatch(r)      == Without(r, {"batch"})
SigningInput(r) == Without(r, SignatureValueFields \cup {"batch"})

(* Faulty variants, named *_...: each is the definition that follows it     *)
(* with a bug its author could have made, and violates a property.          *)
RecordHash_NoSignature(r) == SigningInput(r)

(* A record's hash, the batch left out: the record itself, where a        *)
(* signature over this very record is written without repeating it.  Still  *)
(* one to one, since the other fields say what such a signature is over.    *)
RecordHash(r) ==
    LET over == SigningInput(r)
    IN  [k \in DOMAIN r \ {"batch"} |->
            IF k \in SignatureValueFields /\ r[k].over = over
            THEN [by |-> r[k].by, form |-> r[k].form] ELSE r[k]]

Leaf(r) == LeafHash(RecordHash(r))

\* ECDSA has two forms of every signature; the signers emit low-S.
Signature(key, over) == [by |-> key, over |-> over, form |-> "low"]

SignRecord(rec, key) ==
    LET out == [sig_alg |-> AlgOf[key], signer_kid |-> key]
                 ++ Without(rec, SignatureValueFields \cup {"signer_kid_classical"})
    IN  [signature |-> Signature(key, SigningInput(out))] ++ out

\* ML-DSA-65 and ES256 over one signed message, which covers both kids.
SignRecordHybrid(rec, pq, classical) ==
    LET out == [sig_alg |-> "ML-DSA-65", signer_kid |-> pq,
                signer_kid_classical |-> classical]
                 ++ Without(rec, SignatureValueFields)
    IN  [signature           |-> Signature(pq, SigningInput(out)),
         signature_classical |-> Signature(classical, SigningInput(out))] ++ out

\* signer = [pq, classical], either None: the caller's key arguments.
Sign(rec, signer) ==
    IF signer.pq # None /\ signer.classical # None
    THEN SignRecordHybrid(rec, signer.pq, signer.classical)
    ELSE IF signer.pq # None THEN SignRecord(rec, signer.pq)
    ELSE IF signer.classical # None THEN SignRecord(rec, signer.classical)
    ELSE rec

-----------------------------------------------------------------------------
(* What a record is.                                                        *)

Event(r)       == IF "action_detail" \in DOMAIN r THEN Get(r.action_detail, "event")
                                                  ELSE None
IsEvent(r, ev) == Get(r, "action_type") = "lifecycle" /\ Event(r) = ev
IsTombstone(r) == IsEvent(r, "record_deleted")
IsClose(r)     == IsEvent(r, "session_end")

-----------------------------------------------------------------------------
(***************************************************************************)
(* close_record: None when it raises (empty chain, or a time before the     *)
(* last record's).  session_hash is over every prev_hash of the chain and   *)
(* the close's own, as digests of one length: the sequence itself.          *)
(***************************************************************************)
CloseRecord(chain, synthesised, time) ==
    IF chain = << >> \/ time < Last(chain).timestamp THEN None
    ELSE LET last == Last(chain)
             hashes == Append([i \in 1 .. Len(chain) - 1 |-> chain[i + 1].prev_hash],
                              RecordHash(last))
             rec == [record_id        |-> <<"close", last.session_id, RecordHash(last)>>,
                     timestamp        |-> time,
                     agent_id         |-> last.agent_id,
                     agent_version    |-> last.agent_version,
                     session_id       |-> last.session_id,
                     action_type      |-> "lifecycle",
                     action_detail    |->
                        [event        |-> "session_end",
                         trigger      |-> IF synthesised THEN "export" ELSE "task_complete",
                         session_hash |-> hashes,
                         record_count |-> Len(chain) + 1],
                     outcome          |-> "success",
                     trust_level      |-> last.trust_level,
                     record_phase     |-> "post_execution",
                     parent_record_id |-> last.record_id,
                     prev_hash        |-> RecordHash(last)]
         IN  IF "recording_component" \in DOMAIN last
             THEN [recording_component |-> last.recording_component] ++ rec
             ELSE rec

(***************************************************************************)
(* tombstone: None for a lifecycle record that is not a tombstone.  A       *)
(* record tombstoned again keeps the hash of the ORIGINAL record and of the *)
(* original's signature; the deleter's earlier signatures accumulate.       *)
(***************************************************************************)
SignatureFields == {"signature", "sig_alg", "signer_kid", "signature_classical",
                    "signer_kid_classical"}

KeptFields_NoSession == {"record_id", "timestamp", "agent_id", "agent_version",
                         "parent_record_id", "prev_hash", "trust_level",
                         "record_phase", "recording_component", "content_fingerprint"}

KeptFields == {"record_id", "timestamp", "agent_id", "agent_version", "session_id",
               "parent_record_id", "prev_hash", "trust_level", "record_phase",
               "recording_component", "content_fingerprint"}

OriginalHash_OfTombstone(rec) == RecordHash(rec)

OriginalHash(rec) == IF IsTombstone(rec) THEN rec.tombstone_hash ELSE RecordHash(rec)

Tombstone(rec, deletedAt, signer) ==
    LET again == IsTombstone(rec)
        old   == rec.action_detail
        orig  == [k \in SignatureFields \cap DOMAIN rec |-> rec[k]]
        detail == [event                |-> "record_deleted",
                   deletion_reason      |-> "erasure",
                   deleted_at           |-> deletedAt,
                   original_action_type |-> IF again THEN old.original_action_type
                                                     ELSE rec.action_type]
        signatures ==
            IF again
            THEN (IF "original_signature" \in DOMAIN old
                  THEN [original_signature |-> old.original_signature] ELSE << >>)
                 ++ (IF DOMAIN orig # {}
                     THEN [deleter_signatures |->
                             Append(IF "deleter_signatures" \in DOMAIN old
                                    THEN old.deleter_signatures ELSE << >>, orig)]
                     ELSE << >>)
            ELSE IF DOMAIN orig # {} THEN [original_signature |-> orig] ELSE << >>
        out == [action_type    |-> "lifecycle",
                action_detail  |-> detail ++ signatures,
                outcome        |-> "success",
                tombstone_hash |-> OriginalHash(rec)]
               ++ [k \in KeptFields \cap DOMAIN rec |-> rec[k]]
    IN  IF rec.action_type = "lifecycle" /\ ~again THEN None ELSE Sign(out, signer)
=============================================================================
