----------------------------- MODULE AATVerdict -----------------------------
(***************************************************************************)
(* interop/aat.py, verify_chain: the problems the offline verifier reports  *)
(* for a chain, record by record.  The chain is good when there are none.   *)
(*                                                                         *)
(* The code walks the chain once and carries what it has seen; here each    *)
(* check names the earlier records it depends on.  recs is the chain, i a   *)
(* position in it, and opts what the relying party passes:                  *)
(*   keys           [kid -> key], or None                                   *)
(*   fallback       the -03 public key (pubkey_pem), or None                *)
(*   legacy         allow_legacy_03                                         *)
(*   agent_kid, recorder_kid   pinned kids, or None                         *)
(*   tombstone_kids the named deleting authorities (a set)                  *)
(*   require        require_signatures                                      *)
(*   algs           the algorithms this host can verify                     *)
(***************************************************************************)
EXTENDS AATChain

-----------------------------------------------------------------------------
(* Keys.                                                                    *)

(* The kids the key set resolves: a kid that is not the thumbprint of its   *)
(* key, or a P-256 key on a host that cannot read one, is bad and reported. *)
KeySet(opts) ==
    LET given    == IF opts.keys = None THEN << >> ELSE opts.keys
        Readable(k) == AlgOf[k] = "ES256" => "ES256" \in opts.algs
        good     == {kid \in DOMAIN given : given[kid] = kid /\ Readable(kid)}
        usable   == /\ opts.fallback # None
                    /\ AlgOf[opts.fallback] = "ES256" /\ Readable(opts.fallback)
    IN  [kids     |-> good \cup (IF usable THEN {opts.fallback} ELSE {}),
         fallback |-> IF usable THEN opts.fallback ELSE None,
         bad      |-> \/ good # DOMAIN given
                      \/ opts.fallback # None /\ ~usable]

(* The key a kid names: without a kid only the -03 fallback, when allowed.  *)
Resolve(kid, alg, opts) ==
    LET ks == KeySet(opts)
    IN  IF kid = None
        THEN IF opts.legacy /\ alg = "ES256" THEN ks.fallback ELSE None
        ELSE IF kid \in ks.kids THEN kid ELSE None

(* One signature value against one key on this host; both ECDSA forms pass. *)
SignatureVerifies(value, key, over, opts) ==
    /\ AlgOf[key] \in opts.algs
    /\ value.by = key
    /\ value.over = over

(* A hybrid record is good only with both halves.                           *)
RecordSignaturesVerify(r, opts) ==
    LET alg == IF "sig_alg" \in DOMAIN r THEN r.sig_alg ELSE "ES256"
        key == Resolve(Get(r, "signer_kid"), alg, opts)
        classical == IF "signer_kid_classical" \in DOMAIN r
                     THEN Resolve(r.signer_kid_classical, "ES256", opts) ELSE None
        msg == SigningInput(r)
    IN  /\ alg \in SigAlgs
        /\ key # None
        /\ AlgOf[key] = alg
        /\ SignatureVerifies(r.signature, key, msg, opts)
        /\ "signature_classical" \in DOMAIN r =>
             /\ classical # None
             /\ AlgOf[classical] = "ES256"
             /\ SignatureVerifies(r.signature_classical, classical, msg, opts)

-----------------------------------------------------------------------------
(* What a record must say (sections 3.1, 3.3, 4.2, 7, 8).                   *)

FieldProblems(recs, i) ==
    LET r == recs[i]
    IN  If(\E j \in 1 .. i - 1 : recs[j].record_id = r.record_id, "duplicate record_id")
        \cup If(~ (Mandatory \subseteq DOMAIN r), "missing mandatory field")
        \cup If(Get(r, "action_type") \notin ActionTypes, "action_type")
        \cup If(Get(r, "outcome") \notin Outcomes, "outcome")
        \cup If(Get(r, "trust_level") \notin TrustLevels, "trust_level")
        \cup If(Get(r, "record_phase") \notin RecordPhases \cup {None}, "record_phase")

(* One chain is one session of one agent, in time order.                    *)
IdentityProblems(recs, i) ==
    LET r == recs[i]
    IN  If(i > 1 /\ r.timestamp < recs[i - 1].timestamp, "not monotonic")
        \cup If(r.session_id # recs[1].session_id, "session_id differs")
        \cup If(r.agent_id # recs[1].agent_id, "agent_id differs")

DetailProblems(recs, i) ==
    LET r == recs[i]
    IN  If(DOMAIN r.action_detail = {}, "action_detail empty")
        \cup If(/\ r.action_type \in ActionTypes
                /\ ~ (DetailRequired[r.action_type] \subseteq DOMAIN r.action_detail),
                "action_detail field missing")
        \cup If(/\ r.action_type = "lifecycle"
                /\ Event(r) \notin LifecycleEvents \cup {None}, "lifecycle event")

\* A response names an earlier call of the session, deleted or not (7.2).
ToolCalls(recs, i) ==
    {recs[j].record_id : j \in
        {j \in 1 .. i - 1 : \/ recs[j].action_type = "tool_call"
                            \/ /\ IsTombstone(recs[j])
                               /\ Get(recs[j].action_detail, "original_action_type") = "tool_call"}}

CallProblems(recs, i) ==
    LET r == recs[i]
        call == Get(r.action_detail, "parent_call_id")
    IN  If(/\ r.action_type = "tool_response"
           /\ call # None
           /\ call \notin ToolCalls(recs, i), "no such tool_call")

\* Below L2 a delegation is made only by an explicit downgrade (5.3).
TrustProblems(recs, i) ==
    LET r == recs[i]
    IN  If(/\ r.action_type = "delegation"
           /\ r.trust_level \in {"L0", "L1"}
           /\ ~ ("trust_assignment" \in DOMAIN r /\ r.trust_assignment.downgraded),
           "consequential below L2")

NonceProblems(recs, i) ==
    LET r == recs[i]
    IN  If(/\ "nonce" \in DOMAIN r
           /\ \E j \in 1 .. i - 1 : Get(recs[j], "nonce") = r.nonce, "duplicate nonce")

PhaseProblems(recs, i) ==
    LET r == recs[i]
    IN  If(/\ <<r.action_type, r.outcome>> \in PreExecutionRequired
           /\ r.record_phase # "pre_execution", "must be pre_execution")
        \cup If(IsEvent(r, "session_start") /\ r.record_phase # "concurrent", "genesis phase")
        \cup If(IsClose(r) /\ r.record_phase # "post_execution", "close phase")

(* The companions of a signature: kids and algorithm of a hybrid record.    *)
HybridProblems(recs, i) ==
    LET r == recs[i]
    IN  If(Get(r, "sig_alg") \notin SigAlgs \cup {None}, "sig_alg")
        \cup If("signature_classical" \in DOMAIN r /\ Get(r, "sig_alg") # "ML-DSA-65",
                "signature_classical outside hybrid mode")
        \cup If("signature_classical" \in DOMAIN r
                  /\ "signer_kid_classical" \notin DOMAIN r, "no signer_kid_classical")
        \cup If(/\ "signature_classical" \in DOMAIN r
                /\ Get(r, "signer_kid_classical") # None
                /\ Get(r, "signer_kid_classical") = Get(r, "signer_kid"), "two distinct keys")
        \cup If(/\ "signer_kid_classical" \in DOMAIN r
                /\ "signature_classical" \notin DOMAIN r, "classical half missing")

-----------------------------------------------------------------------------
(* Who recorded, who signed (section 5).                                    *)

GenesisMode(recs)     == Get(recs[1].action_detail, "recording_mode")
GenesisRecorder(recs) == Get(recs[1].action_detail, "recording_component_id")

(* The recording components other than the agent that the session names.    *)
Recorders(recs) ==
    {recs[j].recording_component : j \in
        {j \in 1 .. Len(recs) : /\ "recording_component" \in DOMAIN recs[j]
                                /\ recs[j].recording_component # recs[j].agent_id}}
      \cup (IF GenesisRecorder(recs) # None /\ GenesisMode(recs) = "independent"
            THEN {GenesisRecorder(recs)} ELSE {})

(* Independence is decided for the whole session before the walk.           *)
Independent(recs) == GenesisMode(recs) = "independent" \/ Recorders(recs) # {}

SessionRecorder(recs) ==
    IF GenesisRecorder(recs) \in Recorders(recs) THEN GenesisRecorder(recs)
    ELSE CHOOSE c \in Recorders(recs) : TRUE

RecordingProblems(recs, i, opts) ==
    LET r == recs[i]
        component == Get(r, "recording_component")
        kids == {Get(r, "signer_kid"), Get(r, "signer_kid_classical")} \ {None}
    IN  If(i = 1 /\ GenesisMode(recs) \notin {None, "self", "independent"}, "recording_mode")
        \cup If(i = 1 /\ GenesisMode(recs) = "independent" /\ GenesisRecorder(recs) = None,
                "no recording_component_id")
        \cup If(GenesisMode(recs) = "self" /\ Independent(recs),
                "self-recording declared, another component named")
        \cup IF ~Independent(recs) THEN {}
             ELSE If(component = None, "no recording_component")
                  \cup If(component = r.agent_id, "recording_component is the agent")
                  \cup If(/\ Cardinality(Recorders(recs)) > 1
                          /\ component \notin {None, SessionRecorder(recs)},
                          "a second recording component")
                  \cup If("signature" \notin DOMAIN r, "the recorder must sign")
                  \cup If("signature" \in DOMAIN r /\ "signer_kid" \notin DOMAIN r,
                          "independent record without signer_kid")
                  \cup If(/\ {"signature", "signer_kid"} \subseteq DOMAIN r
                          /\ opts.agent_kid \in kids, "signed with the agent's key")

(* The kid a signature is judged by: signer_kid, else the companion's, else *)
(* the thumbprint of the -03 fallback key.                                  *)
Primary(r, opts) ==
    IF Get(r, "signer_kid") # None THEN r.signer_kid
    ELSE IF Get(r, "signer_kid_classical") # None THEN r.signer_kid_classical
    ELSE IF "signature" \in DOMAIN r /\ opts.legacy THEN KeySet(opts).fallback
    ELSE None

(* The pinned signer, else the first signing key the walk met so far.       *)
SessionSigner(recs, i, pin, opts) ==
    LET signed == {j \in 1 .. i : /\ "signature" \in DOMAIN recs[j]
                                  /\ ~IsTombstone(recs[j])
                                  /\ Primary(recs[j], opts) # None}
    IN  IF pin # None THEN pin
        ELSE IF signed = {} THEN None
        ELSE Primary(recs[CHOOSE j \in signed : \A k \in signed : j <= k], opts)

SignerProblems(recs, i, opts) ==
    LET r       == recs[i]
        primary == Primary(r, opts)
        pin     == IF Independent(recs) THEN opts.recorder_kid ELSE opts.agent_kid
        signer  == SessionSigner(recs, i, pin, opts)
        allowed == opts.tombstone_kids \cup ({signer} \ {None})
    IN  IF "signature" \notin DOMAIN r \/ primary = None THEN {}
        ELSE IF IsTombstone(r)
             THEN If(allowed # {} /\ primary \notin allowed, "not a deleting authority")
             ELSE If(primary # signer, "not the session's signer")

-----------------------------------------------------------------------------
(* The chain (sections 6.1, 6.3, 8, 9.3).                                   *)

LinkProblems(recs, i) ==
    LET r    == recs[i]
        prev == recs[i - 1]
    IN  IF i = 1
        THEN If(Get(r, "parent_record_id") # None \/ Get(r, "prev_hash") # None,
                "genesis not null")
             \cup If(~IsEvent(r, "session_start"), "genesis is not session_start")
        ELSE If(r.parent_record_id # prev.record_id, "parent_record_id")
             \cup If(r.prev_hash = None, "prev_hash is not a hash")
             \cup If(/\ r.prev_hash # None
                     /\ r.prev_hash # RecordHash(prev)
                     /\ ~ (IsTombstone(prev) /\ r.prev_hash = Get(prev, "tombstone_hash")),
                     "prev_hash mismatch")
             \cup If(IsEvent(r, "session_start"), "session_start after the genesis")

TombstoneProblems(recs, i) ==
    LET r == recs[i]
        d == r.action_detail
    IN  IF ~IsTombstone(r) THEN If("tombstone_hash" \in DOMAIN r, "tombstone_hash")
        ELSE If(Get(r, "tombstone_hash") = None, "no tombstone_hash")
             \cup If(~ ({"deletion_reason", "deleted_at"} \subseteq DOMAIN d), "deletion fields")
             \cup If(Get(d, "original_action_type") \notin ActionTypes, "original_action_type")
             \cup If("deleted_at" \in DOMAIN d /\ d.deleted_at < r.timestamp, "deleted_at earlier")
             \cup If(r.outcome # "success", "tombstone outcome")
             \cup If(Get(d, "original_action_type") = "lifecycle", "tombstone of a lifecycle record")
             \cup If(i = Len(recs), "tombstone as the last record")

(* session_hash is compared only when every earlier link is a hash.         *)
CloseProblems(recs, i) ==
    LET r      == recs[i]
        hashes == [j \in 1 .. i - 1 |-> recs[j + 1].prev_hash]
    IN  IF ~IsClose(r) THEN {}
        ELSE If(i # Len(recs), "session_end is not the last record")
             \cup If(i > 1 /\ Get(r.action_detail, "session_hash") = None, "no session_hash")
             \cup If(/\ i > 1
                     /\ Get(r.action_detail, "session_hash") # None
                     /\ \A j \in 1 .. i - 1 : hashes[j] # None
                     /\ r.action_detail.session_hash # hashes, "session_hash mismatch")

SignatureProblems(recs, i, opts) ==
    LET r == recs[i]
        keysGiven == opts.keys # None \/ opts.fallback # None
    IN  IF "signature" \in DOMAIN r
        THEN If(~RecordSignaturesVerify(r, opts), "signature invalid")
        ELSE If(opts.require \/ keysGiven, "unsigned record")

-----------------------------------------------------------------------------
VerifyChain(recs, opts) ==
    /\ recs # << >>
    /\ ~KeySet(opts).bad
    /\ \A i \in 1 .. Len(recs) :
         /\ LinkProblems(recs, i) = {}
         /\ SignatureProblems(recs, i, opts) = {}
         /\ TombstoneProblems(recs, i) = {}
         /\ CloseProblems(recs, i) = {}
         /\ FieldProblems(recs, i) = {}
         /\ IdentityProblems(recs, i) = {}
         /\ DetailProblems(recs, i) = {}
         /\ PhaseProblems(recs, i) = {}
         /\ HybridProblems(recs, i) = {}
         /\ RecordingProblems(recs, i, opts) = {}
         /\ SignerProblems(recs, i, opts) = {}
         /\ CallProblems(recs, i) = {}
         /\ TrustProblems(recs, i) = {}
         /\ NonceProblems(recs, i) = {}
=============================================================================
