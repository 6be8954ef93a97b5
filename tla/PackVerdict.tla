---------------------------- MODULE PackVerdict ----------------------------
(***************************************************************************)
(* verify_pack() and the verdict of main(): what the verifier makes of the *)
(* files it has read, for what its caller asks and what its host can check.*)
(*                                                                         *)
(* A digest is the content it covers (SHA3 is taken to be free of          *)
(* collisions), a signature is the digest its key really signed.  Which    *)
(* malformation makes a file unreadable, or a field malformed, is left     *)
(* out: the code treats all of one kind alike.                             *)
(***************************************************************************)
CONSTANTS
    Bodies,     \* pack contents (all but pack_sha3)
    Scoped,     \* those whose honest_scope declares a limit
    Keys,       \* Ed25519 public keys
    PqKeys,     \* post-quantum public keys
    Hosts,      \* hosts of a verifier: the algorithms each has a backend for
    Absent,     \* no such file
    Bad,        \* a file that cannot be read or parsed
    Unread,     \* not read yet
    None

Digests == Bodies \cup {None}

\* declared: its pack_sha3.
Packs == [body : Bodies, declared : Digests]

\* The post-quantum algorithms a host may have a backend registered for: those
\* this project knows (KNOWN_PQ_ALGS) and any other, under its own name.
Algorithms == {"known", "other"}

\* A post-quantum co-signature.  form: encoded as its algorithm wants it; over:
\* what its key signed in that algorithm, None if nothing.
PqParts == [alg : Algorithms \cup {"malformed"}, key : PqKeys, form : BOOLEAN, over : Digests]

\* .sig.json.  closed: no field outside the schema.  form: base64, fingerprint,
\* signed_utc and signer_id are what sign_pack writes.  digest: signed_pack_sha3.
Sidecars == [closed : BOOLEAN, alg : {"ed25519", "variant", "unknown", "malformed"}, form : BOOLEAN,
             key : Keys, digest : Digests, over : Digests, pq : PqParts \cup {None}]

Ledgers == [closed : BOOLEAN, anchors : SUBSET Digests]

Stamps == [closed : BOOLEAN, stamped : Packs \cup {Bad}]

\* What the trust store, replayed, says of the signer; key None: unknown.  When
\* the caller names none, or no signature holds, None is what was "read" of it.
Bindings == {b \in [key : Keys \cup {None}, pq : PqKeys \cup {None}, revoked : BOOLEAN] :
                b.revoked => b.pq = None}

Readable(file) == file \notin {Absent, Bad, Unread}

\* What the caller of verify_pack asks; an expected key requires the layer anyway.
Options == {o \in [expected : PqKeys \cup {None}, requirePq : BOOLEAN, requireSigned : BOOLEAN] :
               o.requirePq => o.expected = None}

Layer(name, status) == [layer |-> name, status |-> status, assessed |-> TRUE]
Judged(name, ok) == Layer(name, IF ok THEN "PASS" ELSE "FAIL")
When(condition, layers) == IF condition THEN layers ELSE {}

-----------------------------------------------------------------------------
(* The layers, of the files s *)

PackLayers(s) ==
    {Layer("pack-json", "PASS"),
     Judged("honest-scope", s.pack.body \in Scoped),
     Judged("pack-sha3", s.pack.declared = s.pack.body)}

\* A valid chain is not enough: it must anchor this pack.
Anchored(s) ==
    /\ Readable(s.ledger)
    /\ s.ledger.closed
    /\ s.pack.declared # None
    /\ s.pack.declared \in s.ledger.anchors

LedgerLayer(s) ==
    IF s.ledger = Absent THEN Layer("ledger-chain", "SKIP") ELSE Judged("ledger-chain", Anchored(s))

TimestampLayer_Judged(s) ==
    IF s.tsr = Absent THEN Layer("rfc3161", "SKIP") ELSE Layer("rfc3161", "FAIL")

\* The token is bound to the bytes of the pack; without a trust anchor it is
\* never verified, only recorded.
TimestampLayer(s) ==
    IF s.tsr = Absent \/ (Readable(s.tsr) /\ s.tsr.closed /\ s.tsr.stamped = s.pack)
    THEN Layer("rfc3161", "SKIP")
    ELSE Layer("rfc3161", "FAIL")

SignatureHolds(s) ==
    /\ Readable(s.sig)
    /\ s.sig.closed /\ s.sig.alg = "ed25519" /\ s.sig.form
    /\ s.pack.declared # None
    /\ s.sig.over = s.pack.declared
    /\ s.sig.digest = s.pack.declared

\* No signature, or one of an algorithm nobody here knows.
NothingToVerify(s) ==
    s.sig = Absent \/ (Readable(s.sig) /\ s.sig.closed /\ s.sig.alg = "unknown")

SignatureStatus(s, o) ==
    IF SignatureHolds(s) THEN "PASS"
    ELSE IF NothingToVerify(s) /\ ~o.requireSigned THEN "SKIP"
    ELSE "FAIL"

Trusted(s) ==
    /\ s.store # None /\ Readable(s.store)
    /\ SignatureHolds(s)
    /\ s.store.key = s.sig.key /\ ~s.store.revoked

TrustFailed(s) == s.store # None /\ SignatureHolds(s) /\ ~Trusted(s)

\* The pinned key: the caller's, else the registry's for the key that signed.
Pinned(s, o) ==
    IF o.expected # None THEN o.expected
    ELSE IF Trusted(s) THEN s.store.pq ELSE None

PqRequired(s, o) == o.requirePq \/ Pinned(s, o) # None

\* Form before capability: all that is wrong with it that shows on any host.
PqRefused(s, o) ==
    \/ s.sig.pq.alg = "malformed"
    \/ Pinned(s, o) # None /\ s.sig.pq.key # Pinned(s, o)
    \/ PqRequired(s, o) /\ s.sig.pq.alg = "known" /\ ~s.sig.pq.form

PqUnchecked_Optional(s, o) ==
    [layer |-> "pq-signature", status |-> IF PqRequired(s, o) THEN "FAIL" ELSE "SKIP",
     assessed |-> s.sig.pq.alg # "known" \/ ~PqRequired(s, o)]

\* No backend here: a required layer fails, an optional one is skipped.  Only a
\* known algorithm is marked as not looked at; under any other name the layer
\* stands as judged, though another host may have the backend.
PqUnchecked(s, o) ==
    [layer |-> "pq-signature", status |-> IF PqRequired(s, o) THEN "FAIL" ELSE "SKIP",
     assessed |-> s.sig.pq.alg # "known"]

\* verify_pq_alg
PqVerifies(s) == s.sig.pq.form /\ s.sig.pq.over = s.pack.declared

PqStatus_Unpinned(s, o) ==
    IF PqRefused(s, o) \/ ~PqVerifies(s) THEN "FAIL" ELSE "PASS"

PqStatus(s, o) ==
    IF PqRefused(s, o) \/ ~PqVerifies(s) THEN "FAIL"
    ELSE IF Pinned(s, o) # None THEN "PASS"
    ELSE IF PqRequired(s, o) THEN "FAIL" ELSE "SKIP"

\* The hybrid layer under a classical signature that holds.
CosignatureLayers(s, o, backends) ==
    IF s.sig.pq = None THEN When(PqRequired(s, o), {Layer("pq-signature", "FAIL")})
    ELSE IF ~PqRefused(s, o) /\ s.sig.pq.alg \notin backends THEN {PqUnchecked(s, o)}
    ELSE {Layer("pq-signature", PqStatus(s, o))}

PqLayers(s, o, backends) ==
    IF SignatureHolds(s) THEN CosignatureLayers(s, o, backends)
    ELSE When(o.requirePq \/ o.expected # None, {Layer("pq-signature", "FAIL")})

TrustLayers(s) == When(s.store # None /\ SignatureHolds(s), {Judged("trusted-signer", Trusted(s))})

Authentic(s, o) ==
    \/ SignatureStatus(s, o) = "PASS" /\ ~TrustFailed(s)
    \/ SignatureStatus(s, o) = "SKIP" /\ Anchored(s)

\* The layers appended by the time the files of s that are not Unread were read.
Layers(s, o, backends) ==
    IF ~Readable(s.pack) THEN When(s.pack # Unread, {Layer("pack-json", "FAIL")})
    ELSE UNION {PackLayers(s),
                When(s.ledger # Unread, {LedgerLayer(s)}),
                When(s.tsr # Unread, {TimestampLayer(s)}),
                When(s.sig # Unread, {Layer("producer-signature", SignatureStatus(s, o))}),
                When(s.store # Unread, PqLayers(s, o, backends) \cup TrustLayers(s)
                                       \cup {Judged("authenticity", Authentic(s, o))})}

-----------------------------------------------------------------------------
(* The roll-up, the receipt and the verdict *)

Valid(layers) ==
    LET checked == {l \in layers : l.status \in {"PASS", "FAIL"}} IN
    checked # {} /\ \A l \in checked : l.status = "PASS"

\* FAIL > NOT_ASSESSED > PASS: an absence must never hide a finding.
Assessed(layers) ==
    \/ \E l \in layers : l.status = "FAIL" /\ l.assessed
    \/ \A l \in layers : l.assessed

\* true, null or false
PqProtected(layers) ==
    IF Layer("pq-signature", "PASS") \in layers THEN TRUE
    ELSE IF \E l \in layers : l.layer = "pq-signature" /\ l.status = "SKIP" THEN None
    ELSE FALSE

Authenticated_AnyBody(s) == Readable(s.pack) /\ SignatureHolds(s) /\ ~TrustFailed(s)

\* The integrity layer passed, the signature holds, the registry did not refuse it.
Authenticated(s) ==
    Readable(s.pack) /\ s.pack.declared = s.pack.body /\ SignatureHolds(s) /\ ~TrustFailed(s)

Receipt(s, o, backends) ==
    LET layers == Layers(s, o, backends) IN
    [valid |-> Valid(layers), assessed |-> Assessed(layers),
     pq_protected |-> PqProtected(layers),
     authenticated |-> Authenticated(s)]

Internal_Judged == Layer("internal", "FAIL")

\* A fault of the verifier is not a finding about the pack.
Internal == [layer |-> "internal", status |-> "FAIL", assessed |-> FALSE]

InternalErrorReceipt(s, o, backends) ==
    LET layers == Layers(s, o, backends) \cup {Internal} IN
    [valid |-> Valid(layers), assessed |-> Assessed(layers),
     pq_protected |-> FALSE, authenticated |-> FALSE]

Verdict(r, o) ==
    IF /\ r.valid /\ r.assessed
       /\ o.requirePq \/ o.expected # None => r.pq_protected = TRUE
    THEN "PASS"
    ELSE IF r.assessed THEN "FAIL" ELSE "NOT_ASSESSED"
=============================================================================
