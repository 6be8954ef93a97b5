---------------------------- MODULE EvidencePack ----------------------------
(***************************************************************************)
(* An evidence pack and its files: producers write, sign, co-sign, anchor  *)
(* and stamp it, each by rewriting a file in place; the verifier reads the *)
(* files once each, one after the other, meanwhile.                        *)
(***************************************************************************)
EXTENDS PackVerdict, Naturals

CONSTANTS
    Producers,
    MaxOps,         \* bound: operations of the producers and alterations
    MaxAlterations  \* bound: files altered by somebody without the keys

ASSUME ScopeAssumption == Scoped \subseteq Bodies
ASSUME HostsAssumption == Hosts \subseteq SUBSET Algorithms
ASSUME BoundsAssumption == MaxOps \in Nat /\ MaxAlterations \in Nat
ASSUME MarksAssumption ==
    /\ \A mark \in {Absent, Bad, Unread} : mark \notin Packs \cup Ledgers \cup Stamps \cup Sidecars \cup Bindings
    /\ Absent # Bad /\ Absent # Unread /\ Bad # Unread
    /\ None \notin Bodies \cup Keys \cup PqKeys \cup PqParts \cup Packs \cup BOOLEAN \cup {Unread}

VARIABLES
    files,      \* the pack, the ledger, .tsr.json and .sig.json as they are
    op,         \* op[p]: what producer p is about to write, and where
    ops,        \* operations begun
    altered,    \* alterations
    signed,     \* history: <<k, d>>, key k signed digest d
    cosigned,   \* history: the same for the post-quantum keys
    base,       \* history: the pack that each of its files was last made for; None, for no one pack
    seen,       \* what the verifier has read of them, and of the trust store
    fault,      \* the verifier raised
    quiet       \* history: no file was written since the verifier began

producing == <<files, op, ops, altered, signed, cosigned, base, quiet>>
verifying == <<seen, fault>>
vars == <<producing, verifying>>

Beside == {"ledger", "tsr", "sig"}
File == Beside \cup {"pack"}
Input == File \cup {"store"}
Contents(f) == IF f = "pack" THEN Packs
               ELSE IF f = "ledger" THEN Ledgers
               ELSE IF f = "tsr" THEN Stamps
               ELSE IF f = "sig" THEN Sidecars
               ELSE Bindings

Begun == seen["pack"] # Unread
Ended == fault \/ seen["store"] # Unread \/ (Begun /\ ~Readable(seen["pack"]))
Done == Ended /\ ~fault

Init ==
    /\ files = [f \in File |-> Absent]
    /\ op = [p \in Producers |-> None]
    /\ ops = 0 /\ altered = 0
    /\ signed = {} /\ cosigned = {}
    /\ base = [f \in Beside |-> None]
    /\ seen = [f \in Input |-> Unread]
    /\ fault = FALSE
    /\ quiet = TRUE

-----------------------------------------------------------------------------
(* The producers.  An operation reads what it needs, then opens a file     *)
(* (from then on it is torn), then has written it.                         *)

Prepare(p, file, content) ==
    /\ ~Ended /\ op[p] = None /\ ops + altered < MaxOps
    /\ ops' = ops + 1
    /\ op' = [op EXCEPT ![p] = [file |-> file, content |-> content, base |-> files["pack"], open |-> FALSE]]
    /\ UNCHANGED <<files, altered, base, quiet, verifying>>

\* build_pack and write_pack.
WritePack(p, b) ==
    /\ b \in Scoped
    /\ Prepare(p, "pack", [body |-> b, declared |-> b])
    /\ UNCHANGED <<signed, cosigned>>

\* sign_pack: a new sidecar, whatever was there.
SignPack(p, k) ==
    LET d == files["pack"].declared IN
    /\ Readable(files["pack"])
    /\ Prepare(p, "sig", [closed |-> TRUE, alg |-> "ed25519", form |-> TRUE, key |-> k,
                          digest |-> d, over |-> d, pq |-> None])
    /\ signed' = signed \cup {<<k, d>>}
    /\ UNCHANGED cosigned

\* pq_cosign: sidecar and pack must agree on the recomputed digest; ...
Cosignable == /\ Readable(files["sig"]) /\ Readable(files["pack"])
              /\ files["pack"].declared = files["pack"].body
              /\ files["sig"].digest = files["pack"].body

PqCosign(p, q) ==
    LET d == files["pack"].body IN
    /\ Cosignable
    /\ Prepare(p, "cosign", [alg |-> "known", key |-> q, form |-> TRUE, over |-> d])
    /\ cosigned' = cosigned \cup {<<q, d>>}
    /\ UNCHANGED signed

\* A co-signature made outside this project, in an algorithm of its own, over
\* what a signed pack declares, for add_pq_signature to attach: it compares nothing.
ForeignCosign(p, q) ==
    LET d == files["pack"].declared IN
    /\ Readable(files["sig"]) /\ Readable(files["pack"])
    /\ Prepare(p, "cosign", [alg |-> "other", key |-> q, form |-> TRUE, over |-> d])
    /\ cosigned' = cosigned \cup {<<q, d>>}
    /\ UNCHANGED signed

\* ... add_pq_signature reads the sidecar again and puts the co-signature in.
AddPqSignature(p) ==
    LET o == op[p]
        merged == [o EXCEPT !.file = "sig", !.content = [files["sig"] EXCEPT !.pq = o.content],
                            !.base = IF base["sig"] = o.base THEN o.base ELSE None]
    IN
    /\ ~Ended /\ op[p] # None
    /\ op[p].file = "cosign"
    /\ op' = [op EXCEPT ![p] = IF Readable(files["sig"]) THEN merged ELSE None]
    /\ UNCHANGED <<files, ops, altered, signed, cosigned, base, quiet, verifying>>

\* anchor_pack records what the pack declares.
AnchorPack(p) ==
    /\ Readable(files["pack"])
    /\ Prepare(p, "ledger", files["pack"].declared)
    /\ UNCHANGED <<signed, cosigned>>

\* The authority grants the stamp, of the bytes that were read.
StampPack(p) ==
    /\ files["pack"] # Absent
    /\ Prepare(p, "tsr", [closed |-> TRUE, stamped |-> files["pack"]])
    /\ UNCHANGED <<signed, cosigned>>

Replace(f, content) ==
    /\ files' = [files EXCEPT ![f] = content]
    /\ quiet' = (quiet /\ ~Begun)

\* A ledger appends under its lock to what is there, and refuses a broken file.
Opens(p) ==
    LET f == op[p].file
        old == files[f]
        text == IF f # "ledger" THEN op[p].content
                ELSE IF old = Absent THEN [closed |-> TRUE, anchors |-> {op[p].content}]
                ELSE [old EXCEPT !.anchors = old.anchors \cup {op[p].content}]
    IN
    /\ ~Ended /\ op[p] # None
    /\ ~op[p].open /\ f # "cosign"
    /\ IF f = "ledger" /\ old = Bad
       THEN \* its lock is held, or the file is broken
            /\ \A q \in Producers : op[q] # None /\ op[q].file = f => ~op[q].open
            /\ op' = [op EXCEPT ![p] = None]
            /\ UNCHANGED <<files, quiet>>
       ELSE /\ op' = [op EXCEPT ![p] = [op[p] EXCEPT !.open = TRUE, !.content = text]]
            /\ Replace(f, Bad)
    /\ UNCHANGED <<ops, altered, signed, cosigned, base, verifying>>

\* Over what another wrote meanwhile, whose longer text may show behind it.
Outcomes(p) == {op[p].content} \cup IF files[op[p].file] = Bad THEN {} ELSE {Bad}

Writes(p) ==
    /\ ~Ended /\ op[p] # None
    /\ op[p].open
    /\ \E c \in Outcomes(p) : Replace(op[p].file, c)
    /\ op' = [op EXCEPT ![p] = None]
    /\ base' = [f \in Beside |-> IF f = op[p].file THEN op[p].base ELSE base[f]]
    /\ UNCHANGED <<ops, altered, signed, cosigned, verifying>>

\* The process dies, or the operation raises, with the file open: it stays torn.
\* (One that dies before that might as well never have gone on.)
Dies(p) ==
    /\ ~Ended /\ op[p] # None
    /\ op[p].open
    /\ op' = [op EXCEPT ![p] = None]
    /\ UNCHANGED <<files, ops, altered, signed, cosigned, base, quiet, verifying>>

\* Somebody without the keys changes a file: no new signature comes of it.
PacksLike(c) ==
    {[c EXCEPT !.body = b] : b \in Bodies} \cup {[c EXCEPT !.declared = d] : d \in Digests}

\* What a key signed in one algorithm is no signature in another.
PqPartsLike(q) ==
    {[q EXCEPT !.alg = a, !.over = None] : a \in {"known", "other", "malformed"} \ {q.alg}}
    \cup {[q EXCEPT !.form = FALSE], [q EXCEPT !.over = None]}

SidecarsLike(c) ==
    {[c EXCEPT !.closed = FALSE], [c EXCEPT !.form = FALSE], [c EXCEPT !.pq = None], [c EXCEPT !.over = None]}
    \cup {[c EXCEPT !.alg = a] : a \in {"variant", "unknown", "malformed"}}
    \cup {[c EXCEPT !.digest = d] : d \in Digests}
    \cup {[c EXCEPT !.key = k, !.over = None] : k \in Keys}
    \cup {[c EXCEPT !.pq = q] : q \in IF c.pq = None THEN {} ELSE PqPartsLike(c.pq)}

Alterations(f) ==
    IF ~Readable(files[f]) THEN {}
    ELSE {Bad} \cup IF f = "pack" THEN PacksLike(files[f])
                    ELSE IF f = "sig" THEN SidecarsLike(files[f])
                    ELSE {[files[f] EXCEPT !.closed = FALSE]}

Alter(f, c) ==
    /\ ~Ended /\ altered < MaxAlterations /\ ops + altered < MaxOps
    /\ altered' = altered + 1
    /\ c \in Alterations(f)
    /\ Replace(f, c)
    /\ UNCHANGED <<op, ops, signed, cosigned, base, verifying>>

-----------------------------------------------------------------------------
(* The verifier: one read of each file, in this order. *)

ReadPack ==
    /\ ~fault /\ ~Begun
    /\ seen' = [seen EXCEPT !["pack"] = files["pack"]]
    /\ UNCHANGED <<fault, producing>>

Reads(f, after) ==
    /\ ~Ended
    /\ seen[f] = Unread /\ seen[after] # Unread
    /\ seen' = [seen EXCEPT ![f] = files[f]]
    /\ UNCHANGED <<fault, producing>>

\* The trust store, whatever its registries (TrustRegistry) have made of it: it
\* is read once, last, under a signature that holds, and by nobody else here.
Stores(s) == IF SignatureHolds(s) THEN Bindings \cup {Absent, Bad, None} ELSE {None}

ReadStore(c) ==
    /\ ~Ended
    /\ seen["sig"] # Unread
    /\ seen' = [seen EXCEPT !["store"] = c]
    /\ UNCHANGED <<fault, producing>>

\* The guard of verify_pack catches what the layers did not.
Fault ==
    /\ ~Ended
    /\ fault' = TRUE
    /\ UNCHANGED <<seen, producing>>

Verify ==
    \/ ReadPack
    \/ Reads("ledger", "pack") \/ Reads("tsr", "ledger") \/ Reads("sig", "tsr") 
    \/ \E c \in Stores(seen) : ReadStore(c)
    \/ Fault

Produce(p) ==
    \/ \E b \in Bodies : WritePack(p, b)
    \/ \E k \in Keys : SignPack(p, k)
    \/ \E q \in PqKeys : PqCosign(p, q) \/ ForeignCosign(p, q)
    \/ AddPqSignature(p) \/ AnchorPack(p) \/ StampPack(p)
    \/ Opens(p) \/ Writes(p) \/ Dies(p)

Next ==
    \/ \E p \in Producers : Produce(p)
    \/ \E f \in File : \E c \in Alterations(f) : Alter(f, c)
    \/ Verify

Spec == Init /\ [][Next]_vars

-----------------------------------------------------------------------------
(* Properties.  What is asked (o) and which backends this host has (h)      *)
(* change nothing that is read: each is stated for all of them.             *)

\* What an operation holds: a co-signature to put in, a digest to anchor, a text.
Held(file, open) ==
    IF file = "cosign" THEN PqParts
    ELSE IF file = "ledger" /\ ~open THEN Digests
    ELSE Contents(file)

Operation == [file : File \cup {"cosign"}, base : Packs \cup {Absent, Bad, None}, open : BOOLEAN,
              content : Digests \cup PqParts \cup Packs \cup Ledgers \cup Stamps \cup Sidecars]

Text == Packs \cup Ledgers \cup Stamps \cup Sidecars \cup {Absent, Bad}

\* Type invariant: a sidecar never holds what belongs into another.
TypeOK ==
    /\ files \in [File -> Text] /\ seen \in [Input -> Text \cup Bindings \cup {Unread, None}]
    /\ op \in [Producers -> Operation \cup {None}]
    /\ \A f \in File : files[f] \in Contents(f) \cup {Absent, Bad}
    /\ \A p \in Producers : op[p] # None =>
          /\ op[p].open => op[p].file # "cosign"
          /\ op[p].content \in Held(op[p].file, op[p].open)
    /\ ops \in 0..MaxOps /\ altered \in 0..MaxAlterations
    /\ signed \subseteq Keys \X Digests /\ cosigned \subseteq PqKeys \X Digests
    /\ \A f \in File : seen[f] \in Contents(f) \cup {Absent, Bad, Unread}
    /\ seen["store"] \in Bindings \cup {Absent, Bad, Unread, None}
    /\ fault \in BOOLEAN /\ quiet \in BOOLEAN

\* A receipt says authenticated only of a content that the key in its sidecar
\* really signed, and that the trust store, when there is one, binds to that key:
\* whatever was rewritten, torn or altered between two reads.
AuthenticatedIsSigned ==
    Done /\ Authenticated(seen) =>
        /\ <<seen["sig"].key, seen["pack"].body>> \in signed
        /\ seen["store"] # None => seen["store"].key = seen["sig"].key /\ ~seen["store"].revoked

\* PASS keeps every promise at once: the content is signed or anchored by its
\* own digest, a signature that was required is there, and a post-quantum layer
\* that was required is that of the pinned key, over the digest the producer signed.
PassIsEarned ==
    Done => \A o \in Options, h \in Hosts :
        Verdict(Receipt(seen, o, h), o) = "PASS" =>
            LET body == seen["pack"].body
                isSigned == Readable(seen["sig"]) /\ <<seen["sig"].key, body>> \in signed
            IN
            /\ isSigned \/ (Readable(seen["ledger"]) /\ body \in seen["ledger"].anchors)
            /\ o.requireSigned => isSigned
            /\ o.requirePq \/ o.expected # None =>
                  /\ isSigned
                  /\ <<Pinned(seen, o), body>> \in cosigned

\* A host without the backend of an algorithm this project knows, whatever others
\* it has, answers NOT_ASSESSED or what it would answer with it: that backend
\* missing is neither a pass nor a finding, and with it there is a verdict.
\* (Of another algorithm's backend the code does not promise this.)
AbsenceNeverDecides ==
    Done => \A o \in Options, h \in {g \in Hosts : "known" \notin g} :
        LET able == Verdict(Receipt(seen, o, h \cup {"known"}), o) IN
        /\ able # "NOT_ASSESSED"
        /\ Verdict(Receipt(seen, o, h), o) \in {"NOT_ASSESSED", able}

\* A verifier that raises half way never passes anything and never condemns a
\* pack that would have passed, however the files it has not read turn out.
FaultIsNoFinding ==
    LET rest == [f \in Input |-> IF f \in File /\ seen[f] = Unread THEN files[f] ELSE seen[f]] IN
    fault => \A o \in Options, h \in Hosts :
        LET r == InternalErrorReceipt(seen, o, h) IN
        /\ Verdict(r, o) # "PASS" /\ ~r.authenticated
        /\ Verdict(r, o) = "FAIL" =>
              \A c \in Stores(rest) : Verdict(Receipt([rest EXCEPT !["store"] = c], o, h), o) = "FAIL"

\* Every file beside the pack was written for the pack as it is.
Consistent ==
    /\ altered = 0
    /\ Readable(seen["pack"])
    /\ \A f \in Beside : seen[f] # Absent => Readable(seen[f]) /\ base[f] = seen["pack"]

\* What is asked for is there: a trusted signer, the pinned co-signature.
Satisfied(o) ==
    LET sig == seen["sig"]
        isSigned == sig # Absent
        store == seen["store"]
        known == isSigned /\ store # None /\ Readable(store) /\ store.key = sig.key /\ ~store.revoked
        pinned == IF o.expected # None THEN o.expected
                  ELSE IF known THEN store.pq ELSE None
    IN
    /\ isSigned \/ seen["ledger"] # Absent
    /\ o.requireSigned => isSigned
    /\ store # None /\ isSigned => known
    /\ o.requirePq \/ pinned # None => isSigned /\ sig.pq # None /\ sig.pq.key = pinned

\* No false alarm: when nobody wrote while the verifier read, and the producers'
\* operations, in whatever order and however they interleaved, left files that
\* are about the same pack, a host with every backend passes it, and calls it
\* authenticated if it is signed.
HealthyPasses ==
    Done /\ quiet /\ Consistent => \A o \in Options :
        Satisfied(o) => LET r == Receipt(seen, o, Algorithms) IN
            Verdict(r, o) = "PASS" /\ (r.authenticated <=> seen["sig"] # Absent)
=============================================================================
