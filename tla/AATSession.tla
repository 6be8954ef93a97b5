----------------------------- MODULE AATSession -----------------------------
(***************************************************************************)
(* The life of an exported audit trail (interop/aat.py): an omega ledger    *)
(* grows, is exported once, and from then on its chains are changed by the  *)
(* module's own calls in any order: a record is tombstoned (again), a       *)
(* session is closed, an epoch is anchored with or without a TSA, on a host *)
(* where that may fail.  Relying parties verify what they are handed, which *)
(* may have been altered on the way.                                        *)
(***************************************************************************)
EXTENDS AATExport, AATEpoch

CONSTANTS
    Templates,      \* the omega entries a ledger can hold, without their seed
    Exports,        \* the ways from_omega is called: [signer, recorder, trust, close]
    Deleter,        \* a key that signs tombstones only
    AnchorHosts,    \* the hosts an epoch is anchored on
    MaxOmega, MaxWork     \* bounds: ledger entries; sessions exported and the
                            \* calls made on them together

VARIABLES
    omega,      \* the ledger's entries
    how,        \* how it was exported, None before
    chains,     \* [session -> chain]
    anchors,    \* the epoch anchors that were returned
    sealed,     \* history: [epoch -> the records it was anchored over]
    calls       \* calls made since the export

trailVars == <<omega, how, chains, anchors, sealed, calls>>

TrailInit ==
    /\ omega = << >>
    /\ how = None
    /\ chains = << >>
    /\ anchors = {}
    /\ sealed = << >>
    /\ calls = 0

\* The agent's ledger gets one more entry; its self_hash is its own.
LogEntry(e) ==
    /\ how = None
    /\ Len(omega) < MaxOmega
    /\ omega' = Append(omega, [seed |-> Len(omega) + 1] ++ e)
    /\ UNCHANGED <<how, chains, anchors, sealed, calls>>

Export(h) ==
    LET out == FromOmega(omega, h)
    IN  /\ how = None
        /\ ~out.refused
        /\ DOMAIN out.chains # {}
        /\ how' = h
        /\ chains' = out.chains
        /\ UNCHANGED <<omega, anchors, sealed, calls>>

Signed       == how.signer.pq # None \/ how.signer.classical # None
DeleterAlone == [pq |-> None, classical |-> Deleter]
\* A signed chain is also touched by the deleting authority.
TombstoneSigners == {how.signer} \cup (IF Signed THEN {DeleterAlone} ELSE {})

WorkLeft == calls + Cardinality(DOMAIN chains) < MaxWork

\* The caller replaces record i of the chain by its tombstone.
EraseRecord(s, i, signer) ==
    LET out == Tombstone(chains[s][i], Last(chains[s]).timestamp, signer)
    IN  /\ WorkLeft
        /\ out # None
        /\ chains' = [chains EXCEPT ![s][i] = out]
        /\ calls' = calls + 1
        /\ UNCHANGED <<omega, how, anchors, sealed>>

\* The caller closes an open session.
CloseSession(s, signer) ==
    LET rec == CloseRecord(chains[s], FALSE, Last(chains[s]).timestamp + 1)
    IN  /\ WorkLeft
        /\ ~IsClose(Last(chains[s]))
        /\ chains' = [chains EXCEPT ![s] = Append(@, Sign(rec, signer))]
        /\ calls' = calls + 1
        /\ UNCHANGED <<omega, how, anchors, sealed>>

\* The records of some sessions, one chain after the other.
Slots(S) ==
    LET order == SetToSeq(S)
    IN  FlattenSeq([n \in 1 .. Len(order) |->
            [i \in 1 .. Len(chains[order[n]]) |-> <<order[n], i>>]])
Records(S) ==
    LET slot == Slots(S)
    IN  [n \in DOMAIN slot |-> chains[slot[n][1]][slot[n][2]]]

\* One epoch over those records; without a token there is no anchor.
Anchor(S, tsa, host) ==
    LET out  == AnchorEpoch(Records(S), calls, tsa, host)
        slot == Slots(S)
    IN  /\ WorkLeft
        /\ chains' = [s \in DOMAIN chains |->
                        IF s \notin S THEN chains[s]
                        ELSE [i \in DOMAIN chains[s] |->
                                out.records[CHOOSE n \in DOMAIN slot : slot[n] = <<s, i>>]]]
        /\ IF out.anchor = None
           THEN UNCHANGED <<anchors, sealed>>
           ELSE /\ anchors' = anchors \cup {out.anchor}
                /\ sealed' = Put(sealed, calls, [i \in 1 .. Len(out.records) |->
                                                RecordHash(out.records[i])])
        /\ calls' = calls + 1
        /\ UNCHANGED <<omega, how>>

TrailNext ==
    \/ \E e \in Templates : LogEntry(e)
    \/ \E h \in Exports : Export(h)
    \/ \E s \in DOMAIN chains : \E i \in DOMAIN chains[s], signer \in TombstoneSigners :
            EraseRecord(s, i, signer)
    \/ \E s \in DOMAIN chains : \E signer \in TombstoneSigners : CloseSession(s, signer)
    \/ \E S \in (SUBSET DOMAIN chains) \ {{}}, host \in AnchorHosts, tsa \in BOOLEAN :
            Anchor(S, tsa, host)

TrailSpec == TrailInit /\ [][TrailNext]_trailVars

-----------------------------------------------------------------------------
TrailTypeOK ==
    /\ Len(omega) <= MaxOmega
    /\ how \in Exports \cup {None}
    /\ how = None => chains = << >>
    /\ \A s \in DOMAIN chains : \A i \in DOMAIN chains[s] :
         /\ Mandatory \subseteq DOMAIN chains[s][i]
         /\ chains[s][i].session_id = s
    /\ DOMAIN sealed = Anchored(anchors)
    /\ calls \in 0 .. MaxWork

-----------------------------------------------------------------------------
(* What relying parties hold: every public key for a signed chain, none for *)
(* an unsigned one; the session's signer pinned or not.                     *)
PrimaryKey == IF how.signer.pq # None THEN how.signer.pq ELSE how.signer.classical

Party(pinned) ==
    [keys           |-> IF Signed THEN [k \in Keys |-> k] ELSE None,
     fallback       |-> None,
     legacy         |-> FALSE,
     agent_kid      |-> IF pinned /\ how.recorder = None THEN PrimaryKey ELSE None,
     recorder_kid   |-> IF pinned /\ how.recorder # None THEN PrimaryKey ELSE None,
     tombstone_kids |-> {Deleter},
     require        |-> Signed,
     algs           |-> SigAlgs]

(* Record i was tombstoned, its successor linked to that tombstone, and it  *)
(* was then tombstoned again.                                               *)
Relinked(ch, i) ==
    /\ i < Len(ch)
    /\ IsTombstone(ch[i])
    /\ IsTombstone(ch[i + 1].prev_hash)
    /\ ch[i + 1].prev_hash # RecordHash(ch[i])

WellMade(ch) ==
    /\ ~IsTombstone(Last(ch))
    /\ \A i \in 1 .. Len(ch) :
         /\ ~Relinked(ch, i)
         /\ ~IsTombstone(ch[i]) => Get(ch[i], "signer_kid") = Get(ch[1], "signer_kid")

(***************************************************************************)
(* PROPERTY VerdictIsExact (aat.py:599-640, verify_chain).  Whatever the    *)
(* order of exports, erasures, closings and anchorings, the verifier finds  *)
(* no problem in a chain, exactly when its last record is not a tombstone,  *)
(* all its records are signed by one principal, and no record was erased a  *)
(* second time after its successor had linked to the first tombstone; a pin *)
(* on the session's signer changes nothing.                                 *)
(***************************************************************************)
VerdictIsExact ==
    \A s \in DOMAIN chains, pinned \in BOOLEAN :
        VerifyChain(chains[s], Party(pinned)) <=> WellMade(chains[s])

(***************************************************************************)
(* VIOLATED (aat.py:602-603): "sets lifecycle/record_deleted with           *)
(* `tombstone_hash` = the original record's chain hash, so the NEXT         *)
(* record's prev_hash keeps verifying".                                     *)
(***************************************************************************)
NextKeepsVerifying ==
    \A s \in DOMAIN chains, i \in 2 .. 9 :
        i <= Len(chains[s]) /\ IsTombstone(chains[s][i - 1])
          => "prev_hash mismatch" \notin LinkProblems(chains[s], i)

-----------------------------------------------------------------------------
(* One change of a handed-over chain.                                       *)
Drop(ch, i)  == [j \in 1 .. Len(ch) - 1 |-> IF j < i THEN ch[j] ELSE ch[j + 1]]
Swap(ch, i)  == [ch EXCEPT ![i] = ch[i + 1], ![i + 1] = ch[i]]
Repeat(ch, i) == SubSeq(ch, 1, i) \o SubSeq(ch, i, Len(ch))
OtherForm(r) == IF "signature" \in DOMAIN r
                THEN [r EXCEPT !.signature = [@ EXCEPT !.form = "high"]] ELSE r
Edits(r)     == {[r EXCEPT !.timestamp = @ + 1],
                 [r EXCEPT !.agent_version = "2"],
                 [r EXCEPT !.action_detail = [note |-> "edited"] ++ @],
                 Without(r, SignatureFields),
                 OtherForm(r)}

Altered(ch) ==
    {Drop(ch, i) : i \in 1 .. Len(ch)}
      \cup {Swap(ch, i) : i \in 1 .. Len(ch) - 1}
      \cup {Repeat(ch, i) : i \in 1 .. Len(ch)}
      \cup UNION {{[ch EXCEPT ![i] = r] : r \in Edits(ch[i])} : i \in 1 .. Len(ch)}

Unforgeable(r) == NoBatch(Without(r, SignatureValueFields))
SameText(a, b) == /\ Len(a) <= Len(b)
                  /\ \A i \in 1 .. Len(a) : Unforgeable(a[i]) = Unforgeable(b[i])
SameBytes(a, b) == \A i \in 1 .. Len(a) : NoBatch(a[i]) = NoBatch(b[i]) \/ IsTombstone(b[i])

(***************************************************************************)
(* PROPERTY AlterationIsFound (aat.py:955, the declared limits at its end). *)
(* An altered copy of a good chain that still verifies says the same, up to *)
(* where it was cut: a signed chain word for word, only the signature of    *)
(* its last record or of a tombstone possibly in ECDSA's other form; an     *)
(* unsigned one in every record but its last and its tombstones.  A closed  *)
(* chain cut anywhere is not closed.                                        *)
(***************************************************************************)
AlterationIsFound ==
    \A s \in DOMAIN chains :
        WellMade(chains[s]) =>
          \A alt \in Altered(chains[s]) :
            VerifyChain(alt, Party(FALSE)) =>
              /\ SameBytes(Front(alt), chains[s])
              /\ Signed => SameText(alt, chains[s])
              /\ Len(alt) < Len(chains[s]) => ~IsClose(Last(alt))

-----------------------------------------------------------------------------
AllRecords == Records(DOMAIN chains)
Good       == [openssl |-> "runs", tmp |-> TRUE, reply |-> "granted"]

\* The record is the leaf its batch object says it is.
IsLeaf(r) ==
    LET b == r.batch
    IN  /\ b.epoch_id \in DOMAIN sealed
        /\ b.leaf_index + 1 \in DOMAIN sealed[b.epoch_id]
        /\ sealed[b.epoch_id][b.leaf_index + 1] = RecordHash(r)

InBatch(recs) == {i \in 1 .. Len(recs) : "batch" \in DOMAIN recs[i]}

\* Every anchored record is still there, as it was anchored.
Intact(recs) ==
    \A eid \in DOMAIN sealed : \A k \in DOMAIN sealed[eid] :
        \E i \in InBatch(recs) : /\ recs[i].batch.epoch_id = eid
                                 /\ recs[i].batch.leaf_index = k - 1
                                 /\ RecordHash(recs[i]) = sealed[eid][k]

Bare(r) == IF "batch" \in DOMAIN r THEN [r EXCEPT !.batch = Without(@, {"inclusion_proof"})]
                                   ELSE r
AlteredEpoch(recs) ==
    {recs, [i \in 1 .. Len(recs) |-> Bare(recs[i])]}
      \cup {Drop(recs, i) : i \in 1 .. Len(recs)}
      \cup {[recs EXCEPT ![i] = NoBatch(@)] : i \in 1 .. Len(recs)}
      \cup {[recs EXCEPT ![i] = Bare(@)] : i \in 1 .. Len(recs)}
      \cup {[recs EXCEPT ![i].timestamp = @ + 1] : i \in 1 .. Len(recs)}
      \cup {[recs EXCEPT ![i].batch.leaf_index = @ + 1] : i \in InBatch(recs)}

(***************************************************************************)
(* PROPERTY EpochVerdictIsExact (aat.py:644-798).  With completeness asked  *)
(* for, the records check against their anchors exactly when every anchored *)
(* record is there unchanged and every batch object belongs to an anchor:   *)
(* one erased, dropped, edited or stripped since, or left with the batch of *)
(* an anchoring that failed, is never green.  Without completeness, what is *)
(* green is still the leaf it says.                                         *)
(***************************************************************************)
EpochVerdictIsExact ==
    \A recs \in AlteredEpoch(AllRecords) :
        /\ VerifyEpochs(BatchesFit(recs, anchors, TRUE), anchors, Good, Genuine) = "ok"
             <=> Intact(recs) /\ \A i \in InBatch(recs) : IsLeaf(recs[i])
        /\ VerifyEpochs(BatchesFit(recs, anchors, FALSE), anchors, Good, Genuine) = "ok"
             => \A i \in InBatch(recs) : IsLeaf(recs[i])

(***************************************************************************)
(* PROPERTY NotRunIsNoVerdict (timestamp.py:36-52, aat.py:1651).  The exit  *)
(* code of `aat verify --epochs` is about the chain: two hosts that both    *)
(* run the checks agree, a host without openssl finds no problem another    *)
(* does not, and 74 appears only where a token had to be checked and the    *)
(* host could not.                                                          *)
(***************************************************************************)
NotRunIsNoVerdict ==
    \A s \in DOMAIN chains, ca \in {None, Genuine, "missing"} :
        LET chainOk == VerifyChain(chains[s], Party(FALSE))
            fit     == BatchesFit(chains[s], anchors, FALSE)
            exits   == {[host |-> h, code |-> ExitCode(chainOk, fit, anchors, h, ca)] :
                          h \in {h \in Hosts : h.reply = "granted"}}
        IN  \A x, y \in exits :
              /\ "absent" \notin {x.host.openssl, y.host.openssl} /\ 74 \notin {x.code, y.code}
                   => x.code = y.code
              /\ x.host.openssl = "absent" /\ x.code = 1 => y.code \in {1, 74}
              /\ x.code = 74 => /\ ca = Genuine
                                /\ \E a \in anchors : "tsa" \in DOMAIN a
                                /\ x.host.openssl = "fails" \/ ~x.host.tmp
              /\ TimeVerified(anchors, x.host, ca)
                   => ca = Genuine /\ x.host.openssl = "runs"
=============================================================================
