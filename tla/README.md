# omega-evidence in TLA+

A verification development of `src/omega_evidence`: TLA+ models of the parts
whose correctness depends on what several processes, crashes and failing calls
do to the same files, the TLC configurations that check them on small
instances, and TLAPS proofs about the core.

## The system

omega-evidence keeps tamper-evident records: an append-only hash-chained ledger
(JSONL), a store of trusted signer keys built on it, signed evidence packs with
sidecar files, and a verifier that reads all of them and answers with a receipt
and an exit code. There is no server: the "concurrency" is that of threads that
share an object, of processes that share files, of a pack whose sidecars are
written one after the other, and of readers that read several files while others
write them.

| component | state it keeps | operations | interacts with |
|---|---|---|---|
| ledger (`ledger.py`) | the JSONL file, its flock; per instance `_lock`, `_count`, `_last`, `_size`, `_pending`, `_fh` | `append`, `flush`, `close`, `_load`, `verify`, `entries` | other threads by `_lock`, other processes by flock and file |
| trust registry (`trust.py`) | `_state`: signer to key, PQ key, revoked; its store is a ledger | `trust`, `rotate`, `revoke`, `get`, `replay` | appends to the ledger; the verifier reads the store with `replay` |
| verifier (`verifier.py`) | none: reads pack, sidecars, ledger, trust store one after the other | `verify_pack`, layer by layer, the roll-up, `main` | everything below, by files |
| receipt (`verifier.py` 534-743) | file descriptor 1, `data`, the buffers of stdout | `_write_all`, flush, exit code | whoever reads the pipe |
| pack (`pack.py`) | pack, `.sig`, `.tsr`, `.ots` files | build, write, sign, add a PQ signature, stamp | verifier, chip registry |
| AAT (`interop/aat.py`) | chains of hash-linked records, batch objects, epoch anchors, all held by the caller | `from_omega`, `close_record`, `tombstone`, `anchor_epoch`, `verify_chain`, `verify_epochs` | agent log, timestamp authority |
| preservation (`preservation.py`) | evidence records: chains of archive timestamps | initial, timestamp renewal, hash-tree renewal, verify | timestamp authority |
| chip registry (`chip_registry.py`) | `_services`, `_candidates`, `_sources` | `apply_signed_update`, `fetch_signed_update_online`, `ingest_candidates`, `publish_signed_update` | pack files, verifier, trust store |
| timestamp, PQ gate (`timestamp.py`, `pqbackends/`) | probe result, cached per process | stamp, verify, `get_backend` | openssl, optional libraries |
| agent log (`agent.py`) | its ledger, a lock | `record` with `check_attestation`, `verify`, `stats`, `evidence_pack` | ledger, chip registry |
| SD-JWT, DSSE, attestation, canonical form, signatures, OpenTimestamps, CRA | none | pure functions, network calls | |
| Go, Java and Node verifiers, differential oracle | none | independent re-implementations | |

What is hard, and what would make each part correct:

- **Ledger.** Two locks of different scope, counters updated after one of them is
  released, an fsync that may come late, fail or never, partial writes and the
  buffer Python keeps after a failed flush. Correct: the file always verifies;
  what `append()` returned stays; what a *sync* append returned survives a power
  loss; a *batch* writer loses no more than its declared window; no append
  waits for ever.
- **Trust registry.** A dictionary read once and a store that other processes
  (or a failed append) change behind it. Correct: the dictionary is the replay of
  the store, a revoked key is not trusted again without a rotation, a key is not
  swapped, a pinned post-quantum key is not lost or brought back silently.
- **Verifier.** A dozen layers, each verified, not verified, or impossible to check here;
  the roll-up must neither hide a finding behind a missing capability nor turn a
  missing capability into a finding; the files it reads may not belong together.
- **Receipt.** The exit code must be the verdict's only if the whole receipt left.
- **Pack lifecycle.** Files rewritten in place one after the other; a crash or a
  second signature in between must not leave something that verifies and is wrong.
- **AAT, epochs.** Tombstones (also of tombstones), closings and epochs in any order, an anchoring that
  fails after it has changed the records, index recovery in unbalanced trees. Correct: the verifier accepts what the
  module made and nothing that was altered, and an anchored record cannot disappear unseen.
- **Preservation.** Renewals in any order, none of which verifies what it renews. Correct: a record is valid exactly
  when it still proves every earlier entry, and no time passes as trusted that was not granted.
- **Chip registry, agent log.** A pack verified, then read again, its sidecar a third time; an older signed update after a
  newer one; an attestation checked outside the lock with two reads; a pack made of three readings of a growing ledger.
  Correct: only what a trusted signer signed becomes known, the sources explain the mapping, what the log says of a class stays true.
- **openssl.** Absent, not starting, or too slow: neither a pass nor a finding.

`PROJECT.json` lists every hazard at its line, with the properties that cover it
or the reason none does yet.

## Modules

| module | models | used by |
|---|---|---|
| `LedgerChain` | entries, the hash chain, what `_replay` and `verify_text` require | `Ledger`, `LedgerIO` |
| `DurableLog` | abstract: one log, a durable prefix, positions returned by a sync append | refined by `Ledger`, used by `TrustRegistry` |
| `Ledger` | `append()` between threads, instances and crashes, one line at a time | `MCLedger`, `Ledger_proofs` |
| `LedgerIO` | the same `append()` where a line can be torn | `MCLedgerIO`, `LedgerIO_proofs` |
| `TrustRegistry` | the registry over the log that `DurableLog` promises | `MCTrustRegistry` |
| `Receipt` | the receipt on its way to stdout, and the exit code | `Receipt_proofs`; TLC runs it directly |
| `PackVerdict` | the verifier's decision: layers, roll-up, receipt and verdict, as operators on what was read | `EvidencePack` |
| `EvidencePack` | producers rewriting the files of a pack while the verifier reads them | `MCEvidencePack`, `EvidencePack_proofs` |
| `MerkleTree` | the RFC 6962 tree of the epochs: roots, audit paths two ways, what a path proves | `AATChain`, `EpochTree` |
| `EpochTree` | the leaves of an epoch, one more at a time, and that its proofs fit | `MCArchive`, `Trail_proofs` |
| `Timestamp` | `stamp` and `verify` of an RFC 3161 token, on a host that may not be able to | `AATChain`, `EvidenceRecord` |
| `AATChain` | vocabularies, hashes and signatures of records, `close_record`, `tombstone` | `AATVerdict` |
| `AATVerdict` | `verify_chain`, one operator per group of rules | `AATExport`, `AATEpoch` |
| `AATExport` | `from_omega` | `AATSession` |
| `AATEpoch` | `anchor_epoch`, `verify_epochs`, the exit code of `aat verify` | `AATSession` |
| `AATSession` | the life of a trail: export, erasures, closings, anchorings; what a verifier then says of altered copies | `MCArchive`, `Trail_proofs` |
| `EvidenceRecord` | an evidence record built, renewed, damaged and verified | `MCArchive`, `Archive_proofs` |
| `Absent` | the value of what is not there | `Timestamp`, `ChipRegistry` |
| `ChipRegistry` | signed updates applied while curators replace the files | `AgentLog` |
| `AgentLog` | agents' threads over one ledger and a changing registry | `MCArchive`, `Archive_proofs` |
| `MCArchive` | the instance of the audit trail, the evidence record, the chip registry alone and under the agents, and of `Ledger` with a file cut by others | TLC |
| `Ledger_proofs`, `Receipt_proofs`, `EvidencePack_proofs`, `LedgerIO_proofs`, `TrustRegistry_proofs`, `Archive_proofs` (`EvidenceRecord`, `ChipRegistry`, `AgentLog`), `Trail_proofs` (`EpochTree`, `AATSession` and what it extends) | theorems about those modules | |
| `NatRecursion` | induction and recursion over an index, without an operator parameter; lists whose elements no set holds | `TrustRegistry_proofs`, `LedgerIO_proofs`, `Archive_proofs`, `Trail_proofs` |

### LedgerChain
A digest is *all that it covers*: `HashEntry` appends `(idx, data)` to the digest of the
previous entry, so two contents never share a digest (SHA-256 taken to be free of
collisions). The time stamp is part of `data`. `Continues` is `_replay`, which
ignores the stored `idx`; `VerifyText` is `verify_text`, which checks it.

### Ledger
`Threads` call `append()` on `Instances` (`InstanceOf`), each instance in a process of its
own. A thread's `pc` walks through the body of `append()`: one step for every lock, read or
write that another thread can observe.

| pc, action | code |
|---|---|
| `idle`, `Call` | the call |
| `enter`, `Enter` | `with self._lock` |
| `lock`, `LockFile` | `_lock_file`: flock exclusive |
| `resync`, `Resync` (`Adopt` or `Refuse`) | `_resync_locked`: same size, or replay of what others wrote; shorter or not continuing raises |
| `write`, `Write` | `_entry_locked`, `write`, `flush`; batch: `_pending += 1` |
| `fsync`, `Fsync` / `FsyncFails` | `os.fsync`, or the exception out of it |
| `unlock`, `Unlock` | `finally` of `_lock_file` |
| `account`, `Account` | `_count`, `_last`, `_size`, still under `_lock`, and the return |
| `raise`, `Raise` | an exception through both `finally` blocks, counters untouched |

`Start` is construction with `_load`; `Flush` is `flush()` and the flush of `close()`;
`Kill` ends a process at any point; `PowerLoss` ends all of them and keeps any prefix of
the page cache at least as long as what an fsync covered; `Truncate` is someone else cutting
the file, in `TruncSpec` only. `acks` is history: what `append()` returned and by whom.

Abstractions: a line reaches the page cache whole (`LedgerIO` lifts that); sizes count
lines; an fsync covers the whole inode, as `fsync(2)` does; a failed fsync changes
nothing on the disk; the directory entry of a new file is taken to be on the disk (the code
does not fsync the directory: listed as a hazard); one instance per process, so that
flock and process die together; the file is cut by others only between two appends.

### LedgerIO
A line is three pieces, two halves of JSON text and the newline. `FlushSome` writes any
number of the pieces still in the buffer, so a death, a power loss or a full disk falls
between any two. `buf` is what the Python file object has not written: after a failed flush a batch
writer's persistent handle keeps it for the next flush, a sync append's `with` statement
writes it when it closes the file (`CloseSync`), after the flock is released.
`FsyncFails` is an fsync that raises: the line stays whole on the file, `append()` returns nothing, and a
batch writer keeps the line in `_pending`, which so goes past `batch_size` until a later fsync succeeds. `Flush` is `flush()`,
`CloseBatch` is `close()`; when closing the handle raises, `_fh` stays set
to a closed file (`closed`), on which every append raises, until `close()` is called again (`CloseAgain`). One thread per instance here.
An fsync that succeeds after one that failed is taken at its word, as the code does; file systems exist where it should not be.

### TrustRegistry
`state` is `_state`, `Apply` is `_apply`, `Replay` applies it record by record over the store. An operation is
`Trust`, `Rotate` or `Revoke` (guards and the record to append, the line on file), then `Sync`
or `SyncFails`, then `Return`, where the dictionary changes. The store is
not a file here but the `DurableLog` that `Ledger` is shown to implement: `Extend`,
`Persist`, `Promise`, `Crash`. `decided` in a record is history: whether the caller named
or dropped the post-quantum key. Records malformed by hand, on which `_apply` raises, are left out:
no registry writes one.

### Receipt
The process that runs `main()`, what stdout is (`Streams`: a pipe, a file or closed; raw, as with
`python -u`, or buffered; blocking or not), and who reads the pipe. The receipt and the caller's unflushed
text are sequences of pieces; a write(2) takes any non-empty prefix there is room for.

| `pc` | code | actions |
|---|---|---|
| `text`, `textflush` | the first loop: `out.flush()` hands the caller's text to the buffered writer, then flushes that | `TextHanded`, `TextFlushed` |
| `write` | `while data`: `buf.write(data)`, the count, `data = data[n:]` | `Buffered`, `PassThrough`, `RawWrite`, `WouldBlock`, `DataWritten` |
| `flush` | the last loop: `buf.flush()` | `FlushWouldBlock`, `Flushed` |
| `wait_*` | `_wait_writable`: `select` | `Wait` |
| `exit` | `write_receipt` has returned, or failed (`Fails`: the null device, 74) | `AtExit`, the interpreter's own flush |

`Drain` is one write(2) of the buffered writer, wherever it flushes. Its behaviour is CPython's:
a call that fits is only copied; one that does not first empties the buffer, then goes out directly; on a
full non-blocking pipe it keeps what it has space for and raises `BlockingIOError` with that count. A raw
stream returns a short count, or `None`, and never retries. What the text layer has
handed over it forgets, even if the call raised: `Accounted` says so.
`sink` is history, what the system has taken. Abstractions: a call
may be copied as soon as a drain has made room for it, where CPython drains on unless it blocks; the null device opens; stderr, encodings and in-process streams are left out.

### PackVerdict
One operator per function of `verifier.py` that decides something, on a record `s` of what was read of pack, ledger,
`.tsr.json`, `.sig.json` and trust store: `LedgerLayer` is `_check_ledger`, `SignatureStatus` the classical part of
`_check_signature_and_trust`, `CosignatureLayers` `_check_pq_cosignature`, `Authentic` `_decide_authenticity`, `Valid` and `Assessed`
the roll-up, `Verdict` the three lines of `main()`. The order of the code's early returns is kept where it decides: form before
capability, the pin only for the key that signed, a second `FAIL` for a required layer under a signature that does not hold. `backends`
is the set of algorithms for which this host has a registered backend: of one that stands for those this project knows (`KNOWN_PQ_ALGS`) and one
for any other name, under which a third party may register its own (`register_sig_alg`); both are used the same way where they are there, and differ where they are
not: only a known algorithm is then marked as not assessed. Layers that are always `SKIP` (`pack-fields`,
`ltv-material`), wording and which malformation a malformed field has are left out. A digest is the content it covers, a signature the
digest that was signed. `verify_pack` gives the timestamp no trust anchor, so a token that fits is recorded, never verified.

### EvidencePack
| action | code |
|---|---|
| `WritePack`, `SignPack`, `PqCosign`, `AnchorPack`, `StampPack` | what `pack.py` reads and decides before it writes |
| `ForeignCosign` | a co-signature made outside, in an algorithm of its own, over what the signed pack declares; nothing of this project compares it with anything |
| `AddPqSignature` | the second read of the sidecar, in `add_pq_signature` |
| `Opens`, `Writes` | `write_text`: opened and truncated (torn, `Bad`, to whoever reads), then whole; two writers of one file may leave the end of the longer text behind the other. For a ledger, `append` under its flock, which refuses a broken file |
| `Dies` | the process dies with a file open, and it stays torn |
| `Alter` | somebody without the keys changes a field, or breaks the file |
| `ReadPack`, `Reads`, `ReadStore` | the verifier's one `read_input` of each file, in the order of `_verify_pack` |
| `Fault` | the guard of `verify_pack`: `internal_error_receipt` |

`signed`, `cosigned`, `base` and `quiet` are history: what was really signed, which pack a file was made for, whether anybody wrote
during verification. The trust store is chosen when it is read: one read, the last, and nothing here writes it. Producers stop once the
verifier has ended, as nothing they do is seen any more. What is asked (`Options`) and the backends of a host (`Hosts`) change nothing that is read, so
the properties quantify over them. `AbsenceNeverDecides` compares a host without the backend of the known algorithms with the same host once it has it.

### MerkleTree, EpochTree, AATChain, AATVerdict, AATExport, AATEpoch
Pure operators but for `EpochTree`, whose one action is a record more in an epoch; one per function or group of rules. A record is a function from the fields it carries, so that a missing field,
`None` and a value are three things, as in the dict. A hash is the hashed value; a signature is its key, what it is over and
one of the two forms ECDSA has; a key is its own kid, as a thumbprint is one to one. `DetailFor`, `Unmappable`, `Genesis`,
`ActionRecord` and `ExportEntry` are the body of `from_omega`, which raises on the first entry it cannot map (`Refused`) and
verifies what it built. `verify_chain` walks the chain once and carries sets and first values; here each `...Problems(recs, i)` names the earlier
records it depends on, and the chain is good when none of them reports anything. `BatchProblems` and `EpochProblems` are the two halves
of `verify_epochs`; `VerifyEpochs` and `ExitCode` take the verdicts on batches and chain as arguments, as they do not depend on the host.
Rules about the *form* of a value hold for everything the module writes and are left out.

### AATSession
The module keeps nothing; the trail belongs to its caller, and the actions are the caller's calls.

| action | code |
|---|---|
| `LogEntry` | an entry of the agent ledger (`AgentEvidenceLog.record`) |
| `Export` | `from_omega`, once, in one of the ways of `Exports` |
| `EraseRecord` | `tombstone`, signed by the session's signer or by the deleting authority, also of a tombstone |
| `CloseSession` | `close_record`, signed |
| `Anchor` | `anchor_epoch` over some sessions, with or without a TSA, on a host where that may fail: the batch objects are replaced first |

`sealed` is history: what every anchored epoch was over. `Altered` and `AlteredEpoch` are the copies a verifier may be handed.

### Timestamp, EvidenceRecord
A host says whether openssl is absent, runs or fails, whether a temporary file can be written, and what the TSA answers.
`stamp` never raises but for its temporary directory, made before the `try`; `verify` raises `CheckNotRun` where it could not look.
`Build`, `RenewTimestamp` and `RenewHashTree` are the three calls that write; `Damage...` is storage. `issued` is history: the
entries as they were written. A digest is the pair of its algorithm and what it is over.

### ChipRegistry, AgentLog
An update is a call with a `pc`: `Verify` (`verify_pack`), `Read` (the second `open`), `MergeClass` (one turn of the loop of `_merge`), `RecordSource`
(`_signer_of` opens the sidecar a third time). Curators write, sign, spoil and remove the files between any two of them; a fetched pair lies in a
directory of its own, which nobody writes, but was fetched in two requests. `merged`, `swapped`, `signed` and `lost` are history.
`AgentLog` extends it: `ReadKnown` and `ReadService` are the two reads of `check_attestation`, `AppendRecord` the entry under the lock;
`VerifyLog`, `ReadCount` and `ReadStats` the three readings of `evidence_pack`. The ledger under it is a sequence that grows by one entry at a time: what
`DurableLog` promises and `Ledger` is shown to implement.

### Faulty variants
Definitions named `X_Something` stand before the `X` they are a faulty form of: an fsync
that is due one append late, a lock that is not taken, a swallowed
exception. They are in no specification. Putting one in the place of `X` makes the property
`PROJECT.json` pairs it with fail: it shows that the property would notice.

## What is checked

Sizes and bounds are those of the `.cfg` files.

| run | instance | shows |
|---|---|---|
| `ledger_writers` | two threads of a batch instance, one of a sync instance in another process, 2 entries | the inductive invariant, chain, returned entries, durability, window; refinement of `DurableLog`; every append ends |
| `ledger_regrown` | two instances, 3 entries, outside truncation | **violation**, see below |
| `io_faults` | a sync and a batch instance, crashes, a full disk and failing fsyncs, appends begun on up to 3 and 6 pieces | a file that verifies is complete; what is pending is on the file; loader and `verify()` agree; readers see whole lines when nothing failed |
| `io_newline` | one sync instance, crashes | **violation** |
| `io_retained` | one batch instance, a full disk | **violation** |
| `trust_single` | one registry, one signer, 2+2 keys, 4 records | dictionary = replay; revocation, key and pin properties |
| `trust_two` | two registries on one store | **violation** |
| `receipt_ends` | 3 held pieces, a receipt of 5, a buffer of 2, a pipe of 3; every stdout, initial room and verdict | order, exit code = verdict only if all was taken, 74 only if stdout is broken, the process ends |
| `pack_verified` | two producers, 4 operations of which at most one alteration, 3 contents (one without a declared limit), 1 + 2 keys, a host without backends and one with a third party's too | what the receipt says is earned; absence and faults decide nothing; files that belong together pass |
| `receipt_caller` | 3 held pieces, a receipt of 1, a buffer of 2 | **violation** |
| `archive` | six parts, see below | what the verifiers of trails and evidence records accept is exactly what was made and not damaged; only trusted updates, and the sources explain them; attestations and packs of an agent log; a ledger cut under its only writer is refused |
| `aat_tombstone` | the trail of `archive` | **violation** |

`archive` explores six parts that share no state; a behaviour belongs to one of them, chosen by `part` in the initial state, while the others
stay as they began. It is the sum of six runs and no product of their states.

| part | instance |
|---|---|
| `trail` | 2 entries of 3 kinds (executed, blocked in another session, incoherent), exported unsigned and closed, signed and open, or hybrid by an independent recorder and closed; sessions and calls together up to 4; every verifier with and without a pin |
| `tree` | every tree of 0 to 7 leaves over two contents, so that equal leaves occur |
| `record` | two packs or an unreadable one, a 32-byte and a 64-byte hash, 3 archive timestamps, 1 damage at any moment, hosts that stamp, refuse or cannot write |
| `registry` | one class of the baseline, one new, one untrusted; four updates, two signers of whom one is trusted, 4 file writes, 2 merges |
| `agents` | two instances, one with a registry, a signed update applied at any moment, 2 entries |
| `cut` | `Ledger` with two threads of one instance, 3 entries, the file cut between appends; the only part where `Refuse` happens |

**Why these bounds.** Two entries are enough for each writer to link to, replay or lose
another's line, and for a batch window of 2 to fill; two threads of one instance and one of
another cover both kinds of contention and both modes at once. A call is not made on a
full ledger but calls already under way finish, so the file grows to one line per thread more.
In `io_faults` the sync writer calls `append()` on fewer than 4 pieces of file and buffer, the batch writer on fewer than 7 (`MaxPieces`), so that its window of 2 fills
and a third line follows an fsync that failed; those pieces hold a torn line, a glued one and a whole one, and a buffer with the rest of
another, in any order. Four records are the shortest history of trust, revoke, rotate and one more change of a signer;
signers are independent in the code, one is enough. A receipt longer than buffer and
pipe together is written in at least three calls with any split, and fills, drains and bypasses the buffer; the held text alone overflows it. Four operations are write, sign, co-sign and one that spoils them (a
rewrite, a second signature, an alteration, another producer's co-signature), each interrupted or overtaken anywhere, with the verifier's
reads in between; the second post-quantum key is the one that is not pinned.
Of a host's backends only one matters to a pack, that of its co-signature's algorithm: `{}` and `{"known", "other"}` have and lack each, and the theorems hold for any `Hosts`. Payloads and keys are only
stored and compared, so they may be permuted (`SYMMETRY`).
For a trail, a genesis, an action and a close are the shortest chain with a link before and after the record that is erased, and two sessions the
least an epoch can span; four calls hold tombstone, close, tombstone again and an anchoring. Seven leaves have every shape of a split: full, one over, and
two unbalanced levels (4 + 3, 2 + 1); that the proofs fit is proved for any number. Three archive timestamps hold each renewal before and after each other and an entry between two that bind it.
Four writes are a pack and its sidecar, and both replaced.

**Fairness** (`FairSpec`). A thread inside `append()` takes its next step: it runs, and
none of its steps waits for anything but the two locks. Waiters of both locks are
queued and woken by the kernel; that one of them is not overtaken for ever, while others keep
appending, is assumed as strong fairness of `Enter` and `LockFile`. Neither Python nor flock
promises it in writing; with weak fairness alone `AppendEnds` would only fail by such overtaking. Calls, deaths, power losses and
reopenings are not fair: nothing makes them happen. A thread whose process dies is idle:
its append has ended without returning.

For the receipt: the process runs (`WF_vars(Process)`), and whoever has the pipe reads or leaves
(`WF_vars(Reads \/ Leaves)`). That the reader does either is an assumption the code makes too: `_wait_writable` has no time limit, and a reader
that keeps the pipe open without reading keeps the verifier waiting, as it would keep any blocking writer.
The runs of `Receipt` do not check deadlock: the process ends.

### Where code and documentation disagree

- `ledger_regrown`: "A file truncated by someone else is refused" (`ledger.py:236`). Only
  the size is compared (`ledger.py:325`): a file cut and grown again by another writer to the
  remembered size passes, and the next entry links to a hash that is on no line.
- `io_newline`: "a power loss loses at most the in-flight entry" (`ledger.py:223`). A crash
  exactly before a newline leaves a line `_replay` accepts (`ledger.py:305`); the next append
  is glued to it and both are lost, the second after it was returned, and the ledger no longer loads.
- `io_retained`: "every entry links to the last hash on disk and carries the next idx"
  (`ledger.py:234`). After a failed batch flush the handle still holds the line; the next append writes it
  too, then its own with the same `idx`.
- `trust_two`: "a different key for the same id raises" (`trust.py:17`). Two registries on the
  same store do not see each other's records; the second swaps the key.

- `receipt_caller`: "text the caller wrote and left unflushed, on a full non-blocking stdout, is waited for
  like the receipt" (`verifier.py:613`). `out.flush()` raises after the text layer has given its text away, the count it
  reports is not used, and the next `out.flush()` has nothing left to write: what the buffer had no space for is lost and the exit code is
  the verdict's. The receipt is not affected. Seen on CPython 3.11: of 6000 characters 4096 arrive.
- `aat_tombstone`: a tombstone is made "so the NEXT record's prev_hash keeps verifying" (`aat.py:602`). A record appended after a
  tombstone links to the tombstone's own hash; erased a second time, the tombstone gets a new hash and keeps the first original's, and that link is
  reported as altered. `VerdictIsExact` names this as one of the three cases in which a chain the module made does not verify; the others are a tombstone left
  as the last record, which the verifier refuses on purpose, and records of one session signed by two principals.

One more consequence of a failed append is allowed by the properties and worth knowing: a
`revoke()` that raised may be on file; the live registry goes on as if it were not, and a
later `trust()` it returns is ignored on replay. `Heeded` in `TrustedKeyStays` and
`PqPinStays` leaves such a record out, `RevokedStaysRevoked` shows that the replay errs on the revoked side,
and `LiveIsReplay` speaks of registries none of whose appends has raised.

What a missing backend decides: nothing, for the algorithms this project knows (`AbsenceNeverDecides`). Under another name the layer is judged as it stands
(`verifier.py:278-281`; the repository's README: "An **unknown** algorithm name stays a judgment"). Its next words, "it can never be pq-protected", hold where no such backend is registered; `verify_pq_alg` asks
whichever one is (`signing.py:172`), so a host with a third party's backend can `PASS` a required, pinned co-signature that another host calls a finding. The property does not
speak of those names; `PassIsEarned` does, on every host. Beyond the fields of the model, what a third-party backend accepts is its own affair.

Others, of the archive, are stated by its properties:

- A renewal of an evidence record does not verify it first. Damage to the newest entry's number or time, which no later entry
  covers yet, is taken over by the next renewal and sealed (`RecordVerdictIsExact`; with the TSA's roots a token that was not
  granted still fails).
- `_timestamp_root` is described as using RFC 3161 "if a TSA (and openssl) is available" (`preservation.py:108`); the query is made with `-sha256`
  (`timestamp.py:94`), which openssl refuses for a digest of 64 bytes, so an entry hashed with a 64-byte algorithm always has an asserted time.
- A class mapped by a signer who is revoked later stays known; an older signed update applied again puts its mapping back and is recorded as
  the latest source: updates carry no version, and `ServicesFollowSources` only says that sources and mapping agree. A sidecar that is JSON but no object makes the call
  fail with the classes merged and no source recorded; the property excepts the registries it leaves behind (`lost`). Neither hazard is caught by it.
- A local update file replaced between verification and reading is merged unverified (`swapped` in `OnlyTrustedUpdates`); the fetched one cannot be.
- The `entries` of an evidence pack is the instance's counter, which other processes' appends do not reach: it may be less than what was verified (`PacksBracket`).
- A class may be recorded as unknown and yet with the service of an update merged between the two reads (`AttestationsHold`).

## What is proved

`Ledger_proofs.tla`, for any set of threads and instances, any batch size and any payloads, from
the four assumptions on the constants (`InstanceOfAssumption`, `BatchAssumption`,
`NoneAssumption`, `BoundAssumption`):

- `LedgerTypeOK`: the types.
- `LedgerInvariant`: `Spec => []IInv`. The chain property is not inductive alone: that `Write` extends
  a valid chain needs the counters to describe the whole file (`Accounted`, and `size = Len(file)` at
  `write` in `InFlight`), that needs the flock not to have changed hands (`Locking`), and the
  durability of a returned entry needs the line of an append under way to be under the fsync or
  counted as pending (`InFlight`). The proof has a lemma per action, with one step per part of `IInv` the action can disturb.
- `LedgerChainValid`, `LedgerReturned`, `LedgerSyncIsDurable`, `LedgerNothingAtRisk`: the safety
  properties of the run, from `IInv`.
- `LedgerImplementsDurableLog`: every step of `Spec` is a step of `DurableLog` or a stutter under the mapping
  that keeps payloads and the positions of sync appends; with `IInv` for the promises.
- `LedgerWindow`: what a batch writer has returned and not fsynced is counted in `pending` (`Window`), and a line whose append has not
  returned is at risk to nobody (`Unreturned`); by cardinalities of the set of positions at risk.
- `LedgerCutIsRefused`: for `TruncSpec`, where others cut the file between appends, and one instance (`OneInstance`; with two, `ledger_regrown`
  violates it). `IInv` does not survive a cut. `CutIInv` keeps what does: the counters of a live instance pass every line it returned, whatever is left
  of the file, and as long as the file is not shorter than the counters those lines are on it (`Remembered`); a file grows only by the instance's own
  append, which a shorter one never reaches.

`Receipt_proofs.tla`, for texts, buffer and pipe of any size (`ReceiptAssumption`):

- `ReceiptInvariant`: `Spec => []IInv`. `ReceiptInOrder` speaks of what the system has; to carry it through a step one
  must know that system and buffer together continue exactly where the call in progress does (`Conserved`), that this call and
  `data` are tails of the receipt (`WritePhase`), and for the exit code that nothing is left in the buffer or stdout
  is broken for good (`Outcome`: a broken stream stays broken). Lemmas about prefixes and tails of sequences come first, then one per action.
- `ReceiptIsInOrder`, `ReceiptVerdict`, `ReceiptGivesUp`: the properties of the run, from `IInv`; `ReceiptTypeOK`: the types, proved and not run.

`EvidencePack_proofs.tla`, for any contents, keys, producers and bounds (`ScopeAssumption`, `BoundsAssumption`, `MarksAssumption`) and any `Hosts`:

- `PackInvariant`: `Spec => []IInv`. That a receipt which says `authenticated` speaks of a real signature cannot be carried
  through a step by looking at what the verifier has read alone: the sidecar it reads next may be one that an operation still holds, or
  merges a co-signature into. `Attested` says it of signatures and co-signatures in every place where a sidecar can be; the types say that no file ever holds another's contents.
- `PackAuthenticated`, and the types, `PackTypeOK`, which no run repeats: from `IInv`.
- `PackAbsence`: of the operators alone. With and without the backend of the known algorithms, whatever others are there, the layers are the same, or differ in exactly one, which nobody
  has looked at (`WithoutBackend`); then either another layer's finding decides both, or the answer is `NOT_ASSESSED`.
- `PackPassIsEarned`: a `PASS` has no failed layer, so each layer that was required says what it found; `Attested` turns that into what a key really made.
- `PackFaultIsNoFinding`: what a verifier found before it raised stays found when the unread files are read, and it has not read the trust store yet.
- `PackHealthyPasses`: while no file was altered by others each one was made for the pack that `base` remembers (`Made`), and what the verifier holds it read
  in the order of the code (`InOrder`); then no layer can fail (`FitPasses`). A co-signature merged into a sidecar of another pack belongs to no pack, and
  `base` says so: in a longer history than the run's the property would fail without it. All five properties of the run are thus proved for any bounds.

`NatRecursion.tla` has what the following modules rest on. The library's induction theorems take an operator, which the provers cannot instantiate; here
the hypothesis of an induction is the *set* of indexes at which the claim holds (`Upward`, from the least element of a set of naturals; `FromBelow` when the claim is known of all smaller ones), and
`RunExists` gives the function that a recursion on its index defines.

`TrustRegistry_proofs.tla`, for any signers and keys (`TrustAssumption`). `Replay` is the recursive function `known` over the records:

- `TrustInvariant`, `TrustTypeOK`, `TrustRevoked`: for any number of registries on one store, with the appends, crashes and failures of all of
  them interleaved. What is on file was decided over a known signer (`Founded`) and a registry knows no signer that the store does not
  (`StoreKnows`): a revocation is on file only of a signer that a replay knows, so it takes effect.
- `TrustAlone`, and from it `TrustLive`, `TrustKeyStays`, `TrustPqStays`, `TrustRevokedPq`: for a registry that has the store to itself
  (`Registries = {r}`; with two, `trust_two` violates the first of them). Its dictionary is the replay of the store up to the record of the
  call under way or of an append that raised (`InFlight`, `FollowsStore`), and what was promised about a key or a pin is told by the replay at every
  later position until a rotation (`PromisesTold`).

`Archive_proofs.tla`, its first part: evidence records, for any packs, hash algorithms, hosts, renewals and damages. `RecordConstants`, the hypothesis of its theorems, says that
packs are lists, that absent and damaged values are no functions (model values, in TLC), and that the names differ. Values are nested as deep as a record has renewals,
so no set holds them; a list is a sequence over some set:

- `RecordInvariant` (`RecordIInv`): entries are stored as written or damaged (`Stored`), and the objects a renewal found are the build's, or damaged and damaged still (`FoundObjects`).
- `RecordVerdictExact`: a Merkle root is a digest (by recursion over the levels), so damage, which is none, cannot pass for a value that the
  verifier computes (`ComparedIsIssued`). A binding that fits is over what the record holds now, hence what its renewal found is what is there
  (`FitsRenewal`); the other way, with the objects and the earlier entries as found, the verifier computes what was written (`UndamagedRenewal`). Times: `TimeJudged`.
- The part of `RecordVerdictIsExact` that compares hosts (`RecordNotRun`) is of the operators alone, one host against another (`HostJudges`, `HostsAgree`).

The proof of `RecordVerdictExact` found the property wrong as it first stood. It asked every entry to be as the *first* binding over it found it; with two damages an
entry may be altered, bound by a new hash tree, restored, and bound by a time stamp: the record then fits the later binding and not the tree's.
Each later binding must find it as it is (`Found`, `Binds`), and so the property says now.

Its second part: the chip registry alone, for any classes, updates, signers and bounds (`ClassesAssumption`, `UpdatesAssumption`, `NoneAssumption`, `BoundAssumption`):

- `RegistryInvariant`: `Spec => []RegistryIInv`. `OnlyTrustedUpdates` speaks of `services`; to carry it through a merge one must know
  where the body being merged came from (`MergedIsSigned`, `VerifiedIsSigned` from the verification on), and for that what every sidecar in any
  place vouches for (`SidecarsAreSigned`).
- `RegistryTyped`, `OnlyTrusted`: from it.
- `SourcesFollowed`: with `SourcesAreFollowed`, which says during a merge that the classes already merged follow the body and the others the sources.

Its third part, on top of the second, for any threads and instances (`AgentAssumption`):

- `AgentTyped`, `AttestationsAlwaysHold`: by `AInv`, which says of a task between its reads what `AttestationsHold` says of the log: a
  class once known stays known and rooted in a merged update, whatever the registry does before the append.

- `PacksAlwaysBracket`: the readings of a pack lie in the order of the code (`ReadingsInOrder`), the file only grows and the counter of an
  instance never passes it; the statistics are a cardinality, which grows with the file.

`Trail_proofs.tla`, its first part: the tree of an epoch, for any number of leaves (`TreeTypes`). The code computes the same root and the same paths twice, once
by splitting at the largest power of two below the count and once by pairing up; the repository tests their agreement for up to 64 leaves:

- `TreeProofsFit`. Each recursive function is first shown to be what its equation says. Then the two shapes of a tree meet: in a split of
  more than *w* and at most *2w* leaves, *w* a power of two, the left half is the whole subtree of *w* leaves (`SplitAtWidth`), so the *h*-th level holds the
  roots of the spans of 2^*h* leaves, the last one cut short (`LevelHolds`, carried up by `LevelRises`), and what a leaf has gathered on its way to level *h* is
  its path in its span (`Climbed`, `ClimbRises`). `PathsFit` follows a path up and down, part by part of the tree; `IndexesAgree`: paths
  that prove one index in a tree of some size prove one index in a tree of every size, so no two of an epoch's paths do.
- `TreeProofsSound`: the converse, that no run could enumerate. Any path at all that leads from the hash of a record to the root is the path built for a
  leaf of that hash and proves its index. This rests on leaves and nodes being hashed apart (`0x00` and `0x01`, `aat.py:230`, `aat.py:234`) and on SHA-256 as a free constructor.

Its second part: the audit trail, for any keys, ledger entries, ways of exporting, hosts and bounds. `TrailConstants`, the hypothesis of its theorems, says what the names
of the instance stand for: absence is no key, no function and no way of exporting; a `pq` key is an ML-DSA-65 key, a `classical` one and the deleting authority's are ES256;
entries carry a time that is a number; the bounds are natural. Records link to all that precedes them, so again no set holds them.

- `TrailTypes`, from the inductive invariant `TrailInv` (`EntriesOk`, `CountsOk`, `ChainsOk`). `ChainOk` describes every record that `from_omega`, `tombstone` and `close_record`
  write: the genesis first, then actions and tombstones, a close only last; which fields each carries and whose signatures; that each link is
  the predecessor's hash, or the original hash that the predecessor's tombstone names, or an older tombstone of it; times in order and no `record_id` twice. `FromOmega` is a recursion over the ledger
  (a run whose chains each satisfy `ChainOk` at every entry); the others change one record or add one.
- `TrailVerdict`: rule by rule of `verify_chain`. `ChainOk` excludes every problem but three: a link to an older tombstone, a tombstone at the end and a
  second principal; each of these is reported whenever it is there. That is `WellMade`.
- `TrailAlteration`: for each alteration, at any place of a chain of any length. A swap or a repetition is told by its links or by a `record_id` that comes twice; a
  record dropped before the end breaks the next link; an edit either breaks the next link (a hash covers all fields but `batch`) or a signature, or it is one of the limits the
  code declares. Signed and unsigned chains differ in which.
- `TrailEpochs`: with `EpochsOk`, what each anchoring leaves behind: anchors are of different epochs, and a record's batch object is of an epoch without an anchor or names the leaf the record is
  or was (`BatchIs`). The hashes of all records in the chains differ (`RecordsDiffer`: their `record_id` is hashed), trees of different lists have different roots (`RootsDiffer`), an index found from a
  path is the leaf's (`TreeProofsFit`), and as many leaves covered as the anchor counts are all its leaves, so that completeness is what `verify_epochs`
  finds (`EpochComplete`) and nothing else is (`EpochSound`). Then each altered copy is one of those both speak of (`AlteredHanded`).
- `TrailNotRun`: of the operators alone, without an assumption.

`LedgerIO_proofs.tla`, for any instances, payloads and batch size, and files of any length (`IOAssumption`). `Lines` is a recursive function over the pieces:

- `IOInvariant`, `IOTypeOK`: `IInv` says of the text itself only that its pieces are there (`Written`), never that they are in order, for after a fault they may
  not be. Two facts carry the rest. An entry's link is as long as its idx (`Made`), because `append()` takes both from the same counters: so does a resync that is not refused
  (`Resynced`). And reading loses nothing but newlines and blank lines (`LinesHold`). Pending appends have no bound but the file (`Windows`): each failed fsync leaves one more.
- `IOLoaderAgrees`: along a chain of such entries each has the next idx whether or not it is looked at (`ChainCounts`), which is why `_replay` may ignore it.
- `IOVerifiedComplete`: where every line parses, an entry whose second half is in the file is one of the lines (`EntriesMade`), and where the chain verifies it is at its idx.
- `IOSnapshots`: until something fails, there is a chain whose text is the file or, while the flock is held, the file and the holder's buffer (`Orderly`); the counters of
  every instance fall on line boundaries, so a resync starts at one.

Only model-checked: `AppendEnds` and `Ends` (liveness: LS4 and the backends have no fairness or ENABLED). Every other property of a passing run is
a theorem, for every value of the constants its assumptions admit; `TruncationRefused` is one of `Ledger`, of which `MCArchive` runs one instance.

## Not modelled

- Hashes, signatures, canonical JSON and the character-level JSON profile: arithmetic and data,
  outside a model checker's reach; ideal in the models.
- Of `aat.py`: rules about the form of a value (UUID v4, URI, RFC 3339, sizes, the `aat_` prefix), the closure of section 13, the caller's
  `consequential` predicate, `external_timestamp` (a second caller of `VerifyToken`), JSONL and CSV, warnings.
- Of `timestamp.py`: the extraction of long-term validation material (certificates and CRLs, best effort, never judged).
- Of `preservation.py`: `renewal_due` (a comparison); fields of the wrong type, which are one `FAIL`.
- Of the verifier: layers that are always `SKIP`, wording, argument parsing.
- The backend probe and the KAT gate of `pqbackends`: a backend is there or not, during one verification.
- Of an evidence record's damages, one of the stored hash algorithm's name.
- SD-JWT, DSSE and attestation: pure functions over signed text, no state.
- OpenTimestamps and CRA: network calls and record assembly.
- Package entry points; the Go, Java and Node verifiers, which re-implement the Python one and are compared with it by the repository's own
  oracle; Windows, where `fcntl` is missing and the ledger runs without file locks.
- A ledger's directory entry after a power loss, and the batch window of a whole deployment (`ledger.py:227` declares it per writer; two batch writers, or one
  that restarts before its fsync, leave more unsynced).
