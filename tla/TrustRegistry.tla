--------------------------- MODULE TrustRegistry ---------------------------
(***************************************************************************)
(* omega_evidence/trust.py: signer ids bound to keys on first use, rotated *)
(* and revoked explicitly.  A registry reads its store once, when it is    *)
(* opened; from then on it decides from its own dictionary and appends one *)
(* record per change.  The store is a "sync" Ledger, of which only what    *)
(* DurableLog promises is used: a record is on file, then under an fsync,  *)
(* then returned, and the append can raise or the process die in between.  *)
(***************************************************************************)
EXTENDS Integers, Sequences

CONSTANTS
    Registries,   \* TrustRegistry objects open on the same store
    Signers,
    Keys,         \* Ed25519 public keys
    PqKeys,       \* ML-DSA-65 public keys
    None,
    MaxRecords    \* bound: no change is asked of a store this long

\* `decided` is history, not in the line: the caller named or dropped a PQ key.
Record == [action : {"trust", "rotate"}, signer : Signers,
           pubkey : Keys, pq : PqKeys \cup {None}, decided : BOOLEAN]
          \cup [action : {"revoke"}, signer : Signers,
                 pubkey : {None}, pq : {None}, decided : {FALSE}]
Binding == [pubkey : Keys, pq : PqKeys \cup {None}, revoked : BOOLEAN]
Call == [signer : Signers, binding : Binding, pos : Nat, synced : BOOLEAN]

ASSUME TrustAssumption ==
    /\ None \notin Signers \cup Keys \cup PqKeys \cup Binding \cup Call
    /\ MaxRecords \in Nat

VARIABLES
    store, durable, promised,   \* the ledger, as in DurableLog
    open,      \* the registry is constructed and its process alive
    state,     \* self._state: the binding of each known signer
    call,      \* the change in progress under self._lock
    raised     \* history: an append of this registry has raised

Ledger == INSTANCE DurableLog WITH log <- store, Data <- Record

vars == <<store, durable, promised, open, state, call, raised>>

-----------------------------------------------------------------------------
Pin(k, q) == [pubkey |-> k, pq |-> q, revoked |-> FALSE]
IsRevoked(b) == b # None /\ b.revoked
PqOf(b) == IF b = None THEN None ELSE b.pq

\* Faulty variants, named *_...: each is the definition that follows it with a
\* bug its author could have made, and violates a property of this module.
Ignored_Retrusts(cur, rec) == rec.action = "revoke" /\ cur = None

\* _apply: one record of the store, replayed.
Ignored(cur, rec) == \/ rec.action = "trust" /\ IsRevoked(cur)
                     \/ rec.action = "revoke" /\ cur = None

Apply(st, rec) ==
    LET cur == st[rec.signer] IN
    IF Ignored(cur, rec) THEN st
    ELSE [st EXCEPT ![rec.signer] =
            IF rec.action = "revoke" THEN [cur EXCEPT !.revoked = TRUE]
                                     ELSE Pin(rec.pubkey, rec.pq)]

\* What a registry opened on this store, or replay(bytes), knows.
Nobody == [s \in Signers |-> None]
Replay(log) ==
    LET known[n \in 0..Len(log)] ==
          IF n = 0 THEN Nobody ELSE Apply(known[n - 1], log[n])
    IN  known[Len(log)]

-----------------------------------------------------------------------------
Init ==
    /\ Ledger!Init
    /\ open = [r \in Registries |-> FALSE]
    /\ state = [r \in Registries |-> Nobody]
    /\ call = [r \in Registries |-> None]
    /\ raised = [r \in Registries |-> FALSE]

\* The flock of the ledger is free: no record is between file and fsync.
LogUnlocked == \A r \in Registries : call[r] # None => call[r].synced

Open(r) ==
    /\ ~open[r] /\ LogUnlocked
    /\ open' = [open EXCEPT ![r] = TRUE]
    /\ state' = [state EXCEPT ![r] = Replay(store)]
    /\ UNCHANGED <<store, durable, promised, call, raised>>

\* self._ledger.append(rec), up to the line on file; `b` is what the signer's
\* binding becomes in the dictionary if the append returns.
Submit(r, rec, b) ==
    /\ open[r] /\ call[r] = None /\ LogUnlocked
    /\ Len(store) < MaxRecords
    /\ Ledger!Extend(rec)
    /\ call' = [call EXCEPT ![r] = [signer |-> rec.signer, binding |-> b,
                                    pos |-> Len(store) + 1, synced |-> FALSE]]
    /\ UNCHANGED <<open, state, raised>>

TrustAccepted_AnyKey(cur, k, q) ==
    /\ ~IsRevoked(cur)
    /\ PqOf(cur) # None /\ q # None => PqOf(cur) = q

\* trust(): an unknown signer, or a PQ key added to a signer that has none.
\* The same keys are idempotent and write nothing; everything else raises.
TrustAccepted(cur, k, q) ==
    /\ ~IsRevoked(cur)
    /\ cur # None => cur.pubkey = k
    /\ PqOf(cur) # None /\ q # None => PqOf(cur) = q
    /\ ~(cur # None /\ (q = None \/ PqOf(cur) = q))

Trust(r, s, k, q) ==
    LET cur == state[r][s] IN
    /\ TrustAccepted(cur, k, q)
    /\ Submit(r, [action |-> "trust", signer |-> s, pubkey |-> k, pq |-> q,
                  decided |-> q # None],
              Pin(k, IF q # None THEN q ELSE PqOf(cur)))

RotateAccepted_Resurrects(cur, q, drop) == ~(q # None /\ drop)

\* rotate(): q = None and ~drop is the caller who does not mention the PQ key.
RotateAccepted(cur, q, drop) ==
    /\ ~(q # None /\ drop)
    /\ ~(IsRevoked(cur) /\ PqOf(cur) # None /\ q = None /\ ~drop)

Kept_Downgrades(cur, q, drop) == IF drop THEN None ELSE q
Kept(cur, q, drop) == IF drop THEN None ELSE IF q # None THEN q ELSE PqOf(cur)

Rotate_KeyNotRecorded(r, s, k, q, drop) ==
    /\ RotateAccepted(state[r][s], q, drop)
    /\ Submit(r, [action |-> "rotate", signer |-> s, pubkey |-> k, pq |-> q,
                  decided |-> q # None \/ drop],
              Pin(k, Kept(state[r][s], q, drop)))

Rotate(r, s, k, q, drop) ==
    LET cur == state[r][s]
        kept == Kept(cur, q, drop)
    IN
    /\ RotateAccepted(cur, q, drop)
    /\ Submit(r, [action |-> "rotate", signer |-> s, pubkey |-> k, pq |-> kept,
                  decided |-> q # None \/ drop],
              Pin(k, kept))

Revoke(r, s) ==
    LET cur == state[r][s] IN
    /\ cur # None
    /\ Submit(r, [action |-> "revoke", signer |-> s, pubkey |-> None, pq |-> None,
                  decided |-> FALSE],
              [cur EXCEPT !.revoked = TRUE])

\* The rest of the append: fsync, or its failure, which raises out of the
\* operation with the line on file and the dictionary as it was.
Sync(r) ==
    /\ call[r] # None /\ ~call[r].synced
    /\ Ledger!Persist
    /\ call' = [call EXCEPT ![r].synced = TRUE]
    /\ UNCHANGED <<open, state, raised>>

SyncFails(r) ==
    /\ call[r] # None /\ ~call[r].synced
    /\ call' = [call EXCEPT ![r] = None]
    /\ raised' = [raised EXCEPT ![r] = TRUE]
    /\ UNCHANGED <<store, durable, promised, open, state>>

Return_WholeRecord(r) ==
    /\ call[r] # None /\ call[r].synced
    /\ Ledger!Promise(call[r].pos)
    /\ state' = [state EXCEPT ![r][call[r].signer] = store[call[r].pos]]
    /\ call' = [call EXCEPT ![r] = None]
    /\ UNCHANGED <<open, raised>>

\* The dictionary follows the store, and the operation returns.
Return(r) ==
    /\ call[r] # None /\ call[r].synced
    /\ Ledger!Promise(call[r].pos)
    /\ state' = [state EXCEPT ![r][call[r].signer] = call[r].binding]
    /\ call' = [call EXCEPT ![r] = None]
    /\ UNCHANGED <<open, raised>>

Close(Gone) ==
    /\ open' = [r \in Registries |-> open[r] /\ r \notin Gone]
    /\ state' = [r \in Registries |-> IF r \in Gone THEN Nobody ELSE state[r]]
    /\ call' = [r \in Registries |-> IF r \in Gone THEN None ELSE call[r]]
    /\ raised' = [r \in Registries |-> raised[r] /\ r \notin Gone]

Kill(r) == open[r] /\ Close({r}) /\ UNCHANGED <<store, durable, promised>>

PowerLoss == /\ Close(Registries)
             /\ \E k \in durable..Len(store) : Ledger!Crash(k)

Next ==
    \/ \E r \in Registries :
          \/ Open(r) \/ Sync(r) \/ SyncFails(r) \/ Return(r) \/ Kill(r)
          \/ \E s \in Signers :
                \/ Revoke(r, s)
                \/ \E k \in Keys, q \in PqKeys \cup {None} :
                      \/ Trust(r, s, k, q)
                      \/ \E drop \in BOOLEAN : Rotate(r, s, k, q, drop)
    \/ PowerLoss

Spec == Init /\ [][Next]_vars

-----------------------------------------------------------------------------
(* Properties *)

Known == Replay(store)
After(p, s) == {n \in (p + 1)..Len(store) : store[n].signer = s}
RotatedAfter(p, s) == \E n \in After(p, s) : store[n].action = "rotate"

\* The signer's binding before the p-th record, and whether _apply heeds it: a
\* revocation that raised is on file, and hides a trust() made in spite of it.
Before(p) == Replay(SubSeq(store, 1, p - 1))[store[p].signer]
Heeded(p) == ~Ignored(Before(p), store[p])

\* Type invariant: the store holds records, a dictionary binds known signers.
TypeOK ==
    /\ store \in Seq(Record)
    /\ durable \in 0..Len(store) /\ promised \subseteq 1..durable
    /\ open \in [Registries -> BOOLEAN] /\ raised \in [Registries -> BOOLEAN]
    /\ state \in [Registries -> [Signers -> Binding \cup {None}]]
    /\ call \in [Registries -> Call \cup {None}]
    /\ \A r \in Registries : call[r] # None => call[r].pos \in 1..Len(store)

\* A registry that has the store to itself decides from what a replay of the
\* store would tell it, until one of its appends raises.
LiveIsReplay ==
    \A r \in Registries :
        open[r] /\ ~raised[r] /\ call[r] = None => state[r] = Known

\* "a revoked key is not silently re-trusted": once a revocation is on file,
\* nobody who opens the store trusts the signer until a rotation, even if the
\* revocation raised and its registry went on as if nothing had happened.
RevokedStaysRevoked ==
    \A p \in DOMAIN store :
        LET s == store[p].signer IN
        store[p].action = "revoke" /\ ~RotatedAfter(p, s) => IsRevoked(Known[s])

\* "a different key for the same id raises": the key trust() returned as
\* trusted stays the signer's key, reopened or not, until a rotation.
TrustedKeyStays ==
    \A p \in promised :
        LET s == store[p].signer IN
        store[p].action = "trust" /\ Heeded(p) /\ ~RotatedAfter(p, s) =>
            Known[s] # None /\ Known[s].pubkey = store[p].pubkey

\* A pinned post-quantum key stays pinned until a caller names another or
\* drops it: no rotation of the classical key, crash or replay unpins it.
PqPinStays ==
    \A p \in promised :
        LET s == store[p].signer IN
        /\ store[p].pq # None /\ Heeded(p)
        /\ \A n \in After(p, s) : ~store[n].decided
        => PqOf(Known[s]) = store[p].pq

\* "never resurrect the possibly compromised one by default": after a revoke
\* that returned, the first rotation carries the revoked PQ key only if its
\* caller named it.
RevokedPqNeedsDecision ==
    \A p \in promised :
        LET s == store[p].signer
            pq == PqOf(Replay(SubSeq(store, 1, p))[s])
            rotations == {n \in After(p, s) : store[n].action = "rotate"}
        IN
        store[p].action = "revoke" /\ pq # None /\ rotations # {} =>
            LET first == CHOOSE n \in rotations : \A m \in rotations : n <= m IN
            store[first].pq = pq => store[first].decided
=============================================================================
