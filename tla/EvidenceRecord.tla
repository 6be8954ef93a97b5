--------------------------- MODULE EvidenceRecord ---------------------------
(***************************************************************************)
(* omega_evidence/preservation.py: a long-term evidence record over some    *)
(* evidence packs.  It is built once and renewed for years, by timestamp or *)
(* by a new hash tree, on hosts where the time-stamping authority may be    *)
(* out of reach; between renewals it lies in storage, where it or the packs *)
(* may be damaged.  No renewal verifies the record it renews.               *)
(*                                                                         *)
(* A digest is the pair of its algorithm and what it is over.               *)
(***************************************************************************)
EXTENDS Integers, Sequences, Timestamp

CONSTANTS
    PackLists,      \* what pack_paths can lead to: pack_sha3 values in order,
                    \*   None for a file that is no readable pack
    HashBytes,      \* [hash algorithm -> length of its digests]
    RecordHosts,    \* the hosts builds and renewals run on
    Junk,           \* what a damaged field holds
    MaxEntries, MaxDamage       \* bounds: archive timestamps, damages

VARIABLES
    record,         \* the record in storage, None before it is built
    issued,         \* history: the archive timestamps as they were written
    damages         \* damages so far

recordVars == <<record, issued, damages>>

Digest(alg, x)    == <<alg, x>>
Algs              == DOMAIN HashBytes
Leaves(objs, alg) == [i \in 1 .. Len(objs) |-> Digest(alg, objs[i])]

(* Binary Merkle root, an odd node paired with itself.                      *)
PairUp(level, alg) ==
    [i \in 1 .. (Len(level) + 1) \div 2 |->
        Digest(alg, <<level[2 * i - 1],
                      IF 2 * i <= Len(level) THEN level[2 * i] ELSE level[2 * i - 1]>>)]

MerkleRootOf(leaves, alg) ==
    LET up[h \in 0 .. Len(leaves)] ==
          IF h = 0 THEN leaves
          ELSE IF Len(up[h - 1]) > 1 THEN PairUp(up[h - 1], alg) ELSE up[h - 1]
    IN  IF leaves = << >> THEN Digest(alg, << >>) ELSE up[Len(leaves)][1]

(* _timestamp_root: RFC 3161 if the TSA grants it, else an asserted time.   *)
Asserted == [source |-> "asserted", token |-> None]
TimestampRoot(root, alg, host, tsa) ==
    LET st == Stamp(host, root, HashBytes[alg])
    IN  IF tsa /\ st.status = "anchored" THEN [source |-> "rfc3161", token |-> st.token]
        ELSE Asserted

\* A TSA is asked for on a host where mkdtemp raises: the call fails whole.
Raises(alg, host, tsa) == tsa /\ Stamp(host, None, HashBytes[alg]).status = "raised"

Finalize(objs, ats) == [objects |-> objs, ats |-> ats, sha3 |-> <<objs, ats>>]

-----------------------------------------------------------------------------
Entry(seq, type, alg, leaves, root, binding, time) ==
    [seq |-> seq, type |-> type, alg |-> alg, leaves |-> leaves, root |-> root,
     binding |-> binding, time |-> time]

InitialEntry(objs, alg, host, tsa) ==
    LET leaves == Leaves(objs, alg)
        root   == MerkleRootOf(leaves, alg)
    IN  Entry(0, "initial", alg, leaves, root, None, TimestampRoot(root, alg, host, tsa))

TimestampRenewal(ats, host, tsa) ==
    LET prev    == ats[Len(ats)]
        binding == Digest(prev.alg, prev)
    IN  Entry(prev.seq + 1, "timestamp-renewal", prev.alg, None, None, binding,
              TimestampRoot(binding, prev.alg, host, tsa))

HashTreeRenewal(objs, ats, alg, host, tsa) ==
    LET prev    == ats[Len(ats)]
        binding == Digest(alg, ats)
        leaves  == Append(Leaves(objs, alg), binding)
        root    == MerkleRootOf(leaves, alg)
    IN  Entry(prev.seq + 1, "hash-tree-renewal", alg, leaves, root, binding,
              TimestampRoot(root, alg, host, tsa))

-----------------------------------------------------------------------------
RecordInit ==
    /\ record = None
    /\ issued = << >>
    /\ damages = 0

\* build_evidence_record: every pack is read, an unreadable one raises.
Build(packs, alg, host, tsa) ==
    LET first == InitialEntry(packs, alg, host, tsa)
    IN  /\ record = None
        /\ \A i \in DOMAIN packs : packs[i] # None
        /\ ~Raises(alg, host, tsa)
        /\ record' = Finalize(packs, <<first>>)
        /\ issued' = <<first>>
        /\ UNCHANGED damages

\* Either renewal appends one entry to the record as it is and seals it anew.
AppendEntry(entry) ==
    /\ record' = Finalize(record.objects, Append(record.ats, entry))
    /\ issued' = Append(issued, entry)
    /\ UNCHANGED damages

RenewTimestamp(host, tsa) ==
    /\ record # None
    /\ Len(record.ats) < MaxEntries
    /\ ~Raises(record.ats[Len(record.ats)].alg, host, tsa)
    /\ AppendEntry(TimestampRenewal(record.ats, host, tsa))

\* The packs, when given, must still be the record's data objects.
RenewHashTree(alg, packs, host, tsa) ==
    /\ record # None
    /\ Len(record.ats) < MaxEntries
    /\ packs # None => packs = record.objects
    /\ ~Raises(alg, host, tsa)
    /\ AppendEntry(HashTreeRenewal(record.objects, record.ats, alg, host, tsa))

-----------------------------------------------------------------------------
(* Storage: the record is damaged.                                          *)

Damage(damaged) ==
    /\ damages < MaxDamage
    /\ damaged # record
    /\ record' = damaged
    /\ damages' = damages + 1
    /\ UNCHANGED issued

DamageObject(i) == Damage([record EXCEPT !.objects[i] = Junk])

DamageEntry(i, field) ==
    /\ record.ats[i][field] # None
    /\ Damage([record EXCEPT !.ats[i][field] = Junk])

DamageTime(i, time) == Damage([record EXCEPT !.ats[i].time = time])
DamageSeq(i)        == Damage([record EXCEPT !.ats[i].seq = @ + 7])

DamagedTimes == {Asserted, [source |-> "rfc3161", token |-> None],
                 [source |-> "rfc3161", token |-> Garbage]}

RecordNext ==
    \/ \E alg \in Algs, host \in RecordHosts, tsa \in BOOLEAN :
         \/ \E packs \in PackLists : Build(packs, alg, host, tsa)
         \/ RenewTimestamp(host, tsa)
         \/ \E packs \in PackLists \cup {None} : RenewHashTree(alg, packs, host, tsa)
    \/ /\ record # None
       /\ \/ \E i \in DOMAIN record.objects : DamageObject(i)
          \/ \E i \in DOMAIN record.ats, field \in {"leaves", "root", "binding", "type"} :
                DamageEntry(i, field)
          \/ \E i \in DOMAIN record.ats, time \in DamagedTimes : DamageTime(i, time)
          \/ \E i \in DOMAIN record.ats : DamageSeq(i)

RecordSpec == RecordInit /\ [][RecordNext]_recordVars

-----------------------------------------------------------------------------
(* verify_evidence_record.                                                  *)

InitialFits(rec) ==
    LET a == rec.ats[1]
    IN  /\ a.leaves = Leaves(rec.objects, a.alg)
        /\ a.root = MerkleRootOf(Leaves(rec.objects, a.alg), a.alg)

\* A faulty variant: the leaves of a renewed tree are not compared.
RenewalFits_RootOnly(rec, i) ==
    LET a     == rec.ats[i]
        chain == Digest(a.alg, SubSeq(rec.ats, 1, i - 1))
    IN  \/ /\ a.type = "timestamp-renewal"
           /\ a.binding = Digest(a.alg, rec.ats[i - 1])
        \/ /\ a.type = "hash-tree-renewal"
           /\ a.binding = chain
           /\ a.root = MerkleRootOf(Append(Leaves(rec.objects, a.alg), chain), a.alg)

RenewalFits(rec, i) ==
    LET a     == rec.ats[i]
        chain == Digest(a.alg, SubSeq(rec.ats, 1, i - 1))
        tree  == Append(Leaves(rec.objects, a.alg), chain)
    IN  \/ /\ a.type = "timestamp-renewal"
           /\ a.binding = Digest(a.alg, rec.ats[i - 1])
        \/ /\ a.type = "hash-tree-renewal"
           /\ a.binding = chain
           /\ a.leaves = tree
           /\ a.root = MerkleRootOf(tree, a.alg)

Covered(a) == IF a.root # None THEN a.root ELSE a.binding

\* "skip", "good", "bad" or "not_run".
TimeLayer(a, host, ca) ==
    IF a.time.source = "asserted" THEN "skip"
    ELSE IF a.time.token = None THEN "bad"
    ELSE LET v == VerifyToken(host, a.time.token, Covered(a), ca)
         IN  IF v = "unchecked" THEN "skip" ELSE v

Structure(rec) ==
    /\ rec.sha3 = <<rec.objects, rec.ats>>
    /\ InitialFits(rec)
    /\ \A i \in 2 .. Len(rec.ats) : RenewalFits(rec, i)

\* intact is Structure(rec).  CheckNotRun is raised at the first token that
\* cannot be checked here.
VerifyRecord(intact, rec, packs, host, ca) ==
    LET times == {TimeLayer(rec.ats[i], host, ca) : i \in DOMAIN rec.ats}
    IN  IF "not_run" \in times THEN "not_run"
        ELSE IF /\ intact
                /\ packs # None => packs = rec.objects
                /\ "bad" \notin times
             THEN "valid" ELSE "invalid"

-----------------------------------------------------------------------------
RecordTypeOK ==
    /\ damages \in 0 .. MaxDamage
    /\ (record = None) = (issued = << >>)
    /\ record # None =>
         /\ Len(record.ats) = Len(issued)
         /\ Len(record.ats) \in 1 .. MaxEntries

Tree(a)    == <<a.alg, a.leaves, a.root, a.binding>>
CanRun     == [openssl |-> "runs", tmp |-> TRUE, reply |-> "error"]
IsBuilt    == record # None
AsSealed   == issued[1].leaves = Leaves(record.objects, issued[1].alg)

(***************************************************************************)
(* PROPERTY RecordVerdictIsExact (preservation.py:123-187, 218-304).  A     *)
(* record is valid exactly when nothing was damaged since its last renewal, *)
(* its objects, trees and bindings are those once written, every entry is   *)
(* still as each later binding over it found it, and no claim of a trusted  *)
(* time lacks its token.  A time or a number damaged in the newest entry is *)
(* taken over by the next renewal; but with the TSA's roots no time passes  *)
(* as trusted that was not granted.  Packs, when given, must be the objects.*)
(* A host that cannot check a time withholds its verdict, or says what the  *)
(* others say (timestamp.py:36-52).                                         *)
(***************************************************************************)
TimesHold(ca) ==
    \A i \in DOMAIN record.ats :
        LET t == record.ats[i].time
        IN  t.source = "rfc3161" =>
              /\ t.token # None
              /\ ca = Genuine => t = issued[i].time

\* A renewal binds the entry before it, or with a new tree all of them; entry
\* i as renewal j found it: a digest is all it covers.
Binds(j, i) == j = i + 1 \/ issued[j].type = "hash-tree-renewal"
Found(i, j) == IF issued[j].type = "timestamp-renewal" THEN issued[j].binding[2]
                                                       ELSE issued[j].binding[2][i]

Undamaged ==
    /\ <<record.objects, record.ats>> = record.sha3
    /\ AsSealed
    /\ \A i \in DOMAIN record.ats :
         /\ Tree(record.ats[i]) = Tree(issued[i])
         /\ i > 1 => record.ats[i].type = issued[i].type
         /\ \A j \in i + 1 .. Len(issued) : Binds(j, i) => record.ats[i] = Found(i, j)

\* Two hosts that both give a verdict on a record, with the same roots, give the
\* same one, unless one of them has no openssl, which can only overlook a bad
\* token; a verdict is withheld only when there is a token to check.
RecordNotRun ==
    IsBuilt =>
      LET intact == Structure(record)
      IN  \A ca \in {None, Genuine, "missing"} :
        LET verdicts == {[host |-> h, is |-> VerifyRecord(intact, record, None, h, ca)] :
                            h \in {h \in Hosts : h.reply = "error"}}
        IN  \A x, y \in verdicts :
              /\ "absent" \notin {x.host.openssl, y.host.openssl} /\ "not_run" \notin {x.is, y.is}
                   => x.is = y.is
              /\ x.host.openssl = "absent" /\ x.is = "invalid" => y.is \in {"invalid", "not_run"}
              /\ x.is = "not_run" => \E i \in DOMAIN record.ats :
                                        record.ats[i].time.token # None

RecordVerdictIsExact ==
    /\ IsBuilt =>
         LET intact == Structure(record)
         IN  \A ca \in {None, Genuine}, packs \in PackLists \cup {None} :
               VerifyRecord(intact, record, packs, CanRun, ca) = "valid"
                 <=> /\ Undamaged
                     /\ TimesHold(ca)
                     /\ packs # None => packs = record.objects
    /\ RecordNotRun
=============================================================================
