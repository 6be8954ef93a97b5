--------------------------- MODULE Archive_proofs ---------------------------
(***************************************************************************)
(* Theorems about what is kept beside the packs: the evidence records of    *)
(* preservation.py, for any packs, hash algorithms and hosts and any number *)
(* of renewals and damages; the chip registry, for any classes, updates,    *)
(* signers, feeds and bounds; and the agents' log on top of it, for any     *)
(* threads, instances and log.                                              *)
(*                                                                         *)
(* Values are nested as deep as a record has renewals, so no set holds      *)
(* them: a list is said to be a sequence over some set.                     *)
(***************************************************************************)
EXTENDS EvidenceRecord, AgentLog, NatRecursion, FiniteSetTheorems

IsDigest(d)   == \E alg, x : d = Digest(alg, x)

\* What the names of a run stand for are different things.
RecordConstants ==
    /\ \A packs \in PackLists : IsList(packs)
    /\ IsAtom(None) /\ IsAtom(Junk)
    /\ None # Genuine /\ Genuine # "missing"
    /\ Junk \notin {"timestamp-renewal", "hash-tree-renewal"}
    /\ MaxEntries \in Nat \ {0} /\ MaxDamage \in Nat

-----------------------------------------------------------------------------
(* Atoms and digests *)

LEMMA AtomIsNoDigest ==
    ASSUME NEW v, IsAtom(v)
    PROVE  ~IsDigest(v)
<1> SUFFICES ASSUME NEW alg, NEW x, v = <<alg, x>> PROVE FALSE
  BY DEF IsDigest, Digest
<1>1. v \in Seq({alg, x})
  OBVIOUS
<1> QED BY <1>1, AtomIsNoList DEF IsList

LEMMA DigestFields ==
    ASSUME NEW a, NEW x, NEW b, NEW y
    PROVE  /\ Digest(a, x)[1] = a /\ Digest(a, x)[2] = x
           /\ Digest(a, x) = Digest(b, y) => a = b /\ x = y
BY DEF Digest

-----------------------------------------------------------------------------
(* A Merkle root is a digest *)

\* A level of the tree, not empty.
IsLevel(s) == /\ IsList(s) /\ Len(s) # 0
              /\ \A i \in 1 .. Len(s) : IsDigest(s[i])

\* The levels over `hashes`, the n-th being the last.
Above(level, alg) == IF Len(level) > 1 THEN PairUp(level, alg) ELSE level
Rises(f, hashes, alg, n) ==
    f = [h \in 0 .. n |-> IF h = 0 THEN hashes ELSE Above(f[h - 1], alg)]

LEMMA AboveLevel ==
    ASSUME NEW s, IsLevel(s), NEW alg
    PROVE  IsLevel(Above(s, alg))
<1>1. CASE Len(s) > 1
  <2> DEFINE n == (Len(s) + 1) \div 2
             t == PairUp(s, alg)
  <2>1. Len(s) \in Nat
    BY ListFacts DEF IsLevel
  <2>2. n \in Nat /\ n # 0
    BY <1>1, <2>1
  <2>3. t = [i \in 1 .. n |-> t[i]] /\ \A i \in 1 .. n : IsDigest(t[i])
    BY DEF PairUp, IsDigest
  <2> HIDE DEF t, n
  <2>4. IsLevel(t)
    BY <2>2, <2>3, ListOf DEF IsLevel
  <2> QED BY <1>1, <2>4 DEF Above, t
<1>2. CASE ~(Len(s) > 1)
  BY <1>2 DEF Above
<1> QED BY <1>1, <1>2

LEMMA LevelsRise ==
    ASSUME NEW hashes, NEW alg, NEW n \in Nat
    PROVE  \E f : Rises(f, hashes, alg, n)
<1> DEFINE Defined == {m \in 0 .. n : \E f : Rises(f, hashes, alg, m)}
<1>1. 0 \in Defined
  <2> DEFINE g == [h \in 0 .. 0 |-> hashes]
  <2>1. Rises(g, hashes, alg, 0)
    BY DEF Rises
  <2> QED BY <2>1
<1>2. ASSUME NEW k \in 0 .. (n - 1), k \in Defined PROVE k + 1 \in Defined
  <2>1. PICK f : Rises(f, hashes, alg, k)
    BY <1>2
  <2> DEFINE m == k + 1
             g == [h \in 0 .. m |-> IF h = m THEN Above(f[k], alg) ELSE f[h]]
  <2>2. m \in 0 .. n /\ m # 0 /\ m - 1 = k /\ \A h \in 0 .. m : h # m => h \in 0 .. k
    OBVIOUS
  <2>3. \A h \in 0 .. k : f[h] = IF h = 0 THEN hashes ELSE Above(f[h - 1], alg)
    BY <2>1 DEF Rises
  <2>4. \A h \in 0 .. m : g[h] = IF h = 0 THEN hashes ELSE Above(g[h - 1], alg)
    BY <2>2, <2>3
  <2>5. g = [h \in 0 .. m |-> g[h]]
    OBVIOUS
  <2> HIDE DEF g
  <2>6. Rises(g, hashes, alg, m)
    BY <2>4, <2>5 DEF Rises
  <2> QED BY <2>2, <2>6
<1>3. n \in Defined
  <2>1. 0 \in Int /\ n \in Int /\ n \in 0 .. n
    OBVIOUS
  <2> HIDE DEF Defined
  <2> QED BY <1>1, <1>2, <2>1, Upward
<1> QED BY <1>3

LEMMA RootIsDigest ==
    ASSUME NEW hashes, IsLevel(hashes), NEW alg
    PROVE  IsDigest(MerkleRootOf(hashes, alg))
<1> DEFINE n == Len(hashes)
           up == CHOOSE up : up = [h \in 0 .. n |->
                    IF h = 0 THEN hashes
                    ELSE IF Len(up[h - 1]) > 1 THEN PairUp(up[h - 1], alg) ELSE up[h - 1]]
<1>1. n \in Nat /\ n # 0 /\ hashes # << >>
  BY ListFacts DEF IsLevel
<1>2. \E f : Rises(f, hashes, alg, n)
  BY <1>1, LevelsRise
<1>3. up = [h \in 0 .. n |->
              IF h = 0 THEN hashes
              ELSE IF Len(up[h - 1]) > 1 THEN PairUp(up[h - 1], alg) ELSE up[h - 1]]
  BY <1>2 DEF Rises, Above
<1>4. MerkleRootOf(hashes, alg) = up[n][1]
  BY <1>1 DEF MerkleRootOf
<1> HIDE DEF up
<1>5. up[0] = hashes /\ \A h \in 1 .. n : up[h] = Above(up[h - 1], alg)
  BY <1>1, <1>3 DEF Above
<1> DEFINE Levels == {h \in 0 .. n : IsLevel(up[h])}
<1>6. 0 \in Levels
  BY <1>1, <1>5
<1>7. ASSUME NEW h \in 0 .. (n - 1), h \in Levels PROVE h + 1 \in Levels
  <2>1. h + 1 \in 1 .. n /\ h + 1 \in 0 .. n /\ (h + 1) - 1 = h
    BY <1>1
  <2> QED BY <1>5, <1>7, <2>1, AboveLevel
<1>8. n \in Levels
  <2>1. 0 \in Int /\ n \in Int /\ n \in 0 .. n
    BY <1>1
  <2> HIDE DEF Levels
  <2> QED BY <1>6, <1>7, <2>1, Upward
<1>9. IsDigest(up[n][1])
  <2>1. Len(up[n]) \in Nat /\ Len(up[n]) # 0
    BY <1>8, ListFacts DEF IsLevel
  <2> QED BY <1>8, <2>1 DEF IsLevel
<1> QED BY <1>4, <1>9

-----------------------------------------------------------------------------
(* Leaves *)

LEMMA LeavesFacts ==
    ASSUME NEW objs, IsList(objs), NEW alg
    PROVE  /\ IsList(Leaves(objs, alg)) /\ Len(Leaves(objs, alg)) = Len(objs)
           /\ \A i \in 1 .. Len(objs) : Leaves(objs, alg)[i] = Digest(alg, objs[i])
<1> DEFINE t == Leaves(objs, alg)
<1>1. Len(objs) \in Nat /\ t = [i \in 1 .. Len(objs) |-> Digest(alg, objs[i])]
  BY ListFacts DEF Leaves
<1>2. t = [i \in 1 .. Len(objs) |-> t[i]] /\ \A i \in 1 .. Len(objs) : t[i] = Digest(alg, objs[i])
  BY <1>1
<1> HIDE DEF t
<1>3. IsList(t) /\ Len(t) = Len(objs)
  BY <1>1, <1>2, ListOf
<1> QED BY <1>2, <1>3 DEF t

\* The root over the objects, and over the objects and a binding.
LEMMA LeavesRoot ==
    ASSUME NEW objs, IsList(objs), NEW alg
    PROVE  IsDigest(MerkleRootOf(Leaves(objs, alg), alg))
<1>1. CASE Len(objs) = 0
  <2>1. Leaves(objs, alg) = << >>
    BY <1>1 DEF Leaves
  <2> QED BY <2>1 DEF MerkleRootOf, IsDigest
<1>2. CASE Len(objs) # 0
  <2>1. IsLevel(Leaves(objs, alg))
    BY <1>2, LeavesFacts DEF IsLevel, IsDigest
  <2> QED BY <2>1, RootIsDigest
<1> QED BY <1>1, <1>2

LEMMA RenewedRoot ==
    ASSUME NEW objs, IsList(objs), NEW alg, NEW d, IsDigest(d)
    PROVE  /\ IsList(Append(Leaves(objs, alg), d))
           /\ IsDigest(MerkleRootOf(Append(Leaves(objs, alg), d), alg))
<1> DEFINE s == Leaves(objs, alg)
           t == Append(s, d)
<1>1. IsList(s) /\ Len(s) \in Nat /\ \A i \in 1 .. Len(s) : IsDigest(s[i])
  BY LeavesFacts, ListFacts DEF IsDigest
<1>2. /\ IsList(t) /\ Len(t) = Len(s) + 1
      /\ \A i \in 1 .. Len(s) : t[i] = s[i]
      /\ t[Len(s) + 1] = d
  BY <1>1, ListAppend
<1> HIDE DEF s, t
<1>3. IsLevel(t)
  BY <1>1, <1>2 DEF IsLevel
<1> QED BY <1>2, <1>3, RootIsDigest DEF s, t

\* The objects a list of hashes is over.
ObjectsOf(hashes) == [k \in DOMAIN hashes |-> hashes[k][2]]

LEMMA ObjectsOfLeaves ==
    ASSUME NEW objs, IsList(objs), NEW alg
    PROVE  ObjectsOf(Leaves(objs, alg)) = objs
<1>1. /\ DOMAIN Leaves(objs, alg) = 1 .. Len(objs)
      /\ objs = [k \in 1 .. Len(objs) |-> objs[k]]
  BY LeavesFacts, ListFacts
<1>2. \A k \in 1 .. Len(objs) : Leaves(objs, alg)[k][2] = objs[k]
  BY LeavesFacts, DigestFields
<1> QED BY <1>1, <1>2 DEF ObjectsOf

-----------------------------------------------------------------------------
(* The inductive invariant: what a record in storage still has in common    *)
(* with the entries as they were written.                                   *)

Fields == {"seq", "type", "alg", "leaves", "root", "binding", "time"}

IsInitial(e) ==
    /\ e.type = "initial" /\ e.binding = None
    /\ IsList(ObjectsOf(e.leaves)) /\ e.leaves = Leaves(ObjectsOf(e.leaves), e.alg)
    /\ e.root = MerkleRootOf(e.leaves, e.alg)

\* Objects as a renewal can have found them: those of the build, or damaged,
\* and then damaged for good.
FoundObjects(objs, first, now) ==
    LET built == ObjectsOf(first.leaves)
    IN  /\ IsList(objs) /\ Len(objs) = Len(built)
        /\ \A k \in 1 .. Len(objs) : objs[k] = built[k] \/ (objs[k] = Junk /\ now[k] = Junk)

IsTimestampRenewal(e) ==
    /\ e.type = "timestamp-renewal" /\ e.leaves = None /\ e.root = None
    /\ e.binding = Digest(e.alg, e.binding[2])

\* A hash-tree renewal of n entries.
IsTreeRenewal(e, n, first, now) ==
    /\ e.type = "hash-tree-renewal"
    /\ e.binding = Digest(e.alg, e.binding[2])
    /\ IsList(e.binding[2]) /\ Len(e.binding[2]) = n
    /\ \E objs : /\ FoundObjects(objs, first, now)
                 /\ e.leaves = Append(Leaves(objs, e.alg), e.binding)
    /\ e.root = MerkleRootOf(e.leaves, e.alg)

Timed(e) == e.time = Asserted
            \/ e.time = [source |-> "rfc3161", token |-> Token(Covered(e), Genuine)]

\* Entry e lies in storage as a.
Stored(a, e) ==
    /\ DOMAIN a = Fields /\ a.alg = e.alg
    /\ \A f \in {"leaves", "root", "binding", "type"} :
          a[f] = e[f] \/ (a[f] = Junk /\ e[f] # None)
    /\ a.time = e.time \/ a.time \in DamagedTimes

Kept(rec, given) ==
    /\ rec = [objects |-> rec.objects, ats |-> rec.ats, sha3 |-> rec.sha3]
    /\ IsList(rec.ats) /\ IsList(given)
    /\ Len(rec.ats) = Len(given) /\ Len(given) \in 1 .. MaxEntries
    /\ IsInitial(given[1])
    /\ FoundObjects(rec.objects, given[1], rec.objects)
    /\ \A i \in 2 .. Len(given) :
          \/ IsTimestampRenewal(given[i])
          \/ IsTreeRenewal(given[i], i - 1, given[1], rec.objects)
    /\ \A i \in 1 .. Len(given) : Timed(given[i]) /\ Stored(rec.ats[i], given[i])

RecordIInv ==
    /\ damages \in 0 .. MaxDamage
    /\ record = None => issued = << >>
    /\ record # None => Kept(record, issued)

LEMMA EntryFacts ==
    ASSUME NEW seq, NEW type, NEW alg, NEW hashes, NEW root, NEW binding, NEW time
    PROVE  LET e == Entry(seq, type, alg, hashes, root, binding, time) IN
           /\ DOMAIN e = Fields
           /\ e.type = type /\ e.alg = alg /\ e.leaves = hashes /\ e.root = root
           /\ e.binding = binding /\ e.time = time
BY DEF Entry, Fields

LEMMA FreshIsStored ==
    ASSUME NEW e, DOMAIN e = Fields
    PROVE  Stored(e, e)
BY DEF Stored

LEMMA StampedTime ==
    ASSUME NEW digest, NEW alg, NEW host, NEW tsa
    PROVE  \/ TimestampRoot(digest, alg, host, tsa) = Asserted
           \/ TimestampRoot(digest, alg, host, tsa)
                = [source |-> "rfc3161", token |-> Token(digest, Genuine)]
BY DEF TimestampRoot, Stamp

\* A record is no atom: it was built.
LEMMA KeptIsBuilt ==
    ASSUME RecordConstants, NEW rec, NEW given, Kept(rec, given)
    PROVE  rec # None
<1>1. rec = [objects |-> rec.objects, ats |-> rec.ats, sha3 |-> rec.sha3]
  BY DEF Kept
<1>2. rec = [x \in DOMAIN rec |-> rec[x]]
  BY <1>1
<1> QED BY <1>2 DEF RecordConstants, IsAtom

-----------------------------------------------------------------------------
(* Build and the renewals *)

LEMMA BuildKept ==
    ASSUME RecordConstants, NEW packs \in PackLists, NEW alg, NEW host, NEW tsa,
           Build(packs, alg, host, tsa)
    PROVE  Kept(record, issued)'
<1> DEFINE first == InitialEntry(packs, alg, host, tsa)
           root == MerkleRootOf(Leaves(packs, alg), alg)
<1>1. record' = Finalize(packs, <<first>>) /\ issued' = <<first>> /\ IsList(packs)
  BY DEF Build, RecordConstants
<1>2. /\ DOMAIN first = Fields /\ first.type = "initial" /\ first.alg = alg
      /\ first.leaves = Leaves(packs, alg) /\ first.root = root /\ first.binding = None
      /\ first.time = TimestampRoot(root, alg, host, tsa)
  BY EntryFacts DEF InitialEntry
<1> HIDE DEF first
<1>3. ObjectsOf(first.leaves) = packs
  BY <1>1, <1>2, ObjectsOfLeaves
<1>4. IsInitial(first)
  BY <1>1, <1>2, <1>3 DEF IsInitial
<1>5. FoundObjects(packs, first, packs)
  BY <1>1, <1>3 DEF FoundObjects
<1>6. Timed(first)
  <2>1. root # None
    BY <1>1, LeavesRoot, AtomIsNoDigest DEF RecordConstants
  <2>2. Covered(first) = root
    BY <1>2, <2>1 DEF Covered
  <2> QED BY <1>2, <2>2, StampedTime DEF Timed
<1>7. Stored(first, first)
  BY <1>2, FreshIsStored
<1>8. /\ IsList(<<first>>) /\ Len(<<first>>) = 1 /\ <<first>>[1] = first
  <2>1. <<first>> \in Seq({first})
    OBVIOUS
  <2> QED BY <2>1 DEF IsList
<1>9. /\ record'.objects = packs /\ record'.ats = <<first>>
      /\ record' = [objects |-> record'.objects, ats |-> record'.ats, sha3 |-> record'.sha3]
  BY <1>1 DEF Finalize
<1>10. 1 \in 1 .. MaxEntries
  BY DEF RecordConstants
<1> DEFINE given == <<first>>
<1> HIDE DEF given
<1>11. IsList(given) /\ Len(given) = 1 /\ given[1] = first
  BY <1>8 DEF given
<1>12. issued' = given /\ record'.ats = given
  BY <1>1, <1>9 DEF given
<1>13. 2 .. 1 = {} /\ 1 .. 1 = {1}
  OBVIOUS
<1> QED BY <1>4, <1>5, <1>6, <1>7, <1>9, <1>10, <1>11, <1>12, <1>13 DEF Kept

LEMMA AppendKept ==
    ASSUME Kept(record, issued), NEW e, AppendEntry(e), Len(record.ats) < MaxEntries,
           MaxEntries \in Nat, DOMAIN e = Fields, Timed(e),
           \/ IsTimestampRenewal(e)
           \/ IsTreeRenewal(e, Len(record.ats), issued[1], record.objects)
    PROVE  Kept(record, issued)'
<1> DEFINE n == Len(issued)
           ats == Append(record.ats, e)
           given == Append(issued, e)
<1>1. record' = Finalize(record.objects, ats) /\ issued' = given
  BY DEF AppendEntry
<1>2. /\ IsList(record.ats) /\ IsList(issued) /\ n \in Nat /\ n # 0 /\ Len(record.ats) = n
  BY ListFacts DEF Kept
<1>3. /\ IsList(ats) /\ Len(ats) = n + 1 /\ ats[n + 1] = e
      /\ \A i \in 1 .. n : ats[i] = record.ats[i]
  BY <1>2, ListAppend
<1>4. /\ IsList(given) /\ Len(given) = n + 1 /\ given[n + 1] = e
      /\ \A i \in 1 .. n : given[i] = issued[i]
  BY <1>2, ListAppend
<1>5. /\ record'.objects = record.objects /\ record'.ats = ats
      /\ record' = [objects |-> record'.objects, ats |-> record'.ats, sha3 |-> record'.sha3]
  BY <1>1 DEF Finalize
<1> HIDE DEF ats, given
<1>6. given[1] = issued[1] /\ n + 1 \in 1 .. MaxEntries
  BY <1>2, <1>4
<1>7. ASSUME NEW i \in 2 .. n + 1
      PROVE  \/ IsTimestampRenewal(given[i])
             \/ IsTreeRenewal(given[i], i - 1, issued[1], record.objects)
  <2>1. CASE i = n + 1
    <3>1. (n + 1) - 1 = n
      BY <1>2
    <3> QED BY <1>2, <1>4, <2>1, <3>1
  <2>2. CASE i # n + 1
    <3>1. i \in 2 .. n /\ i \in 1 .. n
      BY <1>2, <2>2
    <3> QED BY <1>4, <3>1 DEF Kept
  <2> QED BY <2>1, <2>2
<1>8. ASSUME NEW i \in 1 .. n + 1 PROVE Timed(given[i]) /\ Stored(ats[i], given[i])
  <2>1. CASE i = n + 1
    BY <1>3, <1>4, <2>1, FreshIsStored
  <2>2. CASE i # n + 1
    <3>1. i \in 1 .. n
      BY <1>2, <2>2
    <3> QED BY <1>3, <1>4, <3>1 DEF Kept
  <2> QED BY <2>1, <2>2
<1> HIDE DEF n
<1> QED BY <1>1, <1>3, <1>4, <1>5, <1>6, <1>7, <1>8 DEF Kept

LEMMA RenewTimestampKept ==
    ASSUME RecordConstants, Kept(record, issued), NEW host, NEW tsa, RenewTimestamp(host, tsa)
    PROVE  Kept(record, issued)'
<1> DEFINE e == TimestampRenewal(record.ats, host, tsa)
           prev == record.ats[Len(record.ats)]
           binding == Digest(prev.alg, prev)
<1>1. AppendEntry(e) /\ Len(record.ats) < MaxEntries /\ MaxEntries \in Nat
  BY DEF RenewTimestamp, RecordConstants
<1>2. /\ DOMAIN e = Fields /\ e.type = "timestamp-renewal" /\ e.alg = prev.alg
      /\ e.leaves = None /\ e.root = None /\ e.binding = binding
      /\ e.time = TimestampRoot(binding, prev.alg, host, tsa)
  BY EntryFacts DEF TimestampRenewal
<1> HIDE DEF e
<1>3. IsTimestampRenewal(e)
  BY <1>2, DigestFields DEF IsTimestampRenewal
<1>4. Timed(e)
  <2>1. Covered(e) = binding
    BY <1>2 DEF Covered
  <2> QED BY <1>2, <2>1, StampedTime DEF Timed
<1> QED BY <1>1, <1>2, <1>3, <1>4, AppendKept

LEMMA RenewHashTreeKept ==
    ASSUME RecordConstants, Kept(record, issued), NEW alg, NEW packs, NEW host, NEW tsa,
           RenewHashTree(alg, packs, host, tsa)
    PROVE  Kept(record, issued)'
<1> DEFINE e == HashTreeRenewal(record.objects, record.ats, alg, host, tsa)
           binding == Digest(alg, record.ats)
           hashes == Append(Leaves(record.objects, alg), binding)
           root == MerkleRootOf(hashes, alg)
<1>1. AppendEntry(e) /\ Len(record.ats) < MaxEntries /\ MaxEntries \in Nat
  BY DEF RenewHashTree, RecordConstants
<1>2. /\ DOMAIN e = Fields /\ e.type = "hash-tree-renewal" /\ e.alg = alg
      /\ e.leaves = hashes /\ e.root = root /\ e.binding = binding
      /\ e.time = TimestampRoot(root, alg, host, tsa)
  <2>1. e = Entry(record.ats[Len(record.ats)].seq + 1, "hash-tree-renewal", alg, hashes, root,
                  binding, TimestampRoot(root, alg, host, tsa))
    BY DEF HashTreeRenewal
  <2> HIDE DEF e, root, hashes, binding
  <2> QED BY <2>1, EntryFacts
<1>3. FoundObjects(record.objects, issued[1], record.objects) /\ IsList(record.ats)
  BY DEF Kept
<1>4. IsDigest(root)
  <2>1. IsList(record.objects)
    BY <1>3 DEF FoundObjects
  <2>2. IsDigest(binding)
    BY DEF IsDigest
  <2> HIDE DEF binding, e
  <2> QED BY <2>1, <2>2, RenewedRoot
<1> HIDE DEF e
<1>5. IsTreeRenewal(e, Len(record.ats), issued[1], record.objects)
  <2>1. e.binding = Digest(e.alg, e.binding[2]) /\ e.binding[2] = record.ats
    BY <1>2, DigestFields
  <2>2. e.leaves = Append(Leaves(record.objects, e.alg), e.binding)
    BY <1>2
  <2> QED BY <1>2, <1>3, <2>1, <2>2 DEF IsTreeRenewal
<1>6. Timed(e)
  <2>1. root # None
    BY <1>4, AtomIsNoDigest DEF RecordConstants
  <2>2. Covered(e) = root
    BY <1>2, <2>1 DEF Covered
  <2> QED BY <1>2, <2>2, StampedTime DEF Timed
<1> QED BY <1>1, <1>2, <1>5, <1>6, AppendKept

-----------------------------------------------------------------------------
(* Damage *)

LEMMA DamageObjectKept ==
    ASSUME Kept(record, issued), NEW i \in DOMAIN record.objects, DamageObject(i)
    PROVE  Kept(record, issued)'
<1> DEFINE objs == [record.objects EXCEPT ![i] = Junk]
<1>1. /\ record = [objects |-> record.objects, ats |-> record.ats, sha3 |-> record.sha3]
      /\ FoundObjects(record.objects, issued[1], record.objects)
  BY DEF Kept
<1>2. record' = [record EXCEPT !.objects[i] = Junk] /\ issued' = issued
  BY DEF DamageObject, Damage
<1>3. /\ record'.objects = objs /\ record'.ats = record.ats
      /\ record' = [objects |-> record'.objects, ats |-> record'.ats, sha3 |-> record'.sha3]
  BY <1>1, <1>2
<1>4. /\ IsList(objs) /\ Len(objs) = Len(record.objects) /\ objs[i] = Junk
      /\ \A j \in DOMAIN record.objects : j # i => objs[j] = record.objects[j]
  BY <1>1, ListExcept DEF FoundObjects
<1>5. DOMAIN record.objects = 1 .. Len(record.objects)
  BY <1>1, ListFacts DEF FoundObjects
<1> HIDE DEF objs
<1>6. \A x : FoundObjects(x, issued[1], record.objects) => FoundObjects(x, issued[1], objs)
  BY <1>1, <1>4, <1>5 DEF FoundObjects
<1>7. FoundObjects(objs, issued[1], objs)
  BY <1>1, <1>4, <1>5 DEF FoundObjects
<1>8. \A k \in 2 .. Len(issued) :
         \/ IsTimestampRenewal(issued[k])
         \/ IsTreeRenewal(issued[k], k - 1, issued[1], objs)
  BY <1>6 DEF Kept, IsTreeRenewal
<1> QED BY <1>2, <1>3, <1>7, <1>8 DEF Kept

LEMMA EntryDamagedKept ==
    ASSUME Kept(record, issued), NEW i \in DOMAIN record.ats, NEW b,
           record' = [record EXCEPT !.ats = [record.ats EXCEPT ![i] = b]],
           issued' = issued, Stored(b, issued[i])
    PROVE  Kept(record, issued)'
<1> DEFINE ats == [record.ats EXCEPT ![i] = b]
<1>1. /\ record = [objects |-> record.objects, ats |-> record.ats, sha3 |-> record.sha3]
      /\ IsList(record.ats) /\ Len(record.ats) = Len(issued)
  BY DEF Kept
<1>2. /\ record'.objects = record.objects /\ record'.ats = ats
      /\ record' = [objects |-> record'.objects, ats |-> record'.ats, sha3 |-> record'.sha3]
  BY <1>1
<1>3. /\ IsList(ats) /\ Len(ats) = Len(issued) /\ ats[i] = b
      /\ \A j \in DOMAIN record.ats : j # i => ats[j] = record.ats[j]
  BY <1>1, ListExcept
<1>4. DOMAIN record.ats = 1 .. Len(issued)
  BY <1>1, ListFacts
<1> HIDE DEF ats
<1>5. \A j \in 1 .. Len(issued) : Timed(issued[j]) /\ Stored(ats[j], issued[j])
  BY <1>3, <1>4 DEF Kept
<1> QED BY <1>2, <1>3, <1>5 DEF Kept

LEMMA DamageKept ==
    ASSUME Kept(record, issued), NEW i \in DOMAIN record.ats,
           \/ \E field \in {"leaves", "root", "binding", "type"} : DamageEntry(i, field)
           \/ \E time \in DamagedTimes : DamageTime(i, time)
           \/ DamageSeq(i)
    PROVE  Kept(record, issued)'
<1> DEFINE a == record.ats[i]
<1>1. /\ record = [objects |-> record.objects, ats |-> record.ats, sha3 |-> record.sha3]
      /\ i \in 1 .. Len(issued) /\ Stored(a, issued[i])
  BY ListFacts DEF Kept
<1>2. DOMAIN a = Fields
  BY <1>1 DEF Stored
<1> HIDE DEF a
<1>3. ASSUME NEW field \in {"leaves", "root", "binding", "type"}, DamageEntry(i, field)
      PROVE  Kept(record, issued)'
  <2> DEFINE b == [a EXCEPT ![field] = Junk]
  <2>1. /\ record' = [record EXCEPT !.ats = [record.ats EXCEPT ![i] = b]]
        /\ issued' = issued /\ a[field] # None
    BY <1>1, <1>3 DEF DamageEntry, Damage, a
  <2>2. /\ DOMAIN b = Fields /\ b[field] = Junk /\ b.alg = a.alg /\ b.time = a.time
        /\ \A f \in Fields : f # field => b[f] = a[f]
    BY <1>2 DEF Fields
  <2> HIDE DEF b
  <2>3. issued[i][field] # None
    BY <1>1, <2>1 DEF Stored
  <2>4. Stored(b, issued[i])
    BY <1>1, <2>2, <2>3 DEF Stored, Fields
  <2> QED BY <2>1, <2>4, EntryDamagedKept
<1>4. ASSUME NEW time \in DamagedTimes, DamageTime(i, time) PROVE Kept(record, issued)'
  <2> DEFINE b == [a EXCEPT !.time = time]
  <2>1. /\ record' = [record EXCEPT !.ats = [record.ats EXCEPT ![i] = b]]
        /\ issued' = issued
    BY <1>1, <1>4 DEF DamageTime, Damage, a
  <2>2. /\ DOMAIN b = Fields /\ b.time = time /\ b.alg = a.alg
        /\ \A f \in Fields : f # "time" => b[f] = a[f]
    BY <1>2 DEF Fields
  <2> HIDE DEF b
  <2>3. Stored(b, issued[i])
    BY <1>1, <2>2 DEF Stored, Fields
  <2> QED BY <2>1, <2>3, EntryDamagedKept
<1>5. ASSUME DamageSeq(i) PROVE Kept(record, issued)'
  <2> DEFINE b == [a EXCEPT !.seq = @ + 7]
  <2>1. /\ record' = [record EXCEPT !.ats = [record.ats EXCEPT ![i] = b]]
        /\ issued' = issued
    BY <1>1, <1>5 DEF DamageSeq, Damage, a
  <2>2. /\ DOMAIN b = Fields /\ b.alg = a.alg /\ b.time = a.time
        /\ \A f \in Fields : f # "seq" => b[f] = a[f]
    BY <1>2 DEF Fields
  <2> HIDE DEF b
  <2>3. Stored(b, issued[i])
    BY <1>1, <2>2 DEF Stored, Fields
  <2> QED BY <2>1, <2>3, EntryDamagedKept
<1> QED BY <1>3, <1>4, <1>5

LEMMA RecordInitIInv == RecordConstants /\ RecordInit => RecordIInv
BY DEF RecordConstants, RecordInit, RecordIInv

LEMMA RecordNextIInv ==
    ASSUME RecordConstants, RecordIInv, [RecordNext]_recordVars
    PROVE  RecordIInv'
<1> USE DEF RecordIInv
<1>1. ASSUME NEW packs \in PackLists, NEW alg, NEW host, NEW tsa, Build(packs, alg, host, tsa)
      PROVE  RecordIInv'
  <2>1. Kept(record, issued)' /\ damages' = damages
    BY <1>1, BuildKept DEF Build
  <2>2. record' # None
    BY <2>1, KeptIsBuilt
  <2> QED BY <2>1, <2>2
<1>2. ASSUME record # None, Kept(record, issued)', damages' \in 0 .. MaxDamage PROVE RecordIInv'
  <2>1. record' # None
    BY <1>2, KeptIsBuilt
  <2> QED BY <1>2, <2>1
<1>3. ASSUME NEW host, NEW tsa, RenewTimestamp(host, tsa) PROVE RecordIInv'
  BY <1>2, <1>3, RenewTimestampKept DEF RenewTimestamp, AppendEntry
<1>4. ASSUME NEW alg, NEW packs, NEW host, NEW tsa, RenewHashTree(alg, packs, host, tsa)
      PROVE  RecordIInv'
  BY <1>2, <1>4, RenewHashTreeKept DEF RenewHashTree, AppendEntry
<1>5. ASSUME NEW damaged, Damage(damaged) PROVE damages' \in 0 .. MaxDamage
  BY <1>5 DEF Damage, RecordConstants
<1>6. ASSUME record # None, NEW i \in DOMAIN record.objects, DamageObject(i) PROVE RecordIInv'
  BY <1>2, <1>5, <1>6, DamageObjectKept DEF DamageObject
<1>7. ASSUME record # None, NEW i \in DOMAIN record.ats,
             \/ \E field \in {"leaves", "root", "binding", "type"} : DamageEntry(i, field)
             \/ \E time \in DamagedTimes : DamageTime(i, time)
             \/ DamageSeq(i)
      PROVE  RecordIInv'
  <2>1. damages' \in 0 .. MaxDamage
    BY <1>5, <1>7 DEF DamageEntry, DamageTime, DamageSeq
  <2> QED BY <1>2, <1>7, <2>1, DamageKept
<1>8. CASE UNCHANGED recordVars
  BY <1>8 DEF recordVars
<1> QED BY <1>1, <1>3, <1>4, <1>6, <1>7, <1>8 DEF RecordNext

(***************************************************************************)
(* THEOREM RecordInvariant (preservation.py:80-187). Through every build,   *)
(* renewal and damage an entry in storage is what was written or holds what *)
(* damage puts there, and the objects that a renewal found are those of the *)
(* build or were damaged for good.                                          *)
(***************************************************************************)
THEOREM RecordInvariant ==
    ASSUME RecordConstants
    PROVE  RecordSpec => []RecordIInv
<1>1. RecordInit => RecordIInv
  BY RecordInitIInv
<1>2. RecordIInv /\ [RecordNext]_recordVars => RecordIInv'
  BY RecordNextIInv
<1> QED BY <1>1, <1>2, PTL DEF RecordSpec

(***************************************************************************)
(* THEOREM RecordTyped (preservation.py:143-187). Counters and lengths     *)
(* stay within their bounds, and a damaged record has as many entries as    *)
(* were written.                                                            *)
(***************************************************************************)
THEOREM RecordTyped ==
    ASSUME RecordConstants
    PROVE  RecordSpec => []RecordTypeOK
<1>1. RecordIInv => RecordTypeOK
  <2> SUFFICES ASSUME RecordIInv PROVE RecordTypeOK
    OBVIOUS
  <2>1. CASE record = None
    BY <2>1 DEF RecordIInv, RecordTypeOK
  <2>2. CASE record # None
    <3>1. /\ Len(issued) \in 1 .. MaxEntries /\ Len(record.ats) = Len(issued)
          /\ damages \in 0 .. MaxDamage
      BY <2>2 DEF RecordIInv, Kept
    <3>2. issued # << >>
      BY <3>1
    <3> QED BY <2>2, <3>1, <3>2 DEF RecordTypeOK
  <2> QED BY <2>1, <2>2
<1> QED BY <1>1, RecordInvariant, PTL

-----------------------------------------------------------------------------
(* What the checks of the structure establish.                              *)

\* A field that the verifier compared with a computed value is not damaged.
LEMMA ComparedIsIssued ==
    ASSUME RecordConstants, NEW a, NEW e, Stored(a, e)
    PROVE  /\ IsList(a.leaves) \/ e.leaves = None => a.leaves = e.leaves
           /\ IsDigest(a.root) \/ e.root = None => a.root = e.root
           /\ IsDigest(a.binding) \/ e.binding = None => a.binding = e.binding
           /\ a.type \in {"timestamp-renewal", "hash-tree-renewal"} => a.type = e.type
<1>1. ~IsList(Junk) /\ ~IsDigest(Junk) /\ Junk \notin {"timestamp-renewal", "hash-tree-renewal"}
  BY AtomIsNoList, AtomIsNoDigest DEF RecordConstants
<1> QED BY <1>1 DEF Stored

\* The facts of Kept that the verdict rests on.
LEMMA KeptFacts ==
    ASSUME Kept(record, issued)
    PROVE  /\ IsList(record.ats) /\ DOMAIN record.ats = 1 .. Len(record.ats)
           /\ Len(record.ats) = Len(issued) /\ Len(issued) \in Nat /\ 1 \in 1 .. Len(issued)
           /\ IsList(record.objects) /\ IsInitial(issued[1])
           /\ \A i \in 1 .. Len(issued) : Timed(issued[i]) /\ Stored(record.ats[i], issued[i])
<1>1. IsList(record.ats) /\ Len(record.ats) = Len(issued) /\ Len(issued) \in 1 .. MaxEntries
  BY DEF Kept
<1>2. DOMAIN record.ats = 1 .. Len(record.ats) /\ Len(record.ats) \in Nat
  BY <1>1, ListFacts
<1>3. Len(issued) \in Nat /\ 1 \in 1 .. Len(issued)
  BY <1>1, <1>2
<1> QED BY <1>1, <1>2, <1>3 DEF Kept, FoundObjects

LEMMA ChainIs ==
    ASSUME Kept(record, issued), NEW i \in 2 .. Len(issued)
    PROVE  LET chain == SubSeq(record.ats, 1, i - 1) IN
           /\ IsList(chain) /\ Len(chain) = i - 1 /\ i - 1 \in 1 .. Len(issued)
           /\ \A k \in 1 .. i - 1 : chain[k] = record.ats[k]
<1>1. IsList(record.ats) /\ Len(record.ats) = Len(issued) /\ Len(issued) \in Nat
  BY KeptFacts
<1>2. i - 1 \in 0 .. Len(record.ats) /\ i - 1 \in 1 .. Len(issued)
  BY <1>1
<1> QED BY <1>1, <1>2, ListPrefix

LEMMA FitsInitial ==
    ASSUME RecordConstants, Kept(record, issued), InitialFits(record)
    PROVE  AsSealed /\ Tree(record.ats[1]) = Tree(issued[1])
<1> DEFINE a == record.ats[1]
           e == issued[1]
<1>1. Stored(a, e) /\ IsInitial(e) /\ IsList(record.objects)
  BY KeptFacts
<1>2. /\ a.leaves = Leaves(record.objects, a.alg)
      /\ a.root = MerkleRootOf(Leaves(record.objects, a.alg), a.alg)
  BY DEF InitialFits
<1> HIDE DEF a, e
<1>3. IsList(a.leaves) /\ IsDigest(a.root) /\ e.binding = None /\ a.alg = e.alg
  BY <1>1, <1>2, LeavesFacts, LeavesRoot DEF IsInitial, Stored
<1>4. a.leaves = e.leaves /\ a.root = e.root /\ a.binding = e.binding
  BY <1>1, <1>3, ComparedIsIssued
<1>5. e.leaves = Leaves(record.objects, e.alg)
  BY <1>2, <1>3, <1>4
<1> QED BY <1>3, <1>4, <1>5 DEF AsSealed, Tree, a, e

LEMMA FitsRenewal ==
    ASSUME RecordConstants, Kept(record, issued), NEW i \in 2 .. Len(issued), RenewalFits(record, i)
    PROVE  /\ Tree(record.ats[i]) = Tree(issued[i]) /\ record.ats[i].type = issued[i].type
           /\ \A k \in 1 .. i - 1 : Binds(i, k) => record.ats[k] = Found(k, i)
<1> DEFINE a == record.ats[i]
           e == issued[i]
           chain == SubSeq(record.ats, 1, i - 1)
           tree == Append(Leaves(record.objects, a.alg), Digest(a.alg, chain))
<1>1. /\ Stored(a, e) /\ IsList(record.objects) /\ i \in 1 .. Len(issued) /\ i \in Int
  <2>1. Len(issued) \in Nat
    BY KeptFacts
  <2>2. i \in 1 .. Len(issued) /\ i \in Int
    BY <2>1
  <2> QED BY <2>2, KeptFacts
<1>2. /\ \A k \in 1 .. i - 1 : chain[k] = record.ats[k]
  BY ChainIs
<1>3. IsTimestampRenewal(e) \/ \E n, f, o : IsTreeRenewal(e, n, f, o)
  BY DEF Kept
<1>4. CASE a.type = "timestamp-renewal"
  <2>1. a.binding = Digest(a.alg, record.ats[i - 1])
    BY <1>4 DEF RenewalFits
  <2> HIDE DEF a, e, chain, tree
  <2>2. a.type = e.type /\ IsDigest(a.binding)
    BY <1>1, <1>4, <2>1, ComparedIsIssued DEF IsDigest
  <2>3. IsTimestampRenewal(e)
    BY <1>3, <1>4, <2>2 DEF IsTreeRenewal
  <2>4. e.leaves = None /\ e.root = None /\ e.type = "timestamp-renewal"
    BY <2>3 DEF IsTimestampRenewal
  <2>5. /\ a.leaves = e.leaves /\ a.root = e.root /\ a.binding = e.binding /\ a.alg = e.alg
    BY <1>1, <2>2, <2>4, ComparedIsIssued DEF Stored
  <2>6. e.binding[2] = record.ats[i - 1]
    <3>1. e.binding = Digest(a.alg, record.ats[i - 1])
      BY <2>1, <2>5
    <3>2. Digest(a.alg, record.ats[i - 1])[2] = record.ats[i - 1]
      BY DigestFields
    <3> QED BY <3>1, <3>2
  <2>7. ASSUME NEW k \in 1 .. i - 1, Binds(i, k) PROVE record.ats[k] = Found(k, i)
    <3>1. k = i - 1
      BY <1>1, <2>4, <2>7 DEF Binds, e
    <3> QED BY <2>4, <2>6, <3>1 DEF Found, e
  <2> QED BY <2>2, <2>5, <2>7 DEF Tree, a, e
<1>5. CASE a.type = "hash-tree-renewal"
  <2>1. /\ a.binding = Digest(a.alg, chain) /\ a.leaves = tree
        /\ a.root = MerkleRootOf(tree, a.alg)
    BY <1>5 DEF RenewalFits
  <2>2. IsList(tree) /\ IsDigest(MerkleRootOf(tree, a.alg))
    BY <1>1, RenewedRoot DEF IsDigest
  <2> HIDE DEF a, e, chain, tree
  <2>3. a.type = e.type /\ IsDigest(a.binding) /\ IsList(a.leaves) /\ IsDigest(a.root)
    BY <1>1, <1>5, <2>1, <2>2, ComparedIsIssued DEF IsDigest
  <2>4. /\ a.leaves = e.leaves /\ a.root = e.root /\ a.binding = e.binding /\ a.alg = e.alg
    BY <1>1, <2>3, ComparedIsIssued DEF Stored
  <2>5. e.binding[2] = chain /\ e.type = "hash-tree-renewal"
    <3>1. e.binding = Digest(a.alg, chain)
      BY <2>1, <2>4
    <3>2. Digest(a.alg, chain)[2] = chain
      BY DigestFields
    <3> QED BY <1>5, <2>3, <3>1, <3>2
  <2>6. ASSUME NEW k \in 1 .. i - 1 PROVE record.ats[k] = Found(k, i)
    BY <1>2, <2>5 DEF Found, e
  <2> QED BY <2>3, <2>4, <2>6 DEF Tree, a, e
<1> QED BY <1>4, <1>5 DEF RenewalFits

LEMMA StructureMeans ==
    ASSUME RecordConstants, Kept(record, issued), Structure(record)
    PROVE  Undamaged
<1>1. Len(record.ats) = Len(issued) /\ Len(issued) \in Nat /\ DOMAIN record.ats = 1 .. Len(issued)
  BY KeptFacts
<1>2. AsSealed /\ Tree(record.ats[1]) = Tree(issued[1])
  BY FitsInitial DEF Structure
<1>3. \A i \in 2 .. Len(issued) : RenewalFits(record, i)
  BY <1>1 DEF Structure
<1>4. ASSUME NEW i \in 1 .. Len(issued)
      PROVE  /\ Tree(record.ats[i]) = Tree(issued[i])
             /\ i > 1 => record.ats[i].type = issued[i].type
             /\ \A j \in i + 1 .. Len(issued) : Binds(j, i) => record.ats[i] = Found(i, j)
  <2>1. i = 1 \/ i \in 2 .. Len(issued)
    BY <1>1
  <2>2. Tree(record.ats[i]) = Tree(issued[i]) /\ (i > 1 => record.ats[i].type = issued[i].type)
    BY <1>2, <1>3, <2>1, FitsRenewal
  <2>3. ASSUME NEW j \in i + 1 .. Len(issued), Binds(j, i) PROVE record.ats[i] = Found(i, j)
    <3>1. j \in 2 .. Len(issued) /\ i \in 1 .. j - 1
      BY <1>1
    <3> QED BY <1>3, <2>3, <3>1, FitsRenewal
  <2> QED BY <2>2, <2>3
<1>5. <<record.objects, record.ats>> = record.sha3
  BY DEF Structure
<1> QED BY <1>1, <1>2, <1>4, <1>5 DEF Undamaged

-----------------------------------------------------------------------------
(* What is undamaged passes the checks of the structure.                    *)

\* The objects that a renewal found are those of the record still.
LEMMA ObjectsStay ==
    ASSUME Kept(record, issued), AsSealed,
           NEW objs, FoundObjects(objs, issued[1], record.objects)
    PROVE  objs = record.objects
<1>1. IsList(record.objects) /\ IsList(objs)
  BY KeptFacts DEF FoundObjects
<1>2. ObjectsOf(issued[1].leaves) = record.objects
  BY <1>1, ObjectsOfLeaves DEF AsSealed
<1> QED BY <1>1, <1>2, ListEqual DEF FoundObjects

LEMMA UndamagedInitial ==
    ASSUME RecordConstants, Kept(record, issued), Undamaged
    PROVE  InitialFits(record)
<1> DEFINE a == record.ats[1]
           e == issued[1]
<1>1. IsInitial(e) /\ 1 \in DOMAIN record.ats
  BY KeptFacts
<1>2. a.alg = e.alg /\ a.leaves = e.leaves /\ a.root = e.root
  BY <1>1 DEF Undamaged, Tree
<1>3. e.leaves = Leaves(record.objects, e.alg) /\ e.root = MerkleRootOf(e.leaves, e.alg)
  BY <1>1 DEF Undamaged, AsSealed, IsInitial
<1> QED BY <1>2, <1>3 DEF InitialFits

LEMMA UndamagedRenewal ==
    ASSUME RecordConstants, Kept(record, issued), Undamaged, NEW i \in 2 .. Len(issued)
    PROVE  RenewalFits(record, i)
<1> DEFINE a == record.ats[i]
           e == issued[i]
           chain == SubSeq(record.ats, 1, i - 1)
<1>1. /\ Len(issued) \in Nat /\ DOMAIN record.ats = 1 .. Len(issued) /\ i \in DOMAIN record.ats
      /\ i \in Int /\ i > 1
  <2>1. Len(issued) \in Nat /\ DOMAIN record.ats = 1 .. Len(issued)
    BY KeptFacts
  <2> QED BY <2>1
<1>2. /\ a.alg = e.alg /\ a.leaves = e.leaves /\ a.root = e.root /\ a.binding = e.binding
      /\ a.type = e.type
  BY <1>1 DEF Undamaged, Tree
<1>3. ASSUME NEW k \in 1 .. i - 1, Binds(i, k) PROVE record.ats[k] = Found(k, i)
  <2>1. k \in DOMAIN record.ats /\ i \in k + 1 .. Len(issued)
    BY <1>1
  <2> QED BY <1>3, <2>1 DEF Undamaged
<1>4. CASE IsTimestampRenewal(e)
  <2>1. i - 1 \in 1 .. i - 1 /\ Binds(i, i - 1)
    BY <1>1 DEF Binds
  <2>2. record.ats[i - 1] = e.binding[2]
    BY <1>3, <1>4, <2>1 DEF Found, IsTimestampRenewal
  <2>3. e.binding = Digest(e.alg, e.binding[2]) /\ e.type = "timestamp-renewal"
    BY <1>4 DEF IsTimestampRenewal
  <2> QED BY <1>2, <2>2, <2>3 DEF RenewalFits
<1>5. CASE IsTreeRenewal(e, i - 1, issued[1], record.objects)
  <2>1. /\ e.type = "hash-tree-renewal" /\ e.binding = Digest(e.alg, e.binding[2])
        /\ IsList(e.binding[2]) /\ Len(e.binding[2]) = i - 1
        /\ e.root = MerkleRootOf(e.leaves, e.alg)
    BY <1>5 DEF IsTreeRenewal
  <2>2. \A k \in 1 .. i - 1 : e.binding[2][k] = record.ats[k]
    BY <1>3, <2>1 DEF Binds, Found
  <2>3. IsList(chain) /\ Len(chain) = i - 1 /\ \A k \in 1 .. i - 1 : chain[k] = record.ats[k]
    BY ChainIs
  <2> HIDE DEF chain
  <2>4. e.binding[2] = chain
    BY <2>1, <2>2, <2>3, ListEqual
  <2>5. PICK objs : /\ FoundObjects(objs, issued[1], record.objects)
                    /\ e.leaves = Append(Leaves(objs, e.alg), e.binding)
    BY <1>5 DEF IsTreeRenewal
  <2>6. objs = record.objects
    BY <2>5, ObjectsStay DEF Undamaged
  <2> HIDE DEF a, e
  <2>7. /\ a.type = "hash-tree-renewal" /\ a.binding = Digest(a.alg, chain)
        /\ a.leaves = Append(Leaves(record.objects, a.alg), Digest(a.alg, chain))
        /\ a.root = MerkleRootOf(Append(Leaves(record.objects, a.alg), Digest(a.alg, chain)), a.alg)
    BY <1>2, <2>1, <2>4, <2>5, <2>6
  <2> QED BY <2>7 DEF RenewalFits, a, chain
<1> QED BY <1>4, <1>5 DEF Kept

LEMMA UndamagedPasses ==
    ASSUME RecordConstants, Kept(record, issued), Undamaged
    PROVE  Structure(record)
<1>1. Len(record.ats) = Len(issued)
  BY KeptFacts
<1>2. record.sha3 = <<record.objects, record.ats>>
  BY DEF Undamaged
<1> QED BY <1>1, <1>2, UndamagedInitial, UndamagedRenewal DEF Structure

-----------------------------------------------------------------------------
(* The layer of the times, and the verdict.                                 *)

\* What TimesHold says of one entry a, that was written as e.
Claimed(a, e, ca) ==
    a.time.source = "rfc3161" => /\ a.time.token # None
                                 /\ ca = Genuine => a.time = e.time

\* Where openssl runs every time has a verdict, and it is bad when a claim is.
LEMMA TimeJudged ==
    ASSUME RecordConstants, NEW a, NEW e, Timed(e), a.time = e.time \/ a.time \in DamagedTimes,
           Covered(a) = Covered(e), NEW ca \in {None, Genuine}
    PROVE  /\ TimeLayer(a, CanRun, ca) # "not_run"
           /\ TimeLayer(a, CanRun, ca) = "bad" <=> ~Claimed(a, e, ca)
<1> DEFINE good == Token(Covered(e), Genuine)
<1>1. /\ good.authority = Genuine /\ Garbage.authority = None
      /\ good # None /\ Garbage # None
  <2>1. good = [x \in DOMAIN good |-> good[x]] /\ Garbage = [x \in DOMAIN Garbage |-> Garbage[x]]
    BY DEF Token, Garbage
  <2>2. good # None /\ Garbage # None
    BY <2>1 DEF RecordConstants, IsAtom
  <2> QED BY <2>2 DEF Token, Garbage
<1>2. None # Genuine /\ Genuine # "missing"
  BY DEF RecordConstants
<1>3. good # Garbage
  BY <1>1, <1>2
<1>4. CanRun.openssl = "runs" /\ CanRun.tmp
  BY DEF CanRun
<1> HIDE DEF good
<1>5. \/ a.time = Asserted
      \/ a.time = [source |-> "rfc3161", token |-> None]
      \/ a.time = [source |-> "rfc3161", token |-> Garbage]
      \/ a.time = [source |-> "rfc3161", token |-> good] /\ a.time = e.time
  BY DEF Timed, DamagedTimes, good
<1>6. CASE a.time = Asserted
  <2>1. a.time.source = "asserted"
    BY <1>6 DEF Asserted
  <2> QED BY <2>1 DEF TimeLayer, Claimed
<1>7. CASE a.time = [source |-> "rfc3161", token |-> None]
  <2>1. a.time.source = "rfc3161" /\ a.time.token = None
    BY <1>7
  <2> QED BY <2>1 DEF TimeLayer, Claimed
<1>8. CASE a.time = [source |-> "rfc3161", token |-> Garbage]
  <2>1. a.time.source = "rfc3161" /\ a.time.token = Garbage
    BY <1>8
  <2>2. e.time # a.time
    BY <1>3, <2>1 DEF Timed, Asserted, good
  <2>3. VerifyToken(CanRun, Garbage, Covered(a), ca) = IF ca = None THEN "unchecked" ELSE "bad"
    BY <1>2, <1>4 DEF VerifyToken
  <2> QED BY <1>1, <1>2, <2>1, <2>2, <2>3 DEF TimeLayer, Claimed
<1>9. CASE a.time = [source |-> "rfc3161", token |-> good] /\ a.time = e.time
  <2>1. a.time.source = "rfc3161" /\ a.time.token = good
    BY <1>9
  <2>2. VerifyToken(CanRun, good, Covered(a), ca) = IF ca = None THEN "unchecked" ELSE "good"
    BY <1>2, <1>3, <1>4 DEF VerifyToken, good
  <2> QED BY <1>1, <1>9, <2>1, <2>2 DEF TimeLayer, Claimed
<1> QED BY <1>5, <1>6, <1>7, <1>8, <1>9

LEMMA TimesJudged ==
    ASSUME RecordConstants, Kept(record, issued), Undamaged, NEW ca \in {None, Genuine}
    PROVE  LET times == {TimeLayer(record.ats[i], CanRun, ca) : i \in DOMAIN record.ats} IN
           /\ "not_run" \notin times
           /\ "bad" \notin times <=> TimesHold(ca)
<1>1. ASSUME NEW i \in DOMAIN record.ats
      PROVE  /\ TimeLayer(record.ats[i], CanRun, ca) # "not_run"
             /\ TimeLayer(record.ats[i], CanRun, ca) = "bad"
                  <=> ~Claimed(record.ats[i], issued[i], ca)
  <2>1. i \in 1 .. Len(issued)
    BY KeptFacts
  <2>2. Timed(issued[i]) /\ Stored(record.ats[i], issued[i])
    BY <2>1, KeptFacts
  <2>3. Covered(record.ats[i]) = Covered(issued[i])
    BY DEF Undamaged, Tree, Covered
  <2>4. record.ats[i].time = issued[i].time \/ record.ats[i].time \in DamagedTimes
    BY <2>2 DEF Stored
  <2> QED BY <2>2, <2>3, <2>4, TimeJudged
<1>2. TimesHold(ca) <=> \A i \in DOMAIN record.ats : Claimed(record.ats[i], issued[i], ca)
  BY DEF TimesHold, Claimed
<1> QED BY <1>1, <1>2

-----------------------------------------------------------------------------
(* Hosts that cannot check, and the verdict.                                *)

\* What a host says of one time: what openssl would say, or nothing; and one
\* without openssl finds only a token that is not there.
LEMMA HostJudges ==
    ASSUME NEW a, NEW h \in Hosts, NEW ca
    PROVE  /\ TimeLayer(a, CanRun, ca) # "not_run"
           /\ h.openssl # "absent" /\ TimeLayer(a, h, ca) # "not_run"
                => TimeLayer(a, h, ca) = TimeLayer(a, CanRun, ca)
           /\ h.openssl = "absent" =>
                /\ TimeLayer(a, h, ca) # "not_run"
                /\ TimeLayer(a, h, ca) = "bad" =>
                     \A g : TimeLayer(a, g, ca) = "bad"
           /\ TimeLayer(a, h, ca) = "not_run" => a.time.token # None
<1>1. h.openssl \in {"absent", "runs", "fails"} /\ h.tmp \in BOOLEAN
  BY DEF Hosts, OpensslStates
<1>2. CanRun.openssl = "runs" /\ CanRun.tmp = TRUE
  BY DEF CanRun
<1>3. \A g : /\ a.time.source = "asserted" => TimeLayer(a, g, ca) = "skip"
             /\ a.time.source # "asserted" /\ a.time.token = None => TimeLayer(a, g, ca) = "bad"
  BY DEF TimeLayer
<1>4. CASE a.time.source = "asserted" \/ a.time.token = None
  BY <1>3, <1>4
<1>5. CASE a.time.source # "asserted" /\ a.time.token # None
  <2> DEFINE V(g) == VerifyToken(g, a.time.token, Covered(a), ca)
  <2>1. \A g : TimeLayer(a, g, ca) = IF V(g) = "unchecked" THEN "skip" ELSE V(g)
    BY <1>5 DEF TimeLayer
  <2>2. V(CanRun) # "not_run"
    BY <1>2 DEF VerifyToken
  <2>3. h.openssl # "absent" /\ V(h) # "not_run" => V(h) = V(CanRun)
    BY <1>1, <1>2 DEF VerifyToken
  <2>4. h.openssl = "absent" => V(h) = "unchecked"
    BY DEF VerifyToken
  <2> HIDE DEF V
  <2> QED BY <1>5, <2>1, <2>2, <2>3, <2>4
<1> QED BY <1>4, <1>5

\* Two hosts that both give a verdict on a record give the same one, unless one
\* has no openssl, which can only overlook a bad token; a verdict is withheld
\* only when there is a token to check (preservation.py:260-304).
LEMMA HostsAgree == RecordNotRun
<1> DEFINE Times(h, ca) == {TimeLayer(record.ats[i], h, ca) : i \in DOMAIN record.ats}
           Is(h, ca)    == VerifyRecord(Structure(record), record, None, h, ca)
<1>1. ASSUME NEW ca, NEW h \in Hosts, NEW g \in Hosts
      PROVE  /\ h.openssl # "absent" /\ g.openssl # "absent"
                /\ Is(h, ca) # "not_run" /\ Is(g, ca) # "not_run" => Is(h, ca) = Is(g, ca)
             /\ h.openssl = "absent" /\ Is(h, ca) = "invalid" => Is(g, ca) \in {"invalid", "not_run"}
             /\ Is(h, ca) = "not_run" => \E i \in DOMAIN record.ats :
                                             record.ats[i].time.token # None
  <2>1. \A f \in Hosts : Is(f, ca) = "not_run" <=> "not_run" \in Times(f, ca)
    BY DEF VerifyRecord
  <2>2. ASSUME NEW f \in Hosts, f.openssl # "absent", Is(f, ca) # "not_run"
        PROVE  Times(f, ca) = Times(CanRun, ca)
    <3>1. "not_run" \notin Times(f, ca)
      BY <2>1, <2>2
    <3>2. ASSUME NEW i \in DOMAIN record.ats
          PROVE  TimeLayer(record.ats[i], f, ca) = TimeLayer(record.ats[i], CanRun, ca)
      <4>1. TimeLayer(record.ats[i], f, ca) # "not_run"
        BY <3>1
      <4> QED BY <2>2, <4>1, HostJudges
    <3> QED BY <3>2
  <2>3. Times(h, ca) = Times(g, ca) => Is(h, ca) = Is(g, ca)
    BY DEF VerifyRecord
  <2>4. h.openssl = "absent" /\ "bad" \in Times(h, ca) => "bad" \in Times(g, ca)
    BY HostJudges
  <2>5. /\ Is(h, ca) = "invalid" /\ "bad" \notin Times(h, ca) => Is(g, ca) \in {"invalid", "not_run"}
        /\ "bad" \in Times(g, ca) => Is(g, ca) \in {"invalid", "not_run"}
    BY DEF VerifyRecord
  <2>6. "not_run" \in Times(h, ca) => \E i \in DOMAIN record.ats : record.ats[i].time.token # None
    BY HostJudges
  <2> HIDE DEF Times, Is
  <2> QED BY <2>1, <2>2, <2>3, <2>4, <2>5, <2>6
<1> HIDE DEF Is
<1> SUFFICES ASSUME NEW ca,
                    NEW h \in {x \in Hosts : x.reply = "error"},
                    NEW g \in {x \in Hosts : x.reply = "error"}
             PROVE  /\ "absent" \notin {h.openssl, g.openssl}
                       /\ "not_run" \notin {Is(h, ca), Is(g, ca)} => Is(h, ca) = Is(g, ca)
                    /\ h.openssl = "absent" /\ Is(h, ca) = "invalid"
                         => Is(g, ca) \in {"invalid", "not_run"}
                    /\ Is(h, ca) = "not_run" => \E i \in DOMAIN record.ats :
                                                   record.ats[i].time.token # None
  BY DEF RecordNotRun, Is
<1>2. h \in Hosts /\ g \in Hosts
  OBVIOUS
<1> QED BY <1>1, <1>2

\* A record is valid exactly when it is undamaged, claims no time that it has
\* no token for, and the packs, when given, are its objects
\* (preservation.py:218-304); and a host that cannot check a time withholds its
\* verdict or says what the others say (timestamp.py:36-52).
THEOREM RecordVerdictExact ==
    ASSUME RecordConstants
    PROVE  RecordSpec => []RecordVerdictIsExact
<1>1. RecordIInv => RecordVerdictIsExact
  <2> SUFFICES ASSUME RecordIInv, IsBuilt, NEW ca \in {None, Genuine}, NEW packs
               PROVE  VerifyRecord(Structure(record), record, packs, CanRun, ca) = "valid"
                        <=> /\ Undamaged
                            /\ TimesHold(ca)
                            /\ packs # None => packs = record.objects
    BY HostsAgree, Zenon DEF RecordVerdictIsExact
  <2>1. Kept(record, issued)
    BY DEF RecordIInv, IsBuilt
  <2>2. Structure(record) <=> Undamaged
    BY <2>1, StructureMeans, UndamagedPasses
  <2>3. CASE Undamaged
    BY <2>1, <2>2, <2>3, TimesJudged DEF VerifyRecord
  <2>4. CASE ~Undamaged
    BY <2>2, <2>4 DEF VerifyRecord
  <2> QED BY <2>3, <2>4
<1> QED BY <1>1, RecordInvariant, PTL

-----------------------------------------------------------------------------
(* The chip registry and the agents' log                                    *)

USE ClassesAssumption, UpdatesAssumption, NoneAssumption, BoundAssumption

-----------------------------------------------------------------------------
(* The inductive invariant *)

\* A sidecar that lies anywhere was made by its signer.
SidecarsAreSigned ==
    \A p \in Places : store[p].side \in Sidecars =>
        <<store[p].side.of, store[p].side.signer>> \in signed

\* What was verified was signed by a trusted signer and is still there, if
\* its place was not written since.
VerifiedIsSigned ==
    call.pc = "read" => \/ swapped
                        \/ Here.pack \in Updates /\ SignedByTrusted(Here.pack)

MergedIsSigned == \A m \in merged : m.swapped \/ SignedByTrusted(m.body)

\* What is being merged is a recorded body, class by class.
MergeIsUnderWay ==
    call.pc = "merge" =>
        /\ call.body \in Updates
        /\ call.body.classes # None
        /\ call.todo \subseteq DOMAIN call.body.classes
        /\ \E m \in merged : m.body = call.body

BaselineIsRooted ==
    /\ \A c \in DOMAIN Baseline : services[c] = Baseline[c]
    /\ \A c \in Untrusted : services[c] = None

KnownByUpdate ==
    \A c \in Classes \ DOMAIN Baseline : services[c] # None =>
        \E m \in merged : /\ c \in DOMAIN m.body.classes
                          /\ m.body.classes[c] = services[c]

CandidatesAreUnknown == \A c \in candidates : services[c] = None

RegistryIInv ==
    /\ TypeOK
    /\ SidecarsAreSigned
    /\ VerifiedIsSigned
    /\ MergedIsSigned
    /\ MergeIsUnderWay
    /\ BaselineIsRooted
    /\ KnownByUpdate
    /\ CandidatesAreUnknown

-----------------------------------------------------------------------------
(* Type correctness *)

LEMMA InitTypeOK == Init => TypeOK
  <1> SUFFICES ASSUME Init PROVE TypeOK
    OBVIOUS
  <1>1. services \in [Classes -> Services \cup {None}]
    BY DEF Init, RegistryInit
  <1>2. sources \in Seq([signer : Signers \cup {None}, body : Updates])
    BY DEF Init, RegistryInit
  <1>3. store \in [Places -> Files]
    BY DEF Init, NothingLies, Missing, Files
  <1>4. call \in Calls
    BY DEF Init, RegistryInit, Idle, Calls
  <1>5. /\ candidates = {} /\ merged = {} /\ signed = {}
        /\ swapped = FALSE /\ lost = FALSE /\ writes \in 0 .. MaxWrites
    BY DEF Init, RegistryInit, NothingLies
  <1> QED BY <1>1, <1>2, <1>3, <1>4, <1>5 DEF TypeOK

\* One place written.
LEMMA WriteTypeOK ==
    ASSUME TypeOK, NEW p \in Places, NEW pair \in Files, Write(p, pair), signed' \subseteq Updates \X Signers
    PROVE  TypeOK'
  <1>1. store' \in [Places -> Files]
    BY DEF TypeOK, Write, Files
  <1>2. writes' \in 0 .. MaxWrites
    BY DEF TypeOK, Write
  <1>3. swapped' \in BOOLEAN
    BY DEF TypeOK, Write
  <1>4. UNCHANGED <<services, candidates, sources, call, merged, lost>>
    BY DEF Write, registry
  <1> QED BY <1>1, <1>2, <1>3, <1>4 DEF TypeOK, Files

LEMMA NextTypeOK == TypeOK /\ MergeIsUnderWay /\ [RegistryNext]_registryVars => TypeOK'
  <1> SUFFICES ASSUME TypeOK, MergeIsUnderWay, [RegistryNext]_registryVars PROVE TypeOK'
    OBVIOUS
  <1> USE DEF Files, Calls
  <1>1. ASSUME NEW p \in {"file", "web"}, NEW u \in Updates, WritePack(p, u) PROVE TypeOK'
    <2>1. p \in Places /\ store[p] \in Files
      BY DEF TypeOK, Places
    <2>2. [store[p] EXCEPT !.pack = u] \in Files
      BY <2>1
    <2> QED BY <1>1, <2>1, <2>2, WriteTypeOK DEF WritePack, TypeOK
  <1>2. ASSUME NEW p \in {"file", "web"}, NEW s \in Signers, SignPack(p, s) PROVE TypeOK'
    <2>1. p \in Places /\ store[p].pack \in Updates
      BY <1>2 DEF SignPack, TypeOK, Places
    <2>2. [of |-> store[p].pack, signer |-> s] \in Sidecars
      BY <2>1 DEF Sidecars
    <2>3. [store[p] EXCEPT !.side = [of |-> store[p].pack, signer |-> s]] \in Files
      BY <2>1, <2>2 DEF TypeOK
    <2>4. signed' \subseteq Updates \X Signers
      BY <1>2, <2>1 DEF SignPack, TypeOK
    <2> QED BY <1>2, <2>1, <2>3, <2>4, WriteTypeOK DEF SignPack
  <1>3. ASSUME NEW p \in {"file", "web"}, SpoilSide(p) PROVE TypeOK'
    <2>1. p \in Places /\ [store[p] EXCEPT !.side = NotAnObject] \in Files
      BY DEF TypeOK, Places
    <2> QED BY <1>3, <2>1, WriteTypeOK DEF SpoilSide, TypeOK
  <1>4. ASSUME NEW p \in {"file", "web"}, RemovePack(p) PROVE TypeOK'
    <2>1. p \in Places /\ Missing \in Files
      BY DEF Missing, Places
    <2> QED BY <1>4, <2>1, WriteTypeOK DEF RemovePack, TypeOK
  <1>5. CASE BeginApply
    BY <1>5 DEF BeginApply, TypeOK, files, registry, history, Idle
  <1>6. CASE Verify
    <2>1. Here \in Files
      BY DEF TypeOK, Here, Places
    <2>2. call' \in Calls
      BY <1>6 DEF Verify, Return, Idle, TypeOK
    <2> QED BY <1>6, <2>1, <2>2 DEF Verify, TypeOK, files, registry
  <1>7. CASE Read
    <2>1. Here \in Files
      BY DEF TypeOK, Here, Places
    <2>2. CASE Here.pack = None \/ Here.pack.kind # UPDATE_KIND \/ Here.pack.classes = None
      BY <1>7, <2>2 DEF Read, Return, Idle, TypeOK, files, registry
    <2>3. CASE ~(Here.pack = None \/ Here.pack.kind # UPDATE_KIND \/ Here.pack.classes = None)
      <3>1. Here.pack \in Updates /\ DOMAIN Here.pack.classes \subseteq Classes
        BY <2>1, <2>3
      <3>2. call' = [call EXCEPT !.pc = "merge", !.body = Here.pack, !.todo = DOMAIN Here.pack.classes]
        BY <1>7, <2>3 DEF Read
      <3>3. merged' = merged \cup {[body |-> Here.pack, swapped |-> swapped]}
        BY <1>7, <2>3 DEF Read
      <3>4. call' \in Calls
        BY <3>1, <3>2 DEF TypeOK
      <3>5. merged' \subseteq [body : Updates, swapped : BOOLEAN]
        BY <3>1, <3>3 DEF TypeOK
      <3> QED BY <1>7, <3>4, <3>5 DEF Read, TypeOK, files, registry
    <2> QED BY <2>2, <2>3
  <1>8. CASE RecordSource
    <2>1. Here \in Files
      BY DEF TypeOK, Here, Places
    <2>2. CASE Here.side = NotAnObject
      BY <1>8, <2>2 DEF RecordSource, Return, Idle, TypeOK, files
    <2>3. CASE Here.side # NotAnObject
      <3> DEFINE source == [signer |-> IF Here.side = None THEN None ELSE Here.side.signer,
                            body   |-> call.body]
      <3>1. call.body \in Updates
        BY <1>8 DEF RecordSource, MergeIsUnderWay
      <3>2. source.signer \in Signers \cup {None}
        BY <2>1, <2>3 DEF Sidecars
      <3>3. source \in [signer : Signers \cup {None}, body : Updates]
        BY <3>1, <3>2
      <3>4. sources' = Append(sources, source)
        BY <1>8, <2>3 DEF RecordSource
      <3>5. sources' \in Seq([signer : Signers \cup {None}, body : Updates])
        BY <3>3, <3>4 DEF TypeOK
      <3>6. call' \in Calls
        BY <1>8 DEF RecordSource, Return, Idle
      <3> QED BY <1>8, <2>3, <3>5, <3>6 DEF RecordSource, TypeOK, files
    <2> QED BY <2>2, <2>3
  <1>9. CASE FetchPack
    <2>1. store' \in [Places -> Files]
      BY <1>9 DEF FetchPack, TypeOK, Places
    <2> QED BY <1>9, <2>1 DEF FetchPack, TypeOK, registry, history, Idle
  <1>10. CASE FetchSidecar
    <2>1. store' \in [Places -> Files]
      BY <1>10 DEF FetchSidecar, TypeOK, Places
    <2>2. call' \in Calls
      BY <1>10 DEF FetchSidecar, Return, Idle, TypeOK
    <2> QED BY <1>10, <2>1, <2>2 DEF FetchSidecar, TypeOK, registry, history
  <1>11. ASSUME NEW c \in Classes, MergeClass(c) PROVE TypeOK'
    <2>1. call' \in Calls
      BY <1>11 DEF MergeClass, TypeOK
    <2>2. call.body \in Updates /\ call.body.classes # None /\ c \in DOMAIN call.body.classes
      BY <1>11 DEF MergeClass, MergeIsUnderWay
    <2>3. call.body.classes[c] \in Services
      BY <2>2
    <2>4. services' \in [Classes -> Services \cup {None}] /\ candidates' \subseteq Classes
      BY <1>11, <2>3 DEF MergeClass, TypeOK
    <2> QED BY <1>11, <2>1, <2>4 DEF MergeClass, TypeOK, files, history
  <1>12. ASSUME NEW c \in Classes, IngestCandidate(c) PROVE TypeOK'
    BY <1>12 DEF IngestCandidate, TypeOK, files, history
  <1>13. CASE UNCHANGED registryVars
    BY <1>13 DEF registryVars, TypeOK
  <1> QED BY <1>1, <1>2, <1>3, <1>4, <1>5, <1>6, <1>7, <1>8, <1>9, <1>10, <1>11, <1>12, <1>13 DEF RegistryNext

-----------------------------------------------------------------------------
(* The other conjuncts *)

LEMMA RegistryInitIInv == Init => RegistryIInv
  <1> SUFFICES ASSUME Init PROVE RegistryIInv
    OBVIOUS
  <1>1. TypeOK
    BY InitTypeOK
  <1>2. SidecarsAreSigned
    BY DEF Init, NothingLies, Missing, SidecarsAreSigned
  <1>3. VerifiedIsSigned /\ MergedIsSigned /\ MergeIsUnderWay
    BY DEF Init, RegistryInit, Idle, VerifiedIsSigned, MergedIsSigned, MergeIsUnderWay
  <1>4. BaselineIsRooted /\ KnownByUpdate /\ CandidatesAreUnknown
    BY DEF Init, RegistryInit, BaselineIsRooted, KnownByUpdate, CandidatesAreUnknown
  <1> QED BY <1>1, <1>2, <1>3, <1>4 DEF RegistryIInv

\* The curators' writes leave the registry and its call alone, and what was
\* verified is still there or is marked as swapped.
LEMMA WriteIInv ==
    ASSUME RegistryIInv, TypeOK', NEW p \in {"file", "web"}, NEW pair \in Files, Write(p, pair),
           signed \subseteq signed',
           pair.side \in Sidecars => <<pair.side.of, pair.side.signer>> \in signed'
    PROVE  RegistryIInv'
  <1> USE DEF RegistryIInv
  <1>1. UNCHANGED <<services, candidates, sources, call, merged, lost>>
    BY DEF Write, registry
  <1>2. store \in [Places -> Files] /\ store' = [store EXCEPT ![p] = pair]
    BY DEF Write, TypeOK, Files
  <1>3. \A u \in Updates : SignedByTrusted(u) => SignedByTrusted(u)'
    BY DEF SignedByTrusted
  <1>4. SidecarsAreSigned'
    <2> SUFFICES ASSUME NEW q \in Places, store'[q].side \in Sidecars
                 PROVE  <<store'[q].side.of, store'[q].side.signer>> \in signed'
      BY DEF SidecarsAreSigned
    <2>1. CASE q = p
      BY <1>2, <2>1
    <2>2. CASE q # p
      BY <1>2, <2>2 DEF SidecarsAreSigned
    <2> QED BY <2>1, <2>2
  <1>5. VerifiedIsSigned'
    <2> SUFFICES ASSUME call.pc = "read"
                 PROVE  swapped' \/ (Here'.pack \in Updates /\ SignedByTrusted(Here.pack)')
      BY <1>1 DEF VerifiedIsSigned
    <2>1. CASE p = call.place
      BY <2>1 DEF Write
    <2>2. CASE p # call.place
      <3>1. call.place \in Places /\ call' = call
        BY <1>1 DEF TypeOK, Calls, Places
      <3>2. Here' = Here
        BY <1>2, <2>2, <3>1 DEF Here
      <3>3. swapped' = swapped
        BY <2>2 DEF Write, TypeOK
      <3>4. Here.pack \in Updates /\ SignedByTrusted(Here.pack) => SignedByTrusted(Here.pack)'
        BY <3>2 DEF SignedByTrusted
      <3> QED BY <3>2, <3>3, <3>4 DEF VerifiedIsSigned
    <2> QED BY <2>1, <2>2
  <1>6. MergedIsSigned'
    <2> SUFFICES ASSUME NEW m \in merged, ~m.swapped PROVE SignedByTrusted(m.body)'
      BY <1>1 DEF MergedIsSigned, SignedByTrusted
    <2>1. m.body \in Updates /\ SignedByTrusted(m.body)
      BY DEF MergedIsSigned, TypeOK
    <2> QED BY <1>1, <1>3, <2>1 DEF SignedByTrusted
  <1>7. MergeIsUnderWay'
    BY <1>1 DEF MergeIsUnderWay
  <1>8. BaselineIsRooted' /\ KnownByUpdate' /\ CandidatesAreUnknown'
    BY <1>1 DEF BaselineIsRooted, KnownByUpdate, CandidatesAreUnknown
  <1> QED BY <1>4, <1>5, <1>6, <1>7, <1>8

\* A pack that verifies was signed by a trusted signer.
LEMMA TrustedIsSigned ==
    ASSUME RegistryIInv, TrustedSigned(Here)
    PROVE  Here.pack \in Updates /\ SignedByTrusted(Here.pack)
  <1>1. call.place \in Places /\ Here = store[call.place] /\ Here \in Files
    BY DEF RegistryIInv, TypeOK, Here, Places, Files, Calls
  <1>2. Here.pack \in Updates
    BY <1>1 DEF TrustedSigned, Files
  <1>3. <<Here.side.of, Here.side.signer>> \in signed
    BY <1>1 DEF RegistryIInv, SidecarsAreSigned, TrustedSigned
  <1> QED BY <1>2, <1>3 DEF TrustedSigned, SignedByTrusted

LEMMA RegistryNextIInv == RegistryIInv /\ [RegistryNext]_registryVars => RegistryIInv'
  <1> SUFFICES ASSUME RegistryIInv, [RegistryNext]_registryVars PROVE RegistryIInv'
    OBVIOUS
  <1>0. TypeOK' /\ TypeOK
    BY NextTypeOK DEF RegistryIInv
  <1>1. ASSUME NEW p \in {"file", "web"}, NEW u \in Updates, WritePack(p, u) PROVE RegistryIInv'
    <2>1. p \in Places /\ store[p] \in Files
      BY <1>0 DEF TypeOK, Places, Files
    <2> DEFINE pair == [store[p] EXCEPT !.pack = u]
    <2>2. pair \in Files /\ pair.side = store[p].side
      BY <2>1 DEF Files
    <2>3. pair.side \in Sidecars => <<pair.side.of, pair.side.signer>> \in signed'
      BY <1>1, <2>1, <2>2 DEF RegistryIInv, SidecarsAreSigned, WritePack
    <2>4. Write(p, pair) /\ signed' = signed
      BY <1>1 DEF WritePack
    <2> HIDE DEF pair
    <2> QED BY <1>0, <2>2, <2>3, <2>4, WriteIInv
  <1>2. ASSUME NEW p \in {"file", "web"}, NEW s \in Signers, SignPack(p, s) PROVE RegistryIInv'
    <2>1. p \in Places /\ store[p] \in Files /\ store[p].pack \in Updates
      BY <1>0, <1>2 DEF SignPack, TypeOK, Places, Files
    <2> DEFINE side == [of |-> store[p].pack, signer |-> s]
               pair == [store[p] EXCEPT !.side = side]
    <2>2. side \in Sidecars /\ pair \in Files /\ pair.side = side
      BY <2>1 DEF Files, Sidecars
    <2>3. <<pair.side.of, pair.side.signer>> \in signed'
      BY <1>2, <2>2 DEF SignPack
    <2>4. Write(p, pair) /\ signed \subseteq signed'
      BY <1>2 DEF SignPack
    <2> HIDE DEF pair, side
    <2> QED BY <1>0, <2>2, <2>3, <2>4, WriteIInv
  <1>3. ASSUME NEW p \in {"file", "web"}, SpoilSide(p) PROVE RegistryIInv'
    <2> DEFINE pair == [store[p] EXCEPT !.side = NotAnObject]
    <2>1. p \in Places /\ store[p] \in Files
      BY <1>0 DEF TypeOK, Places, Files
    <2>3. pair \in Files /\ pair.side = NotAnObject
      BY <2>1 DEF Files
    <2>2. Write(p, pair) /\ signed' = signed
      BY <1>3 DEF SpoilSide
    <2> HIDE DEF pair
    <2> QED BY <1>0, <2>2, <2>3, WriteIInv
  <1>4. ASSUME NEW p \in {"file", "web"}, RemovePack(p) PROVE RegistryIInv'
    <2>1. Missing \in Files /\ Missing.side = None
      BY DEF Missing, Files
    <2>2. Write(p, Missing) /\ signed' = signed
      BY <1>4 DEF RemovePack
    <2> QED BY <1>0, <2>1, <2>2, WriteIInv
  <1> USE DEF RegistryIInv, Calls, Files
  <1>5. CASE BeginApply
    <2>1. UNCHANGED <<store, signed, services, candidates, merged>> /\ call'.pc = "verify"
      BY <1>5 DEF BeginApply, files, registry, history, Idle
    <2> QED BY <1>0, <2>1 DEF SidecarsAreSigned, VerifiedIsSigned, MergedIsSigned, SignedByTrusted, MergeIsUnderWay, BaselineIsRooted, KnownByUpdate, CandidatesAreUnknown
  <1>6. CASE Verify
    <2>1. UNCHANGED <<store, signed, services, candidates, merged>> /\ call'.pc # "merge"
      BY <1>0, <1>6 DEF Verify, files, registry, Return, Idle, TypeOK
    <2>2. VerifiedIsSigned'
      <3>1. CASE TrustedSigned(Here)
        <4>1. call'.place = call.place
          BY <1>0, <1>6, <3>1 DEF Verify, TypeOK, Calls
        <4>2. Here' = Here
          BY <2>1, <4>1 DEF Here
        <4>3. Here.pack \in Updates /\ SignedByTrusted(Here.pack)
          BY <3>1, TrustedIsSigned
        <4>4. SignedByTrusted(Here.pack)'
          BY <2>1, <4>2, <4>3 DEF SignedByTrusted
        <4> QED BY <4>1, <4>2, <4>3, <4>4 DEF VerifiedIsSigned
      <3>2. CASE ~TrustedSigned(Here)
        BY <1>6, <3>2 DEF Verify, Return, Idle, VerifiedIsSigned
      <3> QED BY <3>1, <3>2
    <2> QED BY <1>0, <2>1, <2>2 DEF SidecarsAreSigned, MergedIsSigned, SignedByTrusted, MergeIsUnderWay, BaselineIsRooted, KnownByUpdate, CandidatesAreUnknown
  <1>7. CASE Read
    <2> DEFINE gone == Here.pack = None \/ Here.pack.kind # UPDATE_KIND \/ Here.pack.classes = None
    <2>1. UNCHANGED <<store, signed, services, candidates, swapped>> /\ call'.pc # "read"
      <3>1. CASE gone
        BY <1>7, <3>1 DEF Read, files, registry, Return, Idle
      <3>2. CASE ~gone
        <4>1. call'.pc = "merge"
          BY <1>0, <1>7, <3>2 DEF Read, TypeOK, Calls
        <4> QED BY <1>7, <4>1 DEF Read, files, registry
      <3> QED BY <3>1, <3>2
    <2>2. \A m \in merged : m \in merged'
      BY <1>7 DEF Read
    <2>3. MergedIsSigned' /\ MergeIsUnderWay'
      <3>1. CASE Here.pack = None \/ Here.pack.kind # UPDATE_KIND \/ Here.pack.classes = None
        <4>1. merged' = merged /\ call'.pc = "idle"
          BY <1>7, <3>1 DEF Read, Return, Idle
        <4> QED BY <2>1, <4>1 DEF MergedIsSigned, SignedByTrusted, MergeIsUnderWay
      <3>2. CASE ~(Here.pack = None \/ Here.pack.kind # UPDATE_KIND \/ Here.pack.classes = None)
        <4> DEFINE m == [body |-> Here.pack, swapped |-> swapped]
        <4>1. call.pc = "read" /\ merged' = merged \cup {m}
          BY <1>7, <3>2 DEF Read
        <4>2. Here.pack \in Updates /\ Here.pack.classes # None
          BY <1>0, <3>2 DEF TypeOK, Here, Places
        <4>3. m.swapped \/ SignedByTrusted(m.body)
          BY <4>1, <1>0 DEF VerifiedIsSigned, TypeOK
        <4>4. MergedIsSigned'
          BY <2>1, <4>1, <4>3 DEF MergedIsSigned, SignedByTrusted
        <4>5. call'.body = Here.pack /\ call'.todo = DOMAIN Here.pack.classes
          BY <1>0, <1>7, <3>2 DEF Read, TypeOK
        <4>6. MergeIsUnderWay'
          <5>1. m \in merged' /\ m.body = call'.body
            BY <4>1, <4>5
          <5> HIDE DEF m
          <5> QED BY <4>2, <4>5, <5>1 DEF MergeIsUnderWay
        <4> QED BY <4>4, <4>6
      <3> QED BY <3>1, <3>2
    <2>4. KnownByUpdate'
      BY <2>1, <2>2 DEF KnownByUpdate
    <2> QED BY <1>0, <2>1, <2>3, <2>4 DEF SidecarsAreSigned, VerifiedIsSigned, BaselineIsRooted, CandidatesAreUnknown
  <1>8. CASE RecordSource
    <2>1. UNCHANGED <<store, signed, services, candidates, merged>> /\ call'.pc = "idle"
      BY <1>8 DEF RecordSource, Return, Idle, files
    <2> QED BY <1>0, <2>1 DEF SidecarsAreSigned, VerifiedIsSigned, MergedIsSigned, SignedByTrusted, MergeIsUnderWay, BaselineIsRooted, KnownByUpdate, CandidatesAreUnknown
  <1>9. CASE FetchPack
    <2>1. UNCHANGED <<signed, services, candidates, merged>> /\ call'.pc = "fetch"
      BY <1>9 DEF FetchPack, registry, history, Idle
    <2>2. SidecarsAreSigned'
      BY <1>0, <1>9 DEF FetchPack, SidecarsAreSigned, TypeOK, Places
    <2> QED BY <1>0, <2>1, <2>2 DEF VerifiedIsSigned, MergedIsSigned, SignedByTrusted, MergeIsUnderWay, BaselineIsRooted, KnownByUpdate, CandidatesAreUnknown
  <1>10. CASE FetchSidecar
    <2>1. UNCHANGED <<signed, services, candidates, merged>> /\ call'.pc \in {"idle", "verify"}
      BY <1>0, <1>10 DEF FetchSidecar, registry, history, Return, Idle, TypeOK
    <2>2. SidecarsAreSigned'
      <3>1. CASE store' = store
        BY <2>1, <3>1 DEF SidecarsAreSigned
      <3>2. CASE store' = [store EXCEPT !["copy"].side = store["web"].side]
        <4>1. \A q \in Places : store'[q].side = store[IF q = "copy" THEN "web" ELSE q].side
          BY <1>0, <3>2 DEF TypeOK, Places
        <4> QED BY <2>1, <4>1 DEF SidecarsAreSigned, Places
      <3> QED BY <1>10, <3>1, <3>2 DEF FetchSidecar
    <2> QED BY <1>0, <2>1, <2>2 DEF VerifiedIsSigned, MergedIsSigned, SignedByTrusted, MergeIsUnderWay, BaselineIsRooted, KnownByUpdate, CandidatesAreUnknown
  <1>11. ASSUME NEW c \in Classes, MergeClass(c) PROVE RegistryIInv'
    <2>1. UNCHANGED <<store, signed, sources, merged, swapped>> /\ call.pc = "merge"
      BY <1>11 DEF MergeClass, files, history
    <2>2. call' = [call EXCEPT !.todo = @ \ {c}] /\ c \in call.todo
      BY <1>11 DEF MergeClass
    <2>3. call'.pc = "merge" /\ call'.body = call.body /\ call'.todo \subseteq call.todo
      BY <1>0, <2>1, <2>2 DEF TypeOK
    <2>4. MergeIsUnderWay'
      BY <2>1, <2>3 DEF MergeIsUnderWay
    <2>5. PICK m \in merged : m.body = call.body
      BY <2>1 DEF MergeIsUnderWay
    <2>6. c \in DOMAIN call.body.classes /\ call.body.classes[c] \in Services
      BY <2>1, <2>2 DEF MergeIsUnderWay
    <2>7. BaselineIsRooted' /\ KnownByUpdate' /\ CandidatesAreUnknown'
      <3>1. CASE Rejected(c)
        <4>1. UNCHANGED <<services, candidates>>
          BY <1>11, <3>1 DEF MergeClass
        <4> QED BY <2>1, <4>1 DEF BaselineIsRooted, KnownByUpdate, CandidatesAreUnknown
      <3>2. CASE ~Rejected(c)
        <4>1. /\ services' = [services EXCEPT ![c] = call.body.classes[c]]
              /\ candidates' = candidates \ {c}
          BY <1>11, <3>2 DEF MergeClass
        <4>2. c \notin DOMAIN Baseline /\ c \notin Untrusted
          BY <3>2 DEF Rejected
        <4>3. \A d \in Classes : services'[d] = IF d = c THEN call.body.classes[c] ELSE services[d]
          BY <1>0, <4>1 DEF TypeOK
        <4>4. BaselineIsRooted'
          BY <4>2, <4>3 DEF BaselineIsRooted
        <4>5. CandidatesAreUnknown'
          BY <1>0, <4>1, <4>3 DEF CandidatesAreUnknown, TypeOK
        <4>6. KnownByUpdate'
          BY <2>1, <2>5, <2>6, <4>3 DEF KnownByUpdate
        <4> QED BY <4>4, <4>5, <4>6
      <3> QED BY <3>1, <3>2
    <2> QED BY <1>0, <2>1, <2>3, <2>4, <2>7 DEF SidecarsAreSigned, VerifiedIsSigned, MergedIsSigned, SignedByTrusted
  <1>12. ASSUME NEW c \in Classes, IngestCandidate(c) PROVE RegistryIInv'
    <2>1. UNCHANGED <<store, signed, services, call, merged>> /\ call.pc = "idle"
      BY <1>12 DEF IngestCandidate, files, history
    <2>2. CandidatesAreUnknown'
      BY <1>12, <2>1 DEF IngestCandidate, CandidatesAreUnknown
    <2> QED BY <1>0, <2>1, <2>2 DEF SidecarsAreSigned, VerifiedIsSigned, MergedIsSigned, SignedByTrusted, MergeIsUnderWay, BaselineIsRooted, KnownByUpdate
  <1>13. CASE UNCHANGED registryVars
    BY <1>0, <1>13 DEF registryVars, Here, SidecarsAreSigned, VerifiedIsSigned, MergedIsSigned, SignedByTrusted, MergeIsUnderWay, BaselineIsRooted, KnownByUpdate, CandidatesAreUnknown
  <1> QED BY <1>1, <1>2, <1>3, <1>4, <1>5, <1>6, <1>7, <1>8, <1>9, <1>10, <1>11, <1>12, <1>13 DEF RegistryNext

LEMMA IInvMeans == RegistryIInv => OnlyTrustedUpdates
  <1> SUFFICES ASSUME RegistryIInv, NEW c \in Classes \ DOMAIN Baseline, services[c] # None
               PROVE  \E m \in merged : /\ c \in DOMAIN m.body.classes
                                        /\ m.body.classes[c] = services[c]
                                        /\ SignedByTrusted(m.body) \/ m.swapped
    BY DEF RegistryIInv, OnlyTrustedUpdates, BaselineIsRooted, CandidatesAreUnknown
  <1> QED BY DEF RegistryIInv, KnownByUpdate, MergedIsSigned

(***************************************************************************)
(* THEOREM RegistryInvariant (chip_registry.py:119-221).  RegistryIInv is   *)
(* inductive and holds always.                                              *)
(***************************************************************************)
THEOREM RegistryInvariant == Spec => []RegistryIInv
  <1>1. Init => RegistryIInv
    BY RegistryInitIInv
  <1>2. RegistryIInv /\ [RegistryNext]_registryVars => RegistryIInv'
    BY RegistryNextIInv
  <1> QED BY <1>1, <1>2, PTL DEF Spec

(***************************************************************************)
(* THEOREM RegistryTyped (chip_registry.py:62-221).  TypeOK holds always,   *)
(* for any files, updates and calls.                                        *)
(***************************************************************************)
THEOREM RegistryTyped == Spec => []TypeOK
  <1>1. RegistryIInv => TypeOK
    BY DEF RegistryIInv
  <1> QED BY <1>1, RegistryInvariant, PTL

(***************************************************************************)
(* THEOREM OnlyTrusted (chip_registry.py:26-39, 119-150).  Whatever files   *)
(* are written, signed, fetched and fed, OnlyTrustedUpdates holds always.   *)
(***************************************************************************)
THEOREM OnlyTrusted == Spec => []OnlyTrustedUpdates
  <1>1. RegistryIInv => OnlyTrustedUpdates
    BY IInvMeans
  <1> QED BY <1>1, RegistryInvariant, PTL

-----------------------------------------------------------------------------
(* Services follow the recorded sources *)

\* The last recorded source that names c maps it to s, or none does.
Follows(c, s) ==
    \/ Naming(c) = {} /\ s = None
    \/ \E i \in Naming(c) : (\A j \in Naming(c) : j <= i) /\ s = sources[i].body.classes[c]

\* A class of the update being merged already has its service; the others
\* have theirs from the sources.
Merging(c) == /\ call.pc = "merge"
              /\ c \in DOMAIN call.body.classes
              /\ c \notin call.todo

SourcesAreFollowed ==
    ~lost => \A c \in Classes : ~Rejected(c) =>
        IF Merging(c) THEN services[c] = call.body.classes[c] ELSE Follows(c, services[c])

\* The last source is unique, so what follows it is FromSources.
LEMMA FollowsIsFromSources ==
    ASSUME TypeOK, NEW c \in Classes, ~Rejected(c), Follows(c, services[c])
    PROVE  services[c] = FromSources(c)
  <1>1. CASE Naming(c) = {}
    BY <1>1 DEF Follows, FromSources
  <1>2. CASE Naming(c) # {}
    <2>1. PICK i \in Naming(c) : /\ \A j \in Naming(c) : j <= i
                                /\ services[c] = sources[i].body.classes[c]
      BY <1>2 DEF Follows
    <2>2. Naming(c) \subseteq Nat
      BY DEF Naming, TypeOK
    <2> DEFINE last == CHOOSE k \in Naming(c) : \A j \in Naming(c) : j <= k
    <2>3. last \in Naming(c) /\ \A j \in Naming(c) : j <= last
      BY <2>1
    <2>4. last = i
      BY <2>1, <2>2, <2>3
    <2> QED BY <1>2, <2>1, <2>4 DEF FromSources
  <1> QED BY <1>1, <1>2

\* Nothing that these depend on changes.
LEMMA StillFollowed ==
    ASSUME SourcesAreFollowed, UNCHANGED <<services, sources, lost>>,
           \A c \in Classes : Merging(c)' <=> Merging(c),
           \A c \in Classes : Merging(c) => call'.body = call.body
    PROVE  SourcesAreFollowed'
  BY DEF SourcesAreFollowed, Follows, Naming, Rejected

LEMMA NextFollowed == RegistryIInv /\ SourcesAreFollowed /\ [RegistryNext]_registryVars => SourcesAreFollowed'
  <1> SUFFICES ASSUME RegistryIInv, SourcesAreFollowed, [RegistryNext]_registryVars PROVE SourcesAreFollowed'
    OBVIOUS
  <1> USE DEF Calls
  <1>0. TypeOK /\ TypeOK' /\ MergeIsUnderWay
    BY NextTypeOK DEF RegistryIInv
  <1>1. ASSUME NEW p \in {"file", "web"}, NEW pair, Write(p, pair) PROVE SourcesAreFollowed'
    <2>1. UNCHANGED <<services, sources, lost, call>>
      BY <1>1 DEF Write, registry
    <2> QED BY <2>1, StillFollowed DEF Merging
  <1>2. CASE BeginApply
    <2>1. UNCHANGED <<services, sources, lost>> /\ call.pc = "idle" /\ call'.pc = "verify"
      BY <1>2 DEF BeginApply, registry, history, Idle
    <2> QED BY <2>1, StillFollowed DEF Merging
  <1>3. CASE Verify
    <2>1. UNCHANGED <<services, sources, lost>> /\ call.pc = "verify" /\ call'.pc # "merge"
      BY <1>0, <1>3 DEF Verify, registry, Return, Idle, TypeOK
    <2> QED BY <2>1, StillFollowed DEF Merging
  <1>4. CASE Read
    <2>1. UNCHANGED <<services, sources, lost>> /\ call.pc = "read"
      BY <1>4 DEF Read, registry
    <2>2. \A c \in Classes : ~Merging(c)'
      <3>1. CASE Here.pack = None \/ Here.pack.kind # UPDATE_KIND \/ Here.pack.classes = None
        BY <1>4, <3>1 DEF Read, Return, Idle, Merging
      <3>2. CASE ~(Here.pack = None \/ Here.pack.kind # UPDATE_KIND \/ Here.pack.classes = None)
        <4>1. call'.body = Here.pack /\ call'.todo = DOMAIN Here.pack.classes
          BY <1>0, <1>4, <3>2 DEF Read, TypeOK
        <4> QED BY <4>1 DEF Merging
      <3> QED BY <3>1, <3>2
    <2> QED BY <2>1, <2>2, StillFollowed DEF Merging
  <1>5. CASE RecordSource
    <2>1. /\ UNCHANGED services
          /\ call.pc = "merge" /\ call.todo = {} /\ call'.pc = "idle"
          /\ call.body \in Updates
      BY <1>0, <1>5 DEF RecordSource, Return, Idle, MergeIsUnderWay
    <2>2. CASE Here.side = NotAnObject
      BY <1>5, <2>2 DEF RecordSource, SourcesAreFollowed
    <2>3. CASE Here.side # NotAnObject
      <3> SUFFICES ASSUME ~lost', NEW c \in Classes, ~Rejected(c)
                   PROVE  Follows(c, services[c])'
        BY <2>1 DEF SourcesAreFollowed, Merging, Rejected
      <3>1. lost' = lost
        BY <1>5, <2>3 DEF RecordSource
      <3> DEFINE n == Len(sources)
      <3>2. PICK source : sources' = Append(sources, source) /\ source.body = call.body
        BY <1>5, <2>3 DEF RecordSource
      <3>3. /\ n \in Nat /\ DOMAIN sources = 1 .. n /\ DOMAIN sources' = 1 .. (n + 1)
            /\ sources'[n + 1] = source
            /\ \A i \in 1 .. n : sources'[i] = sources[i]
        BY <1>0, <3>2 DEF TypeOK
      <3>4. CASE c \in DOMAIN call.body.classes
        <4>1. services[c] = call.body.classes[c]
          BY <2>1, <3>1, <3>4 DEF SourcesAreFollowed, Merging
        <4>2. n + 1 \in Naming(c)'
          BY <3>2, <3>3, <3>4 DEF Naming
        <4>3. \A j \in Naming(c)' : j <= n + 1
          BY <3>3 DEF Naming
        <4>4. services'[c] = sources'[n + 1].body.classes[c]
          BY <2>1, <3>2, <3>3, <4>1
        <4> QED BY <4>2, <4>3, <4>4 DEF Follows
      <3>5. CASE c \notin DOMAIN call.body.classes
        <4>1. Follows(c, services[c])
          BY <3>1, <3>5 DEF SourcesAreFollowed, Merging
        <4>2. Naming(c)' = Naming(c) /\ Naming(c) \subseteq 1 .. n
          BY <3>2, <3>3, <3>5 DEF Naming
        <4>3. \A i \in Naming(c) : sources'[i].body.classes[c] = sources[i].body.classes[c]
          BY <3>3, <4>2
        <4> QED BY <2>1, <4>1, <4>2, <4>3 DEF Follows
      <3> QED BY <3>4, <3>5
    <2> QED BY <2>2, <2>3
  <1>6. CASE FetchPack
    <2>1. UNCHANGED <<services, sources, lost>> /\ call.pc = "idle" /\ call'.pc = "fetch"
      BY <1>6 DEF FetchPack, registry, history, Idle
    <2> QED BY <2>1, StillFollowed DEF Merging
  <1>7. CASE FetchSidecar
    <2>1. UNCHANGED <<services, sources, lost>> /\ call.pc = "fetch" /\ call'.pc # "merge"
      BY <1>0, <1>7 DEF FetchSidecar, registry, history, Return, Idle, TypeOK
    <2> QED BY <2>1, StillFollowed DEF Merging
  <1>8. ASSUME NEW c \in Classes, MergeClass(c) PROVE SourcesAreFollowed'
    <2>1. UNCHANGED <<sources, lost>> /\ call.pc = "merge" /\ c \in call.todo
      BY <1>8 DEF MergeClass, history
    <2>2. /\ call'.pc = "merge" /\ call'.body = call.body
          /\ call'.todo = call.todo \ {c}
          /\ c \in DOMAIN call.body.classes
      BY <1>0, <1>8 DEF MergeClass, MergeIsUnderWay, TypeOK
    <2> SUFFICES ASSUME ~lost', NEW d \in Classes, ~Rejected(d)
                 PROVE  (IF Merging(d) THEN services[d] = call.body.classes[d]
                                       ELSE Follows(d, services[d]))'
      BY DEF SourcesAreFollowed, Rejected
    <2>3. services'[d] = IF d = c THEN call.body.classes[c] ELSE services[d]
      BY <1>0, <1>8 DEF MergeClass, TypeOK, Rejected
    <2>4. CASE d = c
      BY <2>2, <2>3, <2>4 DEF Merging
    <2>5. CASE d # c
      <3>1. Merging(d)' <=> Merging(d)
        BY <2>1, <2>2, <2>5 DEF Merging
      <3>2. Follows(d, services[d])' <=> Follows(d, services[d])
        BY <2>1, <2>3, <2>5 DEF Follows, Naming
      <3> QED BY <2>1, <2>2, <2>3, <2>5, <3>1, <3>2 DEF SourcesAreFollowed
    <2> QED BY <2>4, <2>5
  <1>9. ASSUME NEW c \in Classes, IngestCandidate(c) PROVE SourcesAreFollowed'
    <2>1. UNCHANGED <<services, sources, lost, call>>
      BY <1>9 DEF IngestCandidate, history
    <2> QED BY <2>1, StillFollowed DEF Merging
  <1>10. CASE UNCHANGED registryVars
    <2>1. UNCHANGED <<services, sources, lost, call>>
      BY <1>10 DEF registryVars
    <2> QED BY <2>1, StillFollowed DEF Merging
  <1>11. ASSUME NEW p \in {"file", "web"},
                (\E u \in Updates : WritePack(p, u)) \/ (\E s \in Signers : SignPack(p, s))
                  \/ SpoilSide(p) \/ RemovePack(p)
         PROVE  SourcesAreFollowed'
    BY <1>1, <1>11 DEF WritePack, SignPack, SpoilSide, RemovePack
  <1> QED BY <1>2, <1>3, <1>4, <1>5, <1>6, <1>7, <1>8, <1>9, <1>10, <1>11 DEF RegistryNext

LEMMA FollowedMeans == RegistryIInv /\ SourcesAreFollowed => ServicesFollowSources
  <1> SUFFICES ASSUME RegistryIInv, SourcesAreFollowed, call.pc # "merge", ~lost, NEW c \in Classes
               PROVE  services[c] = FromSources(c)
    BY DEF ServicesFollowSources
  <1>1. CASE Rejected(c)
    BY <1>1 DEF RegistryIInv, BaselineIsRooted, FromSources, Rejected
  <1>2. CASE ~Rejected(c)
    BY <1>2, FollowsIsFromSources DEF RegistryIInv, SourcesAreFollowed, Merging
  <1> QED BY <1>1, <1>2

(***************************************************************************)
(* THEOREM SourcesFollowed (chip_registry.py:128-150).  ServicesFollow-     *)
(* Sources holds always, for any number of updates, applied in any order.   *)
(***************************************************************************)
THEOREM SourcesFollowed == Spec => []ServicesFollowSources
  <1>1. Init => SourcesAreFollowed
    BY DEF Init, RegistryInit, Idle, SourcesAreFollowed, Merging, Follows, Naming, Rejected
  <1>2. RegistryIInv /\ SourcesAreFollowed /\ [RegistryNext]_registryVars => SourcesAreFollowed'
    BY NextFollowed
  <1>3. RegistryIInv /\ SourcesAreFollowed => ServicesFollowSources
    BY FollowedMeans
  <1> QED BY <1>1, <1>2, <1>3, RegistryInvariant, PTL DEF Spec

-----------------------------------------------------------------------------
(* AgentLog *)

USE AgentAssumption

-----------------------------------------------------------------------------
(* What the registry does under the log: its invariant holds, and a class   *)
(* that is known stays known.                                               *)

LEMMA RegistryKept == RegistryIInv /\ [AgentNext]_vars => RegistryIInv'
  <1> SUFFICES ASSUME RegistryIInv, [AgentNext]_vars PROVE RegistryIInv'
    OBVIOUS
  <1>1. [RegistryNext]_registryVars
    BY DEF AgentNext, vars, Step, ReadKnown, ReadService, AppendRecord, VerifyLog, ReadCount,
           ReadStats, AppendOther
  <1> QED BY <1>1, RegistryNextIInv

LEMMA KnownStaysKnown ==
    ASSUME RegistryIInv, RegistryNext, NEW c \in Classes, services[c] # None
    PROVE  services'[c] # None
  <1>1. ASSUME NEW d \in Classes, MergeClass(d) PROVE services'[c] # None
    <2>1. call.pc = "merge" /\ d \in call.todo
      BY <1>1 DEF MergeClass
    <2>2. call.body \in Updates /\ call.body.classes # None /\ d \in DOMAIN call.body.classes
      BY <2>1 DEF RegistryIInv, MergeIsUnderWay
    <2>3. call.body.classes[d] \in Services
      BY <2>2
    <2> QED BY <1>1, <2>3 DEF MergeClass, RegistryIInv, TypeOK
  <1>2. CASE \A d \in Classes : ~MergeClass(d)
    <2>1. services' = services
      BY <1>2 DEF RegistryNext, WritePack, SignPack, SpoilSide, RemovePack, Write, BeginApply, Verify, Read,
             RecordSource, FetchPack, FetchSidecar, IngestCandidate, registry
    <2> QED BY <2>1
  <1> QED BY <1>1, <1>2

-----------------------------------------------------------------------------
(* The inductive invariant *)

\* A class found known has a service, of the baseline for an instance without
\* a registry; one found unknown is not of the baseline.
KnownHolds(c, known) ==
    /\ known => services[c] # None
    /\ ~known => c \notin DOMAIN Baseline

Checked(d) ==
    /\ KnownHolds(d.class, d.known)
    /\ d.known => d.expected # None
    /\ d.status = "producer-claimed" => d.known
    /\ d.expected # None /\ ~d.known => \E m \in merged : d.class \in DOMAIN m.body.classes

TasksHold ==
    \A t \in Threads :
        /\ task[t].pc = "service" =>
             /\ KnownHolds(task[t].class, task[t].known)
             /\ task[t].known => \/ InstanceOf[t] \in Registered
                                 \/ task[t].class \in DOMAIN Baseline
        /\ task[t].pc = "append" => Checked(task[t])

DevicesHold == \A d \in Devices : Checked(d)

AInv == AgentTypeOK /\ RegistryIInv /\ TasksHold /\ DevicesHold

-----------------------------------------------------------------------------
\* What was checked stays true while the registry moves on.
LEMMA CheckedStays ==
    ASSUME RegistryIInv, RegistryNext \/ UNCHANGED registryVars,
           NEW c \in Classes, NEW known \in BOOLEAN, KnownHolds(c, known)
    PROVE  KnownHolds(c, known)'
  BY KnownStaysKnown DEF KnownHolds, registryVars

LEMMA MergedStays ==
    ASSUME RegistryNext \/ UNCHANGED registryVars
    PROVE  merged \subseteq merged'
  BY DEF RegistryNext, registryVars, WritePack, SignPack, SpoilSide, RemovePack, Write, BeginApply,
         Verify, Read, RecordSource, FetchPack, FetchSidecar, MergeClass, IngestCandidate,
         history

LEMMA CheckedStaysChecked ==
    ASSUME RegistryIInv, RegistryNext \/ UNCHANGED registryVars, NEW d \in Attested, Checked(d)
    PROVE  Checked(d)'
  <1>1. KnownHolds(d.class, d.known)'
    BY CheckedStays DEF Checked, Attested
  <1> QED BY <1>1, MergedStays DEF Checked

LEMMA DevicesTyped ==
    ASSUME AgentTypeOK
    PROVE  Devices \subseteq Attested
  BY DEF AgentTypeOK, Devices, Entries, IsAction, Other

LEMMA InitAInv == AgentInit => AInv
  <1> SUFFICES ASSUME AgentInit PROVE AInv
    OBVIOUS
  <1>1. RegistryIInv
    BY RegistryInitIInv DEF AgentInit
  <1>2. /\ log = << >> /\ count = [i \in Instances |-> 0] /\ task = [t \in Threads |-> Free]
    BY DEF AgentInit, LogInit
  <1>3. AgentTypeOK
    BY <1>1, <1>2 DEF RegistryIInv, AgentTypeOK, Tasks
  <1>4. TasksHold
    BY <1>2 DEF TasksHold, Free
  <1>5. DevicesHold
    BY <1>2 DEF DevicesHold, Devices
  <1> QED BY <1>1, <1>3, <1>4, <1>5 DEF AInv

LEMMA NextTyped == AInv /\ [AgentNext]_vars => AgentTypeOK'
  <1> SUFFICES ASSUME AInv, [AgentNext]_vars PROVE AgentTypeOK'
    OBVIOUS
  <1>0. AgentTypeOK /\ TypeOK'
    BY RegistryKept DEF AInv, RegistryIInv
  <1> USE DEF Tasks
  <1>1. ASSUME NEW t \in Threads, NEW c \in Classes, ReadKnown(t, c) PROVE AgentTypeOK'
    <2>1. IsKnown(InstanceOf[t], c) \in BOOLEAN
      BY DEF IsKnown
    <2> QED BY <1>0, <1>1, <2>1 DEF ReadKnown, Step, AgentTypeOK
  <1>2. ASSUME NEW t \in Threads, ReadService(t) PROVE AgentTypeOK'
    <2> DEFINE k == task[t]
               to == [pc |-> "append", known |-> k.known,
                      expected |-> ServiceFor(InstanceOf[t], k.class),
                      class |-> k.class, status |-> Status(k.class, k.known)]
    <2>1. k \in [pc : {"service"}, class : Classes, known : BOOLEAN]
      BY <1>0, <1>2 DEF ReadService, AgentTypeOK, Free, Attested
    <2>2. ServiceFor(InstanceOf[t], k.class) \in Services \cup {None}
      BY <1>0, <2>1 DEF ServiceFor, AgentTypeOK, TypeOK
    <2>3. Status(k.class, k.known) \in Statuses
      BY DEF Status, Statuses
    <2>4. to \in Attested
      BY <2>1, <2>2, <2>3 DEF Attested
    <2>5. task' = [task EXCEPT ![t] = to] /\ UNCHANGED <<log, count>>
      BY <1>2 DEF ReadService, Step
    <2> HIDE DEF to
    <2> QED BY <1>0, <2>4, <2>5 DEF AgentTypeOK
  <1>3. ASSUME NEW t \in Threads, NEW consistent \in BOOLEAN, AppendRecord(t, consistent)
        PROVE  AgentTypeOK'
    <2> DEFINE e == [kind |-> "agent", device |-> task[t], consistent |-> consistent]
    <2>1. task[t] \in Attested
      BY <1>0, <1>3 DEF AppendRecord, Step, AgentTypeOK, Free, Attested
    <2>2. e \in Entries
      BY <2>1 DEF Entries
    <2>3. log' = Append(log, e) /\ task' = [task EXCEPT ![t] = Free]
      BY <1>3 DEF AppendRecord, Step
    <2> HIDE DEF e
    <2>4. log' \in Seq(Entries) /\ Len(log') \in Nat
      BY <1>0, <2>2, <2>3 DEF AgentTypeOK
    <2>5. count' \in [Instances -> Nat]
      BY <1>0, <1>3, <2>4 DEF AppendRecord, AgentTypeOK
    <2> QED BY <1>0, <2>3, <2>4, <2>5 DEF AgentTypeOK
  <1>4. CASE AppendOther
    <2>1. Other \in Entries
      BY DEF Entries
    <2> QED BY <1>0, <1>4, <2>1 DEF AppendOther, AgentTypeOK
  <1>5. ASSUME NEW t \in Threads, VerifyLog(t) PROVE AgentTypeOK'
    <2>1. Len(log) \in Nat
      BY <1>0 DEF AgentTypeOK
    <2> QED BY <1>0, <1>5, <2>1 DEF VerifyLog, Step, AgentTypeOK
  <1>6. ASSUME NEW t \in Threads, ReadCount(t) PROVE AgentTypeOK'
    <2>1. Len(log) \in Nat /\ count[InstanceOf[t]] \in Nat
      BY <1>0 DEF AgentTypeOK
    <2>2. task[t].verified \in Nat
      BY <1>0, <1>6, SMTT(20) DEF ReadCount, AgentTypeOK, Free, Attested
    <2> QED BY <1>0, <1>6, <2>1, <2>2 DEF ReadCount, Step, AgentTypeOK
  <1>7. ASSUME NEW t \in Threads, ReadStats(t) PROVE AgentTypeOK'
    BY <1>0, <1>7 DEF ReadStats, Step, AgentTypeOK
  <1>8. CASE UNCHANGED <<log, count, task>>
    BY <1>0, <1>8 DEF AgentTypeOK
  <1> QED BY <1>1, <1>2, <1>3, <1>4, <1>5, <1>6, <1>7, <1>8 DEF AgentNext, vars, agentVars

\* A step that leaves the log's and the tasks' devices alone.
LEMMA NothingNew ==
    ASSUME AInv, RegistryNext \/ UNCHANGED registryVars,
           Devices' \subseteq Devices,
           \A t \in Threads : task'[t].pc \in {"service", "append"} => task'[t] = task[t]
    PROVE  TasksHold' /\ DevicesHold'
  <1>1. DevicesHold'
    BY DevicesTyped, CheckedStaysChecked DEF AInv, DevicesHold
  <1>2. ASSUME NEW t \in Threads, task'[t].pc = "service"
        PROVE  /\ KnownHolds(task[t].class, task[t].known)'
               /\ task'[t].known => \/ InstanceOf[t] \in Registered
                                    \/ task'[t].class \in DOMAIN Baseline
    <2>1. task'[t] = task[t] /\ task[t] \in [pc : {"service"}, class : Classes, known : BOOLEAN]
      BY <1>2 DEF AInv, AgentTypeOK, Tasks, Free, Attested
    <2> QED BY <1>2, <2>1, CheckedStays DEF AInv, TasksHold
  <1>3. ASSUME NEW t \in Threads, task'[t].pc = "append" PROVE Checked(task[t])'
    <2>1. task'[t] = task[t] /\ task[t] \in Attested
      BY <1>3 DEF AInv, AgentTypeOK, Tasks, Free, Attested
    <2> QED BY <1>3, <2>1, CheckedStaysChecked DEF AInv, TasksHold
  <1> QED BY <1>1, <1>2, <1>3 DEF TasksHold

LEMMA NextAInv == AInv /\ [AgentNext]_vars => AInv'
  <1> SUFFICES ASSUME AInv, [AgentNext]_vars PROVE TasksHold' /\ DevicesHold'
    BY NextTyped, RegistryKept DEF AInv
  <1>0. RegistryIInv /\ AgentTypeOK /\ AgentTypeOK' /\ TypeOK
    BY NextTyped DEF AInv, AgentTypeOK
  <1>1. ASSUME NEW t \in Threads, NEW c \in Classes, ReadKnown(t, c) PROVE TasksHold' /\ DevicesHold'
    <2> DEFINE i  == InstanceOf[t]
               to == [pc |-> "service", class |-> c, known |-> IsKnown(i, c)]
    <2>1. /\ task' = [task EXCEPT ![t] = to] /\ task \in [Threads -> Tasks]
          /\ UNCHANGED <<registryVars, log>>
      BY <1>0, <1>1 DEF ReadKnown, Step, AgentTypeOK
    <2>2. KnownHolds(c, IsKnown(i, c)) /\ (IsKnown(i, c) => i \in Registered \/ c \in DOMAIN Baseline)
      BY <1>0 DEF IsKnown, ServiceFor, KnownHolds, RegistryIInv, BaselineIsRooted
    <2>3. DevicesHold'
      BY <2>1 DEF AInv, DevicesHold, Devices, Checked, KnownHolds, registryVars
    <2>4. ASSUME NEW u \in Threads
          PROVE  task'[u] = IF u = t THEN to ELSE task[u]
      BY <2>1
    <2>5. TasksHold'
      <3> SUFFICES ASSUME NEW u \in Threads
                   PROVE  /\ task'[u].pc = "service" =>
                              /\ KnownHolds(task'[u].class, task'[u].known)
                              /\ task'[u].known => \/ InstanceOf[u] \in Registered
                                                  \/ task'[u].class \in DOMAIN Baseline
                          /\ task'[u].pc = "append" => Checked(task'[u])
        BY <2>1 DEF TasksHold, KnownHolds, Checked, registryVars
      <3>1. CASE u = t
        BY <2>2, <2>4, <3>1
      <3>2. CASE u # t
        BY <2>4, <3>2 DEF AInv, TasksHold
      <3> QED BY <3>1, <3>2
    <2> QED BY <2>3, <2>5
  <1>2. ASSUME NEW t \in Threads, ReadService(t) PROVE TasksHold' /\ DevicesHold'
    <2> DEFINE k  == task[t]
               to == [pc |-> "append", known |-> k.known,
                      expected |-> ServiceFor(InstanceOf[t], k.class),
                      class |-> k.class, status |-> Status(k.class, k.known)]
    <2>1. /\ task' = [task EXCEPT ![t] = to] /\ task \in [Threads -> Tasks]
          /\ UNCHANGED <<registryVars, log>> /\ k.pc = "service"
      BY <1>0, <1>2 DEF ReadService, Step, AgentTypeOK
    <2>2. k \in [pc : {"service"}, class : Classes, known : BOOLEAN]
      BY <2>1 DEF Tasks, Free, Attested
    <2>3. /\ KnownHolds(k.class, k.known)
          /\ k.known => InstanceOf[t] \in Registered \/ k.class \in DOMAIN Baseline
      BY <2>1 DEF AInv, TasksHold
    <2>4. Checked(to)
      <3>1. k.known => to.expected # None
        BY <2>2, <2>3 DEF ServiceFor, KnownHolds
      <3>2. to.expected # None /\ ~k.known => \E m \in merged : k.class \in DOMAIN m.body.classes
        BY <1>0, <2>2, <2>3 DEF ServiceFor, KnownHolds, RegistryIInv, KnownByUpdate
      <3>3. to.status = "producer-claimed" => k.known
        BY DEF Status
      <3>4. to.class = k.class /\ to.known = k.known
        OBVIOUS
      <3> HIDE DEF to
      <3> QED BY <2>3, <3>1, <3>2, <3>3, <3>4 DEF Checked
    <2>5. DevicesHold'
      BY <2>1 DEF AInv, DevicesHold, Devices, Checked, KnownHolds, registryVars
    <2>6. to.pc = "append"
      OBVIOUS
    <2> HIDE DEF to
    <2>7. TasksHold'
      <3> SUFFICES ASSUME NEW u \in Threads
                   PROVE  /\ task'[u].pc = "service" =>
                              /\ KnownHolds(task'[u].class, task'[u].known)
                              /\ task'[u].known => \/ InstanceOf[u] \in Registered
                                                  \/ task'[u].class \in DOMAIN Baseline
                          /\ task'[u].pc = "append" => Checked(task'[u])
        BY <2>1 DEF TasksHold, KnownHolds, Checked, registryVars
      <3>1. CASE u = t
        BY <2>1, <2>4, <2>6, <3>1
      <3>2. CASE u # t
        BY <2>1, <3>2 DEF AInv, TasksHold
      <3> QED BY <3>1, <3>2
    <2> QED BY <2>5, <2>7
  <1>3. ASSUME NEW t \in Threads, NEW consistent \in BOOLEAN, AppendRecord(t, consistent)
        PROVE  TasksHold' /\ DevicesHold'
    <2> DEFINE e == [kind |-> "agent", device |-> task[t], consistent |-> consistent]
    <2>1. /\ log' = Append(log, e) /\ task' = [task EXCEPT ![t] = Free]
          /\ task[t].pc = "append" /\ UNCHANGED registryVars
      BY <1>3 DEF AppendRecord, Step
    <2>2. Devices' \subseteq Devices \cup {task[t]}
      <3>1. e.device = task[t]
        OBVIOUS
      <3> HIDE DEF e
      <3>2. log \in Seq(Entries)
        BY <1>0 DEF AgentTypeOK
      <3>3. \A i \in DOMAIN log' : (i \in DOMAIN log /\ log'[i] = log[i]) \/ log'[i] = e
        BY <2>1, <3>2
      <3> QED BY <3>1, <3>3 DEF Devices
    <2>3. Checked(task[t])
      BY <2>1 DEF AInv, TasksHold
    <2>4. DevicesHold'
      BY <2>1, <2>2, <2>3 DEF AInv, DevicesHold, Checked, KnownHolds, registryVars
    <2>5. TasksHold'
      BY <1>0, <2>1 DEF AInv, AgentTypeOK, TasksHold, Checked, KnownHolds, registryVars, Free
    <2> QED BY <2>4, <2>5
  <1>4. CASE AppendOther
    <2>1. log' = Append(log, Other) /\ UNCHANGED <<registryVars, task>>
      BY <1>4 DEF AppendOther
    <2>2. Devices' \subseteq Devices
      <3>1. log \in Seq(Entries) /\ ~IsAction(Other)
        BY <1>0 DEF AgentTypeOK, IsAction, Other
      <3>2. \A i \in DOMAIN log' : (i \in DOMAIN log /\ log'[i] = log[i]) \/ log'[i] = Other
        BY <2>1, <3>1
      <3> QED BY <3>1, <3>2 DEF Devices
    <2> QED BY <2>1, <2>2, NothingNew
  <1>5. ASSUME NEW t \in Threads, VerifyLog(t) \/ ReadCount(t) \/ ReadStats(t)
        PROVE  TasksHold' /\ DevicesHold'
    <2>1. UNCHANGED <<registryVars, log>>
      BY <1>5 DEF VerifyLog, ReadCount, ReadStats, Step
    <2>2. \A u \in Threads : task'[u].pc \in {"service", "append"} => task'[u] = task[u]
      BY <1>0, <1>5 DEF VerifyLog, ReadCount, ReadStats, Step, Free, AgentTypeOK
    <2> QED BY <2>1, <2>2, NothingNew DEF Devices
  <1>6. CASE RegistryNext /\ UNCHANGED <<log, task>>
    BY <1>6, NothingNew DEF Devices
  <1>7. CASE UNCHANGED vars
    BY <1>7, NothingNew DEF Devices, vars, agentVars
  <1> QED BY <1>1, <1>2, <1>3, <1>4, <1>5, <1>6, <1>7 DEF AgentNext

LEMMA AInvMeans == AInv => AttestationsHold
  <1> SUFFICES ASSUME AInv, NEW d \in Devices
               PROVE  /\ d.known => /\ d.expected # None
                                    /\ d.class \notin Untrusted
                                    /\ services[d.class] # None
                      /\ d.status = "producer-claimed" => d.known
                      /\ d.expected # None /\ ~d.known =>
                            \E m \in merged : d.class \in DOMAIN m.body.classes
    BY DEF AttestationsHold
  <1>1. Checked(d)
    BY DEF AInv, DevicesHold
  <1> QED BY <1>1 DEF Checked, KnownHolds, AInv, RegistryIInv, BaselineIsRooted

(***************************************************************************)
(* THEOREM AgentTyped.  The log, its counters and its calls have their      *)
(* types.                                                                   *)
(***************************************************************************)
THEOREM AgentTyped == AgentSpec => []AgentTypeOK
  <1>1. AInv => AgentTypeOK
    BY DEF AInv
  <1> QED BY <1>1, InitAInv, NextAInv, PTL DEF AgentSpec

(***************************************************************************)
(* THEOREM AttestationsAlwaysHold (agent.py:85-92, 165-174).  However many  *)
(* threads record actions while the registry is updated, AttestationsHold   *)
(* holds always.                                                            *)
(***************************************************************************)
THEOREM AttestationsAlwaysHold == AgentSpec => []AttestationsHold
  <1>1. AInv => AttestationsHold
    BY AInvMeans
  <1> QED BY <1>1, InitAInv, NextAInv, PTL DEF AgentSpec
-----------------------------------------------------------------------------
(* The three readings of a pack are of three moments, in order.             *)

ReadingsInOrder ==
    /\ \A i \in Instances : count[i] <= Len(log)
    /\ \A t \in Threads :
         /\ task[t].pc = "count" => task[t].verified <= Len(log)
         /\ task[t].pc = "stats" => /\ task[t].verified <= Len(log)
                                    /\ task[t].entries <= task[t].counted

PInv == AInv /\ ReadingsInOrder /\ PacksBracket

\* What is counted of a log is counted of every longer one.
LEMMA CountsGrow ==
    ASSUME NEW s \in Seq(Entries), NEW n \in 0..Len(s)
    PROVE  LET part == SubSeq(s, 1, n) IN
           /\ Cardinality(Actions(part)) \in Nat /\ Cardinality(Actions(s)) \in Nat
           /\ Cardinality(Actions(part)) <= Cardinality(Actions(s))
           /\ Cardinality(Actions(s)) <= Len(s)
           /\ Cardinality(Claims(part)) <= Cardinality(Claims(s))
           /\ Inconsistent(part) \subseteq Inconsistent(s)
  <1> DEFINE part == SubSeq(s, 1, n)
  <1>1. /\ part \in Seq(Entries) /\ Len(part) = n /\ Len(s) \in Nat
        /\ \A i \in 1..n : part[i] = s[i]
    OBVIOUS
  <1>2. DOMAIN part = 1..n /\ DOMAIN s = 1..Len(s) /\ 1..n \subseteq 1..Len(s)
    BY <1>1
  <1> HIDE DEF part
  <1>3. /\ Actions(part) \subseteq Actions(s) /\ Claims(part) \subseteq Claims(s)
        /\ Inconsistent(part) \subseteq Inconsistent(s)
    BY <1>1, <1>2 DEF Actions, Claims, Inconsistent
  <1>4. /\ Actions(s) \subseteq 1..Len(s) /\ Claims(s) \subseteq 1..Len(s)
    BY <1>2 DEF Actions, Claims
  <1>5. IsFiniteSet(1..Len(s)) /\ Cardinality(1..Len(s)) = Len(s)
    <2>1. Len(s) \in Int /\ 1 \in Int
      BY <1>1
    <2>2. /\ IsFiniteSet(1..Len(s))
          /\ Cardinality(1..Len(s)) = IF 1 > Len(s) THEN 0 ELSE Len(s) - 1 + 1
      BY <2>1, FS_Interval
    <2> QED BY <1>1, <2>2
  <1>6. /\ IsFiniteSet(Actions(s)) /\ Cardinality(Actions(s)) <= Len(s) /\ IsFiniteSet(Claims(s))
    BY <1>4, <1>5, FS_Subset
  <1>7. /\ IsFiniteSet(Actions(part)) /\ Cardinality(Actions(part)) <= Cardinality(Actions(s))
        /\ Cardinality(Claims(part)) <= Cardinality(Claims(s))
    BY <1>3, <1>6, FS_Subset
  <1>8. Cardinality(Actions(s)) \in Nat /\ Cardinality(Actions(part)) \in Nat
    BY <1>6, <1>7, FS_CardinalityType
  <1> QED BY <1>3, <1>6, <1>7, <1>8 DEF part

LEMMA InitPInv == AgentInit => PInv
  <1> SUFFICES ASSUME AgentInit PROVE PInv
    OBVIOUS
  <1>1. /\ log = << >> /\ count = [i \in Instances |-> 0] /\ task = [t \in Threads |-> Free]
        /\ pack = None
    BY DEF AgentInit, LogInit
  <1>2. ReadingsInOrder
    BY <1>1 DEF ReadingsInOrder, Free
  <1>3. PacksBracket
    BY <1>1 DEF PacksBracket
  <1> QED BY <1>2, <1>3, InitAInv DEF PInv

\* A step that gives no pack.
LEMMA NoPack == pack' = None => PacksBracket'
  BY DEF PacksBracket

\* A thread's step that leaves the counters, or sets its own to the log's length.
LEMMA InOrder ==
    ASSUME AgentTypeOK, ReadingsInOrder, NEW t \in Threads, NEW to,
           log \in Seq(Entries), Len(log') \in Nat, Len(log) <= Len(log'),
           task' = [task EXCEPT ![t] = to],
           \A i \in Instances : count'[i] = count[i] \/ count'[i] = Len(log'),
           to.pc = "count" => to.verified <= Len(log'),
           to.pc = "stats" => to.verified <= Len(log') /\ to.entries <= to.counted
    PROVE  ReadingsInOrder'
  <1>1. \A i \in Instances : count[i] \in Nat
    BY DEF AgentTypeOK
  <1>2. \A i \in Instances : count'[i] <= Len(log')
    BY <1>1 DEF ReadingsInOrder
  <1>3. \A u \in Threads : task'[u] = IF u = t THEN to ELSE task[u]
    BY DEF AgentTypeOK
  <1>4. \A u \in Threads : task[u].pc \in {"count", "stats"} => task[u].verified \in Nat
    BY DEF AgentTypeOK, Tasks, Free, Attested
  <1>5. ASSUME NEW u \in Threads
        PROVE  /\ task'[u].pc = "count" => task'[u].verified <= Len(log')
               /\ task'[u].pc = "stats" => /\ task'[u].verified <= Len(log')
                                           /\ task'[u].entries <= task'[u].counted
    <2>1. CASE u = t
      BY <1>3, <2>1
    <2>2. CASE u # t
      BY <1>3, <1>4, <2>2 DEF ReadingsInOrder
    <2> QED BY <2>1, <2>2
  <1> QED BY <1>2, <1>5 DEF ReadingsInOrder

LEMMA ReadInOrder ==
    ASSUME AgentTypeOK, ReadingsInOrder, NEW t \in Threads, NEW to,
           UNCHANGED <<log, count>>, task' = [task EXCEPT ![t] = to],
           to.pc = "count" => to.verified <= Len(log),
           to.pc = "stats" => to.verified <= Len(log) /\ to.entries <= to.counted
    PROVE  ReadingsInOrder'
  <1>1. log \in Seq(Entries) /\ Len(log') \in Nat /\ Len(log) <= Len(log') /\ Len(log') = Len(log)
    BY DEF AgentTypeOK
  <1>2. \A i \in Instances : count'[i] = count[i] \/ count'[i] = Len(log')
    OBVIOUS
  <1>3. /\ to.pc = "count" => to.verified <= Len(log')
        /\ to.pc = "stats" => to.verified <= Len(log') /\ to.entries <= to.counted
    BY <1>1
  <1> QED BY <1>1, <1>2, <1>3, InOrder

LEMMA ReadStatsBrackets ==
    ASSUME PInv, NEW t \in Threads, ReadStats(t)
    PROVE  PacksBracket'
  <1> DEFINE k == task[t]
             verified == SubSeq(log, 1, k.verified)
             read == SubSeq(log, 1, Len(log))
  <1>1. log \in Seq(Entries) /\ Len(log) \in Nat /\ task[t] \in Tasks
    BY DEF PInv, AInv, AgentTypeOK
  <1>2. /\ k.pc = "stats" /\ log' = log
        /\ pack' = [verified |-> k.verified, counted |-> k.counted, read |-> Len(log),
                    entries  |-> k.entries, total |-> Cardinality(Actions(log)),
                    recorded |-> Cardinality(Claims(log)),
                    all_consistent |-> Inconsistent(log) = {}]
    BY DEF ReadStats, Step
  <1>3. k.verified \in Nat
    BY <1>1, <1>2 DEF Tasks, Free, Attested
  <1>4. k.verified \in 0..Len(log) /\ k.entries <= k.counted
    BY <1>1, <1>2, <1>3 DEF PInv, ReadingsInOrder
  <1>5. read = log
    BY <1>1
  <1>6. /\ pack'.verified = k.verified /\ pack'.read = Len(log) /\ pack'.entries <= pack'.counted
        /\ pack'.total = Cardinality(Actions(log)) /\ pack'.recorded = Cardinality(Claims(log))
        /\ pack'.all_consistent <=> Inconsistent(log) = {}
    BY <1>2, <1>4
  <1> HIDE DEF k
  <1>7. /\ pack'.total \in Cardinality(Actions(verified)) .. pack'.read
        /\ pack'.recorded >= Cardinality(Claims(verified))
        /\ Inconsistent(log) = {} => Inconsistent(verified) = {}
    <2>1. /\ Cardinality(Actions(verified)) \in Nat /\ Cardinality(Actions(log)) \in Nat
          /\ Cardinality(Actions(verified)) <= Cardinality(Actions(log))
          /\ Cardinality(Actions(log)) <= Len(log)
          /\ Cardinality(Claims(verified)) <= Cardinality(Claims(log))
          /\ Inconsistent(verified) \subseteq Inconsistent(log)
      BY <1>1, <1>4, CountsGrow
    <2> QED BY <1>1, <1>6, <2>1
  <1> HIDE DEF verified, read
  <1> QED BY <1>2, <1>5, <1>6, <1>7 DEF PacksBracket, verified, read

LEMMA NextPInv == PInv /\ [AgentNext]_vars => PInv'
  <1> SUFFICES ASSUME PInv, [AgentNext]_vars PROVE ReadingsInOrder' /\ PacksBracket'
    BY NextAInv DEF PInv
  <1>0. /\ AgentTypeOK /\ ReadingsInOrder /\ log \in Seq(Entries) /\ Len(log) \in Nat
    BY DEF PInv, AInv, AgentTypeOK
  <1>1. ASSUME NEW t \in Threads, NEW c \in Classes, ReadKnown(t, c)
        PROVE  ReadingsInOrder' /\ PacksBracket'
    <2> DEFINE to == [pc |-> "service", class |-> c, known |-> IsKnown(InstanceOf[t], c)]
    <2>1. UNCHANGED <<log, count>> /\ task' = [task EXCEPT ![t] = to] /\ pack' = None
      BY <1>1 DEF ReadKnown, Step
    <2>2. to.pc = "service"
      OBVIOUS
    <2> HIDE DEF to
    <2> QED BY <1>0, <2>1, <2>2, NoPack, ReadInOrder
  <1>2. ASSUME NEW t \in Threads, ReadService(t)
        PROVE  ReadingsInOrder' /\ PacksBracket'
    <2> DEFINE to == [pc |-> "append", known |-> task[t].known,
                      expected |-> ServiceFor(InstanceOf[t], task[t].class),
                      class |-> task[t].class, status |-> Status(task[t].class, task[t].known)]
    <2>1. UNCHANGED <<log, count>> /\ task' = [task EXCEPT ![t] = to] /\ pack' = None
      BY <1>2 DEF ReadService, Step
    <2>2. to.pc = "append"
      OBVIOUS
    <2> HIDE DEF to
    <2> QED BY <1>0, <2>1, <2>2, NoPack, ReadInOrder
  <1>3. ASSUME NEW t \in Threads, NEW consistent \in BOOLEAN, AppendRecord(t, consistent)
        PROVE  ReadingsInOrder' /\ PacksBracket'
    <2>1. /\ Len(log') = Len(log) + 1 /\ task' = [task EXCEPT ![t] = Free] /\ pack' = None
          /\ count' = [count EXCEPT ![InstanceOf[t]] = Len(log')]
      BY <1>0, <1>3 DEF AppendRecord, Step
    <2>2. \A i \in Instances : count'[i] = count[i] \/ count'[i] = Len(log')
      BY <1>0, <2>1 DEF AgentTypeOK
    <2>3. Free.pc = "idle" /\ Len(log') \in Nat /\ Len(log) <= Len(log')
      BY <1>0, <2>1 DEF Free
    <2> QED BY <1>0, <2>1, <2>2, <2>3, NoPack, InOrder
  <1>4. ASSUME NEW t \in Threads, VerifyLog(t)
        PROVE  ReadingsInOrder' /\ PacksBracket'
    <2> DEFINE to == [pc |-> "count", verified |-> Len(log)]
    <2>1. UNCHANGED <<log, count>> /\ task' = [task EXCEPT ![t] = to] /\ pack' = None
      BY <1>4 DEF VerifyLog, Step
    <2>2. to.pc = "count" /\ to.verified <= Len(log)
      BY <1>0
    <2> HIDE DEF to
    <2> QED BY <1>0, <2>1, <2>2, NoPack, ReadInOrder
  <1>5. ASSUME NEW t \in Threads, ReadCount(t)
        PROVE  ReadingsInOrder' /\ PacksBracket'
    <2>1. task[t].pc = "count" /\ count[InstanceOf[t]] <= Len(log)
      BY <1>0, <1>5 DEF ReadCount, ReadingsInOrder
    <2>2. task[t].verified <= Len(log)
      BY <1>0, <2>1 DEF ReadingsInOrder
    <2> DEFINE to == [pc |-> "stats", verified |-> task[t].verified,
                      entries |-> count[InstanceOf[t]], counted |-> Len(log)]
    <2>3. UNCHANGED <<log, count>> /\ task' = [task EXCEPT ![t] = to] /\ pack' = None
      BY <1>5 DEF ReadCount, Step
    <2>4. to.pc = "stats" /\ to.verified <= Len(log) /\ to.entries <= to.counted
      BY <2>1, <2>2
    <2> HIDE DEF to
    <2> QED BY <1>0, <2>3, <2>4, NoPack, ReadInOrder
  <1>6. ASSUME NEW t \in Threads, ReadStats(t)
        PROVE  ReadingsInOrder' /\ PacksBracket'
    <2>1. UNCHANGED <<log, count>> /\ task' = [task EXCEPT ![t] = Free] /\ Free.pc = "idle"
      BY <1>6 DEF ReadStats, Step, Free
    <2> QED BY <1>0, <1>6, <2>1, ReadInOrder, ReadStatsBrackets
  <1>7. CASE AppendOther
    <2>1. Len(log') = Len(log) + 1 /\ UNCHANGED <<count, task>> /\ pack' = None
      BY <1>0, <1>7 DEF AppendOther
    <2>2. /\ \A i \in Instances : count[i] \in Nat
          /\ \A u \in Threads : task[u].pc \in {"count", "stats"} => task[u].verified \in Nat
      BY <1>0 DEF AgentTypeOK, Tasks, Free, Attested
    <2> QED BY <1>0, <2>1, <2>2, NoPack DEF ReadingsInOrder
  <1>8. CASE pack' = None /\ UNCHANGED <<log, count, task>>
    BY <1>0, <1>8, NoPack DEF ReadingsInOrder
  <1>9. CASE UNCHANGED vars
    BY <1>0, <1>9 DEF vars, agentVars, ReadingsInOrder, PacksBracket, PInv
  <1> QED BY <1>1, <1>2, <1>3, <1>4, <1>5, <1>6, <1>7, <1>8, <1>9 DEF AgentNext

(***************************************************************************)
(* THEOREM PacksAlwaysBracket (agent.py:177-208).  Whatever is appended     *)
(* between the three readings of a pack, by threads of any processes,       *)
(* PacksBracket holds of it.                                                *)
(***************************************************************************)
THEOREM PacksAlwaysBracket == AgentSpec => []PacksBracket
  <1>1. PInv => PacksBracket
    BY DEF PInv
  <1> QED BY <1>1, InitPInv, NextPInv, PTL DEF AgentSpec
=============================================================================
