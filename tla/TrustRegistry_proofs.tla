------------------------ MODULE TrustRegistry_proofs ------------------------
(***************************************************************************)
(* Theorems about TrustRegistry, for any signers, keys and bound: two for   *)
(* any number of registries on the store, the others for one that has it to *)
(* itself.  A replay is a recursion on the records; what it knows after the *)
(* k-th of them follows from the records alone (first half), and which      *)
(* records there can be from the registry that wrote them (second half).    *)
(***************************************************************************)
EXTENDS TrustRegistry, NatRecursion

USE TrustAssumption

Dictionary == [Signers -> Binding \cup {None}]

\* What the first k records of a store tell.
Learned(log, k) == Replay(SubSeq(log, 1, k))

-----------------------------------------------------------------------------
(* Replay *)

LEMMA ApplyType ==
    ASSUME NEW st \in Dictionary, NEW rec \in Record
    PROVE  Apply(st, rec) \in Dictionary
<1> DEFINE cur == st[rec.signer]
<1>1. cur \in Binding \cup {None} /\ rec.signer \in Signers
  BY DEF Dictionary, Record
<1>2. CASE Ignored(cur, rec)
  BY <1>2 DEF Apply
<1>3. CASE ~Ignored(cur, rec) /\ rec.action = "revoke"
  <2>1. cur \in Binding
    BY <1>1, <1>3 DEF Ignored
  <2>2. [cur EXCEPT !.revoked = TRUE] \in Binding
    BY <2>1 DEF Binding
  <2> QED BY <1>1, <1>3, <2>2 DEF Apply, Dictionary
<1>4. CASE ~Ignored(cur, rec) /\ rec.action # "revoke"
  <2>1. Pin(rec.pubkey, rec.pq) \in Binding
    BY <1>4 DEF Pin, Binding, Record
  <2> QED BY <1>1, <1>4, <2>1 DEF Apply, Dictionary
<1> QED BY <1>2, <1>3, <1>4

\* The recursion of a replay defines a function, step by step.
LEMMA ReplayDefined ==
    ASSUME NEW log \in Seq(Record)
    PROVE  \E known \in [0..Len(log) -> Dictionary] :
              /\ known[0] = Nobody
              /\ \A n \in 1..Len(log) : known[n] = Apply(known[n - 1], log[n])
              /\ Replay(log) = known[Len(log)]
<1> DEFINE step == [n \in 1..Len(log) |-> [st \in Dictionary |-> Apply(st, log[n])]]
           F(g) == [n \in 0..Len(log) |->
                      IF n = 0 THEN Nobody ELSE Apply(g[n - 1], log[n])]
           K == CHOOSE g : g = F(g)
<1>1. Len(log) \in Nat /\ Nobody \in Dictionary
  BY DEF Nobody, Dictionary
<1>2. step \in [1..Len(log) -> [Dictionary -> Dictionary]]
  BY ApplyType
<1>3. PICK k : k \in Runs(Dictionary, Nobody, step, Len(log))
  <2> HIDE DEF step, F, K
  <2>1. Runs(Dictionary, Nobody, step, Len(log)) # {}
    BY <1>1, <1>2, RunExists, Zenon
  <2> QED BY <2>1
<1>4. k \in [0..Len(log) -> Dictionary] /\ k[0] = Nobody
  BY <1>3 DEF Runs
<1>5. ASSUME NEW n \in 1..Len(log) PROVE k[n] = Apply(k[n - 1], log[n])
  <2>1. k[n] = step[n][k[n - 1]] /\ k[n - 1] \in Dictionary
    BY <1>3, <1>4, SMTT(20) DEF Runs
  <2> QED BY <2>1
<1>6. k = F(k)
  BY <1>4, <1>5
<1>7. K = F(K)
  BY <1>6, Zenon
<1>8. Replay(log) = K[Len(log)]
  BY DEF Replay
<1> HIDE DEF K
<1>9. K[0] = Nobody /\ \A n \in 1..Len(log) : K[n] = Apply(K[n - 1], log[n])
  BY <1>1, <1>7
<1>10. K \in [0..Len(log) -> Dictionary]
  <2> DEFINE Typed == {n \in 0..Len(log) : K[n] \in Dictionary}
  <2>1. 0 \in Typed
    BY <1>1, <1>9
  <2>2. ASSUME NEW n \in 0..(Len(log) - 1), n \in Typed PROVE n + 1 \in Typed
    <3>1. n + 1 \in 1..Len(log) /\ K[n + 1] = Apply(K[n], log[n + 1])
      BY <1>1, <1>9
    <3> QED BY <3>1, <2>2, ApplyType
  <2>3. 0 \in Int /\ Len(log) \in Int
    BY <1>1
  <2>4. \A n \in 0..Len(log) : n \in Typed
    <3> HIDE DEF Typed
    <3> QED BY <2>1, <2>2, <2>3, Upward
  <2> QED BY <1>7, <2>4
<1> QED BY <1>8, <1>9, <1>10

LEMMA PrefixOf ==
    ASSUME NEW S, NEW log \in Seq(S), NEW k \in 0..Len(log)
    PROVE  /\ SubSeq(log, 1, k) \in Seq(S)
           /\ Len(SubSeq(log, 1, k)) = k
           /\ \A i \in 1..k : SubSeq(log, 1, k)[i] = log[i]
OBVIOUS

\* A replay that goes on past the k-th record knew, after it, what the first k tell.
LEMMA ReplayPasses ==
    ASSUME NEW log \in Seq(Record), NEW known,
           known[0] = Nobody,
           \A n \in 1..Len(log) : known[n] = Apply(known[n - 1], log[n]),
           NEW k \in 0..Len(log)
    PROVE  Learned(log, k) = known[k]
<1> DEFINE part == SubSeq(log, 1, k)
<1>1. part \in Seq(Record) /\ Len(part) = k /\ \A i \in 1..k : part[i] = log[i]
  BY PrefixOf
<1> HIDE DEF part
<1>2. PICK f : /\ f[0] = Nobody
               /\ \A n \in 1..Len(part) : f[n] = Apply(f[n - 1], part[n])
               /\ Replay(part) = f[Len(part)]
  BY <1>1, ReplayDefined
<1> DEFINE Agrees == {n \in 0..k : f[n] = known[n]}
<1>3. 0 \in Agrees
  BY <1>2
<1>4. ASSUME NEW n \in 0..(k - 1), n \in Agrees PROVE n + 1 \in Agrees
  <2>1. /\ n + 1 \in 1..k /\ n + 1 \in 1..Len(log) /\ n + 1 \in 0..k
        /\ (n + 1) - 1 = n
    OBVIOUS
  <2>2. f[n + 1] = Apply(f[n], part[n + 1]) /\ part[n + 1] = log[n + 1]
    BY <1>1, <1>2, <2>1
  <2>3. known[n + 1] = Apply(known[n], log[n + 1])
    BY <2>1
  <2> QED BY <1>4, <2>1, <2>2, <2>3
<1>5. k \in Agrees
  <2>1. 0 \in Int /\ k \in Int /\ k \in 0..k
    OBVIOUS
  <2> HIDE DEF Agrees
  <2> QED BY <1>3, <1>4, <2>1, Upward
<1> QED BY <1>1, <1>2, <1>5 DEF Learned, part

\* The records tell one after the other.
LEMMA LearnedOf ==
    ASSUME NEW log \in Seq(Record)
    PROVE  /\ Learned(log, 0) = Nobody
           /\ \A k \in 1..Len(log) : Learned(log, k) = Apply(Learned(log, k - 1), log[k])
           /\ \A k \in 0..Len(log) : Learned(log, k) \in Dictionary
           /\ Learned(log, Len(log)) = Replay(log)
<1>1. PICK known \in [0..Len(log) -> Dictionary] :
         /\ known[0] = Nobody
         /\ \A n \in 1..Len(log) : known[n] = Apply(known[n - 1], log[n])
         /\ Replay(log) = known[Len(log)]
  BY ReplayDefined
<1>2. \A k \in 0..Len(log) : Learned(log, k) = known[k]
  BY <1>1, ReplayPasses
<1>3. Len(log) \in 0..Len(log) /\ 0 \in 0..Len(log)
  OBVIOUS
<1>4. \A k \in 0..Len(log) : Learned(log, k) \in Dictionary
  BY <1>1, <1>2
<1>5. ASSUME NEW k \in 1..Len(log)
      PROVE  Learned(log, k) = Apply(Learned(log, k - 1), log[k])
  <2>1. k \in 0..Len(log) /\ k - 1 \in 0..Len(log)
    OBVIOUS
  <2> QED BY <1>1, <1>2, <2>1
<1> QED BY <1>1, <1>2, <1>3, <1>4, <1>5

\* What the first records tell does not depend on what follows them.
LEMMA LearnedOfPrefix ==
    ASSUME NEW log \in Seq(Record), NEW k \in 0..Len(log), NEW j \in 0..k
    PROVE  Learned(SubSeq(log, 1, k), j) = Learned(log, j)
<1>1. SubSeq(SubSeq(log, 1, k), 1, j) = SubSeq(log, 1, j)
  OBVIOUS
<1> QED BY <1>1 DEF Learned

LEMMA LearnedOfAppend ==
    ASSUME NEW log \in Seq(Record), NEW rec \in Record, NEW j \in 0..Len(log)
    PROVE  Learned(Append(log, rec), j) = Learned(log, j)
<1>1. SubSeq(Append(log, rec), 1, j) = SubSeq(log, 1, j)
  OBVIOUS
<1> QED BY <1>1 DEF Learned

-----------------------------------------------------------------------------
(* What the records of a store tell of a signer *)

\* What a signer's binding becomes by a record of that signer.
Then(cur, rec) == IF Ignored(cur, rec) THEN cur
                  ELSE IF rec.action = "revoke" THEN [cur EXCEPT !.revoked = TRUE]
                  ELSE Pin(rec.pubkey, rec.pq)

LEMMA AppliedTo ==
    ASSUME NEW st \in Dictionary, NEW rec \in Record, NEW s \in Signers
    PROVE  Apply(st, rec)[s] = IF rec.signer = s THEN Then(st[s], rec) ELSE st[s]
BY DEF Apply, Then, Dictionary, Record

LEMMA LearnedStep ==
    ASSUME NEW log \in Seq(Record), NEW k \in 1..Len(log), NEW s \in Signers
    PROVE  /\ Learned(log, k - 1)[s] \in Binding \cup {None}
           /\ Learned(log, k)[s] = IF log[k].signer = s THEN Then(Learned(log, k - 1)[s], log[k])
                                                        ELSE Learned(log, k - 1)[s]
<1>1. k - 1 \in 0..Len(log) /\ log[k] \in Record
  OBVIOUS
<1>2. Learned(log, k - 1) \in Dictionary
  BY <1>1, LearnedOf
<1>3. Learned(log, k) = Apply(Learned(log, k - 1), log[k])
  BY LearnedOf
<1> QED BY <1>1, <1>2, <1>3, AppliedTo DEF Dictionary

\* The kinds of record, and what each makes of a binding.
LEMMA RecordKinds ==
    ASSUME NEW rec \in Record, NEW cur \in Binding \cup {None}
    PROVE  /\ rec.action = "trust" =>
                /\ rec.pubkey \in Keys /\ rec.pq \in PqKeys \cup {None}
                /\ Then(cur, rec) = IF IsRevoked(cur) THEN cur ELSE Pin(rec.pubkey, rec.pq)
           /\ rec.action = "rotate" =>
                /\ rec.pubkey \in Keys /\ rec.pq \in PqKeys \cup {None}
                /\ Then(cur, rec) = Pin(rec.pubkey, rec.pq)
           /\ rec.action = "revoke" =>
                /\ rec.pq = None
                /\ cur = None => Then(cur, rec) = None
                /\ cur # None => Then(cur, rec) = [cur EXCEPT !.revoked = TRUE]
           /\ rec.action \in {"trust", "rotate", "revoke"}
           /\ rec.signer \in Signers /\ rec.decided \in BOOLEAN
BY DEF Record, Then, Ignored, IsRevoked

LEMMA NoneIsNothing ==
    None \notin Binding /\ None \notin Keys /\ None \notin PqKeys /\ None \notin Call
OBVIOUS

LEMMA RevokeRecord ==
    ASSUME NEW rec \in Record, NEW b \in Binding, rec.action = "revoke"
    PROVE  Then(b, rec) = [b EXCEPT !.revoked = TRUE]
BY NoneIsNothing DEF Then, Ignored

LEMMA PinFields ==
    ASSUME NEW k \in Keys, NEW q \in PqKeys \cup {None}
    PROVE  /\ Pin(k, q) \in Binding /\ Pin(k, q) # None
           /\ Pin(k, q).pubkey = k /\ Pin(k, q).pq = q /\ ~Pin(k, q).revoked
           /\ PqOf(Pin(k, q)) = q /\ ~IsRevoked(Pin(k, q))
<1>1. Pin(k, q) \in Binding
  BY DEF Pin, Binding
<1>2. Pin(k, q) # None
  BY <1>1, NoneIsNothing
<1> QED BY <1>1, <1>2 DEF Pin, PqOf, IsRevoked

LEMMA RevokedFields ==
    ASSUME NEW b \in Binding
    PROVE  LET c == [b EXCEPT !.revoked = TRUE] IN
           /\ c \in Binding /\ c # None /\ c.pubkey = b.pubkey /\ c.pq = b.pq
           /\ PqOf(c) = PqOf(b) /\ IsRevoked(c)
<1>1. [b EXCEPT !.revoked = TRUE] \in Binding
  BY DEF Binding
<1>2. [b EXCEPT !.revoked = TRUE] # None /\ b # None
  BY <1>1, NoneIsNothing
<1> QED BY <1>1, <1>2 DEF Binding, PqOf, IsRevoked

Between(log, p, m, s) == {n \in (p + 1)..m : log[n].signer = s}

\* A heeded revocation stays until a rotation.
LEMMA RevokedLater ==
    ASSUME NEW log \in Seq(Record), NEW p \in 1..Len(log), NEW m \in p..Len(log),
           NEW s \in Signers, log[p].signer = s, log[p].action = "revoke",
           Learned(log, p - 1)[s] # None,
           \A n \in Between(log, p, m, s) : log[n].action # "rotate"
    PROVE  IsRevoked(Learned(log, m)[s])
<1> DEFINE R == {k \in p..m : IsRevoked(Learned(log, k)[s])}
<1>1. p \in R
  <2> DEFINE b == Learned(log, p - 1)[s]
  <2>1. b \in Binding /\ log[p] \in Record
    BY LearnedStep
  <2>2. Learned(log, p)[s] = Then(b, log[p])
    BY LearnedStep
  <2>3. p \in p..m
    OBVIOUS
  <2> HIDE DEF b
  <2>4. IsRevoked(Then(b, log[p]))
    BY <2>1, RecordKinds, RevokedFields, NoneIsNothing
  <2> QED BY <2>2, <2>3, <2>4
<1>2. ASSUME NEW k \in p..(m - 1), k \in R PROVE k + 1 \in R
  <2> DEFINE b == Learned(log, k)[s]
  <2>1. k + 1 \in 1..Len(log) /\ (k + 1) - 1 = k /\ log[k + 1] \in Record /\ k + 1 \in p..m
    OBVIOUS
  <2>2. b \in Binding /\ IsRevoked(b)
    BY <1>2, <2>1, LearnedStep DEF IsRevoked
  <2>3. Learned(log, k + 1)[s] = IF log[k + 1].signer = s THEN Then(b, log[k + 1]) ELSE b
    BY <2>1, LearnedStep
  <2>4. CASE log[k + 1].signer = s
    <3>1. log[k + 1].action # "rotate"
      BY <2>1, <2>4 DEF Between
    <3>2. IsRevoked(Then(b, log[k + 1]))
      <4> HIDE DEF b
      <4>1. CASE log[k + 1].action = "trust"
        BY <4>1, <2>1, <2>2, RecordKinds
      <4>2. CASE log[k + 1].action = "revoke"
        BY <4>2, <2>1, <2>2, RecordKinds, RevokedFields, NoneIsNothing
      <4> QED BY <3>1, <2>1, <2>2, <4>1, <4>2, RecordKinds
    <3> QED BY <2>1, <2>3, <2>4, <3>2
  <2>5. CASE log[k + 1].signer # s
    BY <2>1, <2>2, <2>3, <2>5
  <2> QED BY <2>4, <2>5
<1>3. \A k \in p..m : k \in R
  <2>1. p \in Int /\ m \in Int
    OBVIOUS
  <2> HIDE DEF R
  <2> QED BY <1>1, <1>2, <2>1, Upward
<1> QED BY <1>3

\* A known signer's key stays while no record rotates it or trusts another.
LEMMA KeyLater ==
    ASSUME NEW log \in Seq(Record), NEW p \in 1..Len(log), NEW m \in p..Len(log),
           NEW s \in Signers, NEW key,
           Learned(log, p)[s] # None, Learned(log, p)[s].pubkey = key,
           \A n \in Between(log, p, m, s) :
              log[n].action = "revoke" \/ (log[n].action = "trust" /\ log[n].pubkey = key)
    PROVE  Learned(log, m)[s] # None /\ Learned(log, m)[s].pubkey = key
<1> DEFINE Same == {k \in p..m : Learned(log, k)[s] # None /\ Learned(log, k)[s].pubkey = key}
<1>1. p \in Same
  OBVIOUS
<1>2. ASSUME NEW k \in p..(m - 1), k \in Same PROVE k + 1 \in Same
  <2> DEFINE b == Learned(log, k)[s]
  <2>1. k + 1 \in 1..Len(log) /\ (k + 1) - 1 = k /\ log[k + 1] \in Record /\ k + 1 \in p..m
    OBVIOUS
  <2>2. b \in Binding /\ b # None /\ b.pubkey = key
    BY <1>2, <2>1, LearnedStep
  <2>3. Learned(log, k + 1)[s] = IF log[k + 1].signer = s THEN Then(b, log[k + 1]) ELSE b
    BY <2>1, LearnedStep
  <2>4. CASE log[k + 1].signer = s
    <3>1. \/ log[k + 1].action = "revoke"
          \/ log[k + 1].action = "trust" /\ log[k + 1].pubkey = key
      BY <2>1, <2>4 DEF Between
    <3>2. Then(b, log[k + 1]) # None /\ Then(b, log[k + 1]).pubkey = key
      <4> HIDE DEF b
      <4>1. CASE log[k + 1].action = "trust"
        BY <3>1, <4>1, <2>1, <2>2, RecordKinds, PinFields
      <4>2. CASE log[k + 1].action = "revoke"
        <5>1. Then(b, log[k + 1]) = [b EXCEPT !.revoked = TRUE]
          BY <4>2, <2>1, <2>2, RevokeRecord
        <5> QED BY <2>2, <5>1, RevokedFields
      <4> QED BY <3>1, <4>1, <4>2
    <3> QED BY <2>1, <2>3, <2>4, <3>2
  <2>5. CASE log[k + 1].signer # s
    BY <2>1, <2>2, <2>3, <2>5
  <2> QED BY <2>4, <2>5
<1>3. \A k \in p..m : k \in Same
  <2>1. p \in Int /\ m \in Int
    OBVIOUS
  <2> HIDE DEF Same
  <2> QED BY <1>1, <1>2, <2>1, Upward
<1> QED BY <1>3

\* A pinned post-quantum key stays while every record that pins a key names it.
LEMMA PqLater ==
    ASSUME NEW log \in Seq(Record), NEW p \in 1..Len(log), NEW m \in p..Len(log),
           NEW s \in Signers, NEW q,
           Learned(log, p)[s] # None, Learned(log, p)[s].pq = q,
           \A n \in Between(log, p, m, s) : log[n].action = "revoke" \/ log[n].pq = q
    PROVE  Learned(log, m)[s] # None /\ Learned(log, m)[s].pq = q
<1> DEFINE Same == {k \in p..m : Learned(log, k)[s] # None /\ Learned(log, k)[s].pq = q}
<1>1. p \in Same
  OBVIOUS
<1>2. ASSUME NEW k \in p..(m - 1), k \in Same PROVE k + 1 \in Same
  <2> DEFINE b == Learned(log, k)[s]
  <2>1. k + 1 \in 1..Len(log) /\ (k + 1) - 1 = k /\ log[k + 1] \in Record /\ k + 1 \in p..m
    OBVIOUS
  <2>2. b \in Binding /\ b # None /\ b.pq = q
    BY <1>2, <2>1, LearnedStep
  <2>3. Learned(log, k + 1)[s] = IF log[k + 1].signer = s THEN Then(b, log[k + 1]) ELSE b
    BY <2>1, LearnedStep
  <2>4. CASE log[k + 1].signer = s
    <3>1. log[k + 1].action = "revoke" \/ log[k + 1].pq = q
      BY <2>1, <2>4 DEF Between
    <3>2. Then(b, log[k + 1]) # None /\ Then(b, log[k + 1]).pq = q
      <4> HIDE DEF b
      <4>1. CASE log[k + 1].action = "revoke"
        <5>1. Then(b, log[k + 1]) = [b EXCEPT !.revoked = TRUE]
          BY <4>1, <2>1, <2>2, RevokeRecord
        <5> QED BY <2>2, <5>1, RevokedFields
      <4>2. CASE log[k + 1].action = "trust"
        BY <3>1, <4>2, <2>1, <2>2, RecordKinds, PinFields
      <4>3. CASE log[k + 1].action = "rotate"
        BY <3>1, <4>3, <2>1, <2>2, RecordKinds, PinFields
      <4> QED BY <2>1, <2>2, <4>1, <4>2, <4>3, RecordKinds
    <3> QED BY <2>1, <2>3, <2>4, <3>2
  <2>5. CASE log[k + 1].signer # s
    BY <2>1, <2>2, <2>3, <2>5
  <2> QED BY <2>4, <2>5
<1>3. \A k \in p..m : k \in Same
  <2>1. p \in Int /\ m \in Int
    OBVIOUS
  <2> HIDE DEF Same
  <2> QED BY <1>1, <1>2, <2>1, Upward
<1> QED BY <1>3

-----------------------------------------------------------------------------
(* Types *)

\* Why trust(), rotate() and revoke() wrote this record over that binding, and
\* what they make of it.
Fits(cur, rec, b) ==
    /\ rec.action = "trust" =>
          /\ ~IsRevoked(cur)
          /\ cur # None => cur.pubkey = rec.pubkey /\ cur.pq = None /\ rec.pq # None
          /\ rec.decided = (rec.pq # None)
          /\ b = Pin(rec.pubkey, rec.pq)
    /\ rec.action = "rotate" =>
          /\ ~rec.decided => /\ rec.pq = PqOf(cur)
                             /\ IsRevoked(cur) => rec.pq = None
          /\ b = Pin(rec.pubkey, rec.pq)
    /\ rec.action = "revoke" => cur # None /\ b = [cur EXCEPT !.revoked = TRUE]

Writes(r) == \E rec \in Record, b \in Binding :
                Submit(r, rec, b) /\ Fits(state[r][rec.signer], rec, b)

LEMMA PqOfBinding ==
    ASSUME NEW cur \in Binding \cup {None}
    PROVE  /\ PqOf(cur) \in PqKeys \cup {None}
           /\ cur # None => PqOf(cur) = cur.pq
           /\ cur = None => PqOf(cur) = None /\ ~IsRevoked(cur)
BY DEF Binding, PqOf, IsRevoked

LEMMA TrustWrites ==
    ASSUME TypeOK, NEW r \in Registries, NEW s \in Signers, NEW k \in Keys,
           NEW q \in PqKeys \cup {None}, Trust(r, s, k, q)
    PROVE  Writes(r)
<1> DEFINE cur == state[r][s]
           rec == [action |-> "trust", signer |-> s, pubkey |-> k, pq |-> q,
                   decided |-> q # None]
           b == Pin(k, IF q # None THEN q ELSE PqOf(cur))
<1>1. cur \in Binding \cup {None} /\ rec \in Record
  BY DEF TypeOK, Record
<1>2. TrustAccepted(cur, k, q) /\ Submit(r, rec, b)
  BY DEF Trust
<1>3. q = None => cur = None
  BY <1>2 DEF TrustAccepted
<1>4. b = Pin(k, q) /\ b \in Binding
  BY <1>1, <1>3, PqOfBinding, PinFields
<1>5. cur # None => cur.pubkey = k /\ cur.pq = None /\ q # None
  BY <1>1, <1>2, PqOfBinding DEF TrustAccepted
<1>6. Fits(state[r][rec.signer], rec, b)
  BY <1>2, <1>4, <1>5 DEF Fits, TrustAccepted
<1> QED BY <1>1, <1>2, <1>4, <1>6 DEF Writes

LEMMA RotateWrites ==
    ASSUME TypeOK, NEW r \in Registries, NEW s \in Signers, NEW k \in Keys,
           NEW q \in PqKeys \cup {None}, NEW drop \in BOOLEAN, Rotate(r, s, k, q, drop)
    PROVE  Writes(r)
<1> DEFINE cur == state[r][s]
           kept == Kept(cur, q, drop)
           rec == [action |-> "rotate", signer |-> s, pubkey |-> k, pq |-> kept,
                   decided |-> q # None \/ drop]
           b == Pin(k, kept)
<1>1. cur \in Binding \cup {None}
  BY DEF TypeOK
<1>2. kept \in PqKeys \cup {None}
  BY <1>1, PqOfBinding DEF Kept
<1>3. rec \in Record /\ b \in Binding
  BY <1>2, PinFields DEF Record
<1>4. RotateAccepted(cur, q, drop) /\ Submit(r, rec, b)
  BY DEF Rotate
<1>5. q = None /\ ~drop => /\ kept = PqOf(cur)
                           /\ IsRevoked(cur) => kept = None
  BY <1>4 DEF RotateAccepted, Kept
<1>6. Fits(state[r][rec.signer], rec, b)
  BY <1>5 DEF Fits
<1> QED BY <1>3, <1>4, <1>6 DEF Writes

LEMMA RevokeWrites ==
    ASSUME TypeOK, NEW r \in Registries, NEW s \in Signers, Revoke(r, s)
    PROVE  Writes(r)
<1> DEFINE cur == state[r][s]
           rec == [action |-> "revoke", signer |-> s, pubkey |-> None, pq |-> None,
                   decided |-> FALSE]
           b == [cur EXCEPT !.revoked = TRUE]
<1>1. cur \in Binding
  BY DEF Revoke, TypeOK
<1>2. rec \in Record /\ b \in Binding /\ cur # None
  BY <1>1, RevokedFields DEF Record
<1>3. Submit(r, rec, b)
  BY DEF Revoke
<1>4. Fits(state[r][rec.signer], rec, b)
  BY <1>2 DEF Fits
<1> QED BY <1>2, <1>3, <1>4 DEF Writes

\* The steps of the specification, the three operations as one.
LEMMA Steps ==
    ASSUME TypeOK, [Next]_vars
    PROVE  \/ \E r \in Registries : \/ Open(r) \/ Writes(r) \/ Sync(r) \/ SyncFails(r)
                                    \/ Return(r) \/ Kill(r)
           \/ PowerLoss
           \/ UNCHANGED vars
BY TrustWrites, RotateWrites, RevokeWrites DEF Next

LEMMA InitTypeOK == Init => TypeOK
BY DEF Init, Ledger!Init, TypeOK, Nobody

LEMMA OpenTypeOK ==
    ASSUME TypeOK, NEW r \in Registries, Open(r)
    PROVE  TypeOK'
<1>1. Replay(store) \in Dictionary
  <2>1. store \in Seq(Record) /\ Len(store) \in 0..Len(store)
    BY DEF TypeOK
  <2> QED BY <2>1, LearnedOf
<1> QED BY <1>1 DEF Open, TypeOK, Dictionary

LEMMA WritesTypeOK ==
    ASSUME TypeOK, NEW r \in Registries, Writes(r)
    PROVE  TypeOK'
<1>1. PICK rec \in Record, b \in Binding : Submit(r, rec, b)
  BY DEF Writes
<1>2. /\ store' = Append(store, rec) /\ store' \in Seq(Record)
      /\ Len(store') = Len(store) + 1 /\ Len(store) \in Nat
      /\ UNCHANGED <<durable, promised, open, state, raised>>
  BY <1>1 DEF Submit, Ledger!Extend, TypeOK
<1> DEFINE c == [signer |-> rec.signer, binding |-> b, pos |-> Len(store) + 1, synced |-> FALSE]
<1>3. c \in Call
  <2>1. rec.signer \in Signers
    BY DEF Record
  <2>2. Len(store) + 1 \in Nat
    BY <1>2
  <2> QED BY <2>1, <2>2 DEF Call
<1>4. call' = [call EXCEPT ![r] = c] /\ c.pos = Len(store')
  BY <1>1, <1>2 DEF Submit
<1> HIDE DEF c
<1>5. call' \in [Registries -> Call \cup {None}]
  BY <1>3, <1>4 DEF TypeOK
<1>6. \A x \in Registries : call'[x] # None => call'[x].pos \in 1..Len(store')
  BY <1>2, <1>4 DEF TypeOK
<1> QED BY <1>2, <1>5, <1>6 DEF TypeOK

LEMMA ReturnTypeOK ==
    ASSUME TypeOK, NEW r \in Registries, Return(r)
    PROVE  TypeOK'
<1>1. call[r] \in Call
  BY DEF Return, TypeOK
<1>2. call[r].signer \in Signers /\ call[r].binding \in Binding
  BY <1>1 DEF Call
<1>3. state' \in [Registries -> [Signers -> Binding \cup {None}]]
  BY <1>2 DEF Return, TypeOK
<1>4. call' \in [Registries -> Call \cup {None}] /\ UNCHANGED <<store, durable, open, raised>>
  BY DEF Return, TypeOK, Ledger!Promise
<1>5. promised' \subseteq 1..durable
  BY DEF Return, TypeOK, Ledger!Promise
<1>6. \A x \in Registries : call'[x] # None => call'[x].pos \in 1..Len(store)
  BY DEF Return, TypeOK
<1> QED BY <1>3, <1>4, <1>5, <1>6 DEF TypeOK

LEMMA PowerLossTypeOK ==
    ASSUME TypeOK, PowerLoss
    PROVE  TypeOK'
<1>1. PICK k \in durable..Len(store) : Ledger!Crash(k)
  BY DEF PowerLoss
<1>2. k \in 0..Len(store) /\ k \in Nat
  BY DEF TypeOK
<1>3. store' = SubSeq(store, 1, k) /\ store' \in Seq(Record) /\ Len(store') = k
  BY <1>1, <1>2, PrefixOf DEF Ledger!Crash, TypeOK
<1>4. durable' = k /\ promised' \subseteq 1..durable'
  BY <1>1, <1>2 DEF Ledger!Crash, TypeOK
<1>5. /\ open' \in [Registries -> BOOLEAN] /\ raised' \in [Registries -> BOOLEAN]
      /\ state' \in [Registries -> [Signers -> Binding \cup {None}]]
      /\ call' = [x \in Registries |-> None]
  BY DEF PowerLoss, Close, TypeOK, Nobody
<1> QED BY <1>2, <1>3, <1>4, <1>5 DEF TypeOK

LEMMA NextTypeOK ==
    ASSUME TypeOK, [Next]_vars
    PROVE  TypeOK'
<1>1. ASSUME NEW r \in Registries, Sync(r) PROVE TypeOK'
  <2>1. call[r] \in Call /\ [call[r] EXCEPT !.synced = TRUE] \in Call
    BY <1>1 DEF Sync, TypeOK, Call
  <2>2. call' = [call EXCEPT ![r] = [call[r] EXCEPT !.synced = TRUE]]
    BY <1>1 DEF Sync
  <2>3. call' \in [Registries -> Call \cup {None}]
    BY <2>1, <2>2 DEF TypeOK
  <2>4. \A x \in Registries : call'[x] # None => call'[x].pos \in 1..Len(store)
    BY <1>1, <2>1, <2>2 DEF TypeOK, Call, Sync
  <2> QED BY <1>1, <2>3, <2>4 DEF Sync, Ledger!Persist, TypeOK
<1>2. ASSUME NEW r \in Registries, SyncFails(r) PROVE TypeOK'
  BY <1>2 DEF SyncFails, TypeOK
<1>3. ASSUME NEW r \in Registries, Kill(r) PROVE TypeOK'
  BY <1>3 DEF Kill, Close, TypeOK, Nobody
<1>4. CASE UNCHANGED vars
  BY <1>4 DEF vars, TypeOK
<1> QED
  BY <1>1, <1>2, <1>3, <1>4, Steps, OpenTypeOK, WritesTypeOK, ReturnTypeOK, PowerLossTypeOK

\* Every variable keeps its type, for any registries, signers and keys
\* (trust.py:37-169).
THEOREM TrustTypeOK == Spec => []TypeOK
<1>1. Init => TypeOK
  BY InitTypeOK
<1>2. TypeOK /\ [Next]_vars => TypeOK'
  BY NextTypeOK
<1> QED BY <1>1, <1>2, PTL DEF Spec

-----------------------------------------------------------------------------
(* Stores that share their first records *)

Shares(a, b, k) ==
    /\ a \in Seq(Record) /\ b \in Seq(Record) /\ k \in 0..Len(a) /\ k \in 0..Len(b)
    /\ \A i \in 1..k : a[i] = b[i]
    /\ \A j \in 0..k : Learned(a, j) = Learned(b, j)

LEMMA WritesShares ==
    ASSUME TypeOK, NEW r \in Registries, NEW rec \in Record, NEW b, Submit(r, rec, b)
    PROVE  /\ Shares(store', store, Len(store))
           /\ Len(store') = Len(store) + 1 /\ store'[Len(store')] = rec
           /\ \A s \in Signers :
                 Replay(store')[s] = IF rec.signer = s THEN Then(Replay(store)[s], rec)
                                                       ELSE Replay(store)[s]
<1>1. store \in Seq(Record) /\ Len(store) \in Nat
  BY DEF TypeOK
<1>2. store' = Append(store, rec)
  BY DEF Submit, Ledger!Extend
<1>3. /\ store' \in Seq(Record) /\ Len(store') = Len(store) + 1
      /\ \A i \in 1..Len(store) : store'[i] = store[i]
      /\ store'[Len(store')] = rec
  BY <1>1, <1>2
<1>4. \A j \in 0..Len(store) : Learned(store', j) = Learned(store, j)
  BY <1>1, <1>2, LearnedOfAppend
<1>5. Shares(store', store, Len(store))
  BY <1>1, <1>3, <1>4 DEF Shares
<1>6. Learned(store', Len(store)) = Replay(store) /\ Learned(store', Len(store')) = Replay(store')
  BY <1>1, <1>3, <1>4, LearnedOf
<1>7. Len(store') \in 1..Len(store') /\ Len(store') - 1 = Len(store)
  BY <1>1, <1>3
<1>8. ASSUME NEW s \in Signers
      PROVE  Replay(store')[s] = IF rec.signer = s THEN Then(Replay(store)[s], rec)
                                                   ELSE Replay(store)[s]
  BY <1>3, <1>6, <1>7, LearnedStep
<1> QED BY <1>3, <1>5, <1>8

LEMMA PowerLossShares ==
    ASSUME TypeOK, PowerLoss
    PROVE  /\ Shares(store', store, Len(store')) /\ Len(store') \in durable..Len(store)
           /\ state' = [x \in Registries |-> Nobody] /\ call' = [x \in Registries |-> None]
           /\ open' = [x \in Registries |-> FALSE] /\ promised' = promised
<1>1. PICK k \in durable..Len(store) : store' = SubSeq(store, 1, k)
  BY DEF PowerLoss, Ledger!Crash
<1>2. k \in 0..Len(store) /\ store \in Seq(Record)
  BY DEF TypeOK
<1>3. store' \in Seq(Record) /\ Len(store') = k /\ \A i \in 1..k : store'[i] = store[i]
  BY <1>1, <1>2, PrefixOf
<1>4. \A j \in 0..k : Learned(store', j) = Learned(store, j)
  BY <1>1, <1>2, LearnedOfPrefix
<1>5. Shares(store', store, Len(store'))
  BY <1>2, <1>3, <1>4 DEF Shares
<1>6. /\ state' = [x \in Registries |-> Nobody] /\ call' = [x \in Registries |-> None]
      /\ open' = [x \in Registries |-> FALSE] /\ promised' = promised
  BY DEF PowerLoss, Close, Ledger!Crash, TypeOK
<1> QED BY <1>3, <1>5, <1>6

-----------------------------------------------------------------------------
(* Any number of registries *)

\* Only a signer that the records before it know is revoked.
Founded(log) == \A n \in 1..Len(log) :
    log[n].action = "revoke" => Learned(log, n - 1)[log[n].signer] # None

\* A dictionary, and an operation under way, know no signer the store does not.
StoreKnows ==
    /\ \A r \in Registries, s \in Signers : state[r][s] # None => Replay(store)[s] # None
    /\ \A r \in Registries : call[r] # None => Replay(store)[call[r].signer] # None

IInv == TypeOK /\ Founded(store) /\ StoreKnows

LEMMA FoundedPrefix ==
    ASSUME NEW a, NEW b, NEW k, Shares(a, b, k), Founded(b), Len(a) = k
    PROVE  Founded(a)
<1> SUFFICES ASSUME NEW n \in 1..Len(a), a[n].action = "revoke"
             PROVE  Learned(a, n - 1)[a[n].signer] # None
  BY DEF Founded
<1>1. n \in 1..k /\ n \in 1..Len(b) /\ n - 1 \in 0..k
  BY DEF Shares
<1> QED BY <1>1 DEF Shares, Founded

LEMMA WritesKnown ==
    ASSUME IInv, NEW r \in Registries, Writes(r)
    PROVE  Founded(store)' /\ StoreKnows'
<1>1. PICK rec \in Record, b \in Binding :
         Submit(r, rec, b) /\ Fits(state[r][rec.signer], rec, b)
  BY DEF Writes
<1>2. /\ Shares(store', store, Len(store))
      /\ Len(store') = Len(store) + 1 /\ store'[Len(store')] = rec
      /\ \A s \in Signers :
            Replay(store')[s] = IF rec.signer = s THEN Then(Replay(store)[s], rec)
                                                  ELSE Replay(store)[s]
  BY <1>1, WritesShares DEF IInv
<1>3. rec.signer \in Signers /\ r \in Registries
  BY DEF Record
<1> DEFINE cur == Replay(store)[rec.signer]
<1>4. cur \in Binding \cup {None}
  <2>1. store \in Seq(Record) /\ Len(store) \in 0..Len(store)
    BY DEF IInv, TypeOK
  <2> QED BY <2>1, <1>3, LearnedOf DEF Dictionary
<1>5. rec.action = "revoke" => cur # None
  BY <1>1, <1>3 DEF Fits, IInv, StoreKnows
<1>6. Then(cur, rec) # None
  <2> HIDE DEF cur
  <2>1. CASE rec.action = "trust"
    BY <1>4, <2>1, RecordKinds, PinFields DEF IsRevoked
  <2>2. CASE rec.action = "rotate"
    BY <1>4, <2>2, RecordKinds, PinFields
  <2>3. CASE rec.action = "revoke"
    <3>1. cur \in Binding /\ Then(cur, rec) = [cur EXCEPT !.revoked = TRUE]
      BY <1>4, <1>5, <2>3, RevokeRecord
    <3> QED BY <3>1, RevokedFields
  <2> QED BY <1>4, <2>1, <2>2, <2>3, RecordKinds
<1>7. \A s \in Signers : Replay(store)[s] # None => Replay(store')[s] # None
  BY <1>2, <1>6
<1>8. Replay(store')[rec.signer] # None
  BY <1>2, <1>3, <1>6
<1>9. StoreKnows'
  <2>1. state' = state
    BY <1>1 DEF Submit
  <2>2. \A x \in Registries : call'[x] # None =>
           \/ call'[x].signer = rec.signer
           \/ call[x] # None /\ call'[x].signer = call[x].signer /\ call[x].signer \in Signers
    <3>1. \A x \in Registries : x # r => call'[x] = call[x]
      BY <1>1 DEF Submit, IInv, TypeOK
    <3>2. call'[r].signer = rec.signer
      BY <1>1 DEF Submit, IInv, TypeOK
    <3>3. \A x \in Registries : call[x] # None => call[x].signer \in Signers
      BY DEF IInv, TypeOK, Call
    <3> QED BY <3>1, <3>2, <3>3
  <2> QED BY <1>7, <1>8, <2>1, <2>2 DEF IInv, StoreKnows
<1>10. Founded(store)'
  <2> SUFFICES ASSUME NEW n \in 1..Len(store'), store'[n].action = "revoke"
               PROVE  Learned(store', n - 1)[store'[n].signer] # None
    BY DEF Founded
  <2>1. store \in Seq(Record) /\ Len(store) \in Nat
    BY DEF IInv, TypeOK
  <2>2. CASE n = Len(store')
    <3>1. Learned(store', n - 1) = Learned(store, Len(store)) /\ store'[n] = rec
      BY <1>2, <2>1, <2>2 DEF Shares
    <3>2. Learned(store, Len(store)) = Replay(store)
      BY <2>1, LearnedOf
    <3> QED BY <1>5, <3>1, <3>2
  <2>3. CASE n # Len(store')
    <3>1. n \in 1..Len(store) /\ n - 1 \in 0..Len(store)
      BY <1>2, <2>1, <2>3
    <3> QED BY <1>2, <3>1 DEF Shares, IInv, Founded
  <2> QED BY <2>2, <2>3
<1> QED BY <1>9, <1>10

LEMMA ReturnKnown ==
    ASSUME IInv, NEW r \in Registries, Return(r)
    PROVE  StoreKnows'
<1>1. store' = store /\ call[r] # None
  BY DEF Return, Ledger!Promise
<1>2. \A x \in Registries : call'[x] # None => call'[x] = call[x]
  BY DEF Return, IInv, TypeOK
<1>3. \A x \in Registries, s \in Signers :
         state'[x][s] = state[x][s] \/ (x = r /\ s = call[r].signer)
  <2>1. state' = [state EXCEPT ![r] = [state[r] EXCEPT ![call[r].signer] = call[r].binding]]
    BY DEF Return
  <2>2. state \in [Registries -> [Signers -> Binding \cup {None}]]
    BY DEF IInv, TypeOK
  <2> QED BY <2>1, <2>2
<1> QED BY <1>1, <1>2, <1>3 DEF IInv, StoreKnows

LEMMA NextKnown ==
    ASSUME IInv, [Next]_vars
    PROVE  IInv'
<1> USE DEF IInv
<1>1. TypeOK'
  BY NextTypeOK
<1>2. ASSUME NEW r \in Registries, Open(r) PROVE Founded(store)' /\ StoreKnows'
  <2>1. store' = store /\ call' = call
    BY <1>2 DEF Open
  <2>2. \A x \in Registries, s \in Signers :
           state'[x][s] = state[x][s] \/ state'[x][s] = Replay(store)[s]
    BY <1>2 DEF Open, TypeOK
  <2> QED BY <2>1, <2>2 DEF StoreKnows
<1>3. ASSUME NEW r \in Registries, Sync(r) PROVE Founded(store)' /\ StoreKnows'
  <2>1. store' = store /\ state' = state
    BY <1>3 DEF Sync, Ledger!Persist
  <2>2. \A x \in Registries : call'[x] # None =>
           call[x] # None /\ call'[x].signer = call[x].signer
    BY <1>3 DEF Sync, TypeOK, Call
  <2> QED BY <2>1, <2>2 DEF StoreKnows
<1>4. ASSUME NEW r \in Registries, SyncFails(r) PROVE Founded(store)' /\ StoreKnows'
  BY <1>4 DEF SyncFails, StoreKnows, TypeOK
<1>5. ASSUME NEW r \in Registries, Return(r) PROVE Founded(store)' /\ StoreKnows'
  <2>1. store' = store
    BY <1>5 DEF Return, Ledger!Promise
  <2> QED BY <1>5, <2>1, ReturnKnown
<1>6. ASSUME NEW r \in Registries, Kill(r) PROVE Founded(store)' /\ StoreKnows'
  BY <1>6 DEF Kill, Close, StoreKnows, Nobody
<1>7. CASE PowerLoss
  <2>1. Founded(store)'
    BY <1>7, PowerLossShares, FoundedPrefix
  <2>2. /\ \A x \in Registries : state'[x] = Nobody
        /\ \A x \in Registries : call'[x] = None
    BY <1>7, PowerLossShares
  <2> QED BY <1>1, <2>1, <2>2 DEF StoreKnows, Nobody
<1>8. CASE UNCHANGED vars
  <2>1. store' = store /\ state' = state /\ call' = call
    BY <1>8 DEF vars
  <2> QED BY <1>1, <2>1 DEF StoreKnows
<1> QED BY <1>1, <1>2, <1>3, <1>4, <1>5, <1>6, <1>7, <1>8, Steps, WritesKnown

LEMMA InitKnown == Init => IInv
<1> SUFFICES ASSUME Init PROVE IInv
  OBVIOUS
<1>1. Len(store) = 0 /\ state = [r \in Registries |-> Nobody] /\ call = [r \in Registries |-> None]
  BY DEF Init, Ledger!Init
<1> QED BY <1>1, InitTypeOK DEF IInv, Founded, StoreKnows, Nobody

\* The inductive invariant, for any number of registries on the store: what is
\* on file was decided over known signers (trust.py:107-169).
THEOREM TrustInvariant == Spec => []IInv
<1>1. IInv /\ [Next]_vars => IInv'
  BY NextKnown
<1> QED BY <1>1, InitKnown, PTL DEF Spec

LEMMA RevokedHolds == IInv => RevokedStaysRevoked
<1> SUFFICES ASSUME IInv, NEW p \in DOMAIN store, store[p].action = "revoke",
                    ~RotatedAfter(p, store[p].signer)
             PROVE  IsRevoked(Known[store[p].signer])
  BY DEF RevokedStaysRevoked
<1> DEFINE s == store[p].signer
<1>1. store \in Seq(Record) /\ p \in 1..Len(store) /\ Len(store) \in p..Len(store)
  BY DEF IInv, TypeOK
<1>2. s \in Signers
  <2>1. store[p] \in Record
    BY <1>1
  <2> QED BY <2>1 DEF Record
<1>3. Learned(store, p - 1)[s] # None
  BY <1>1 DEF IInv, Founded
<1>4. \A n \in Between(store, p, Len(store), s) : store[n].action # "rotate"
  BY DEF RotatedAfter, After, Between
<1>5. IsRevoked(Learned(store, Len(store))[s])
  <2> HIDE DEF s
  <2>1. store[p].signer = s
    BY DEF s
  <2> QED BY <1>1, <1>2, <1>3, <1>4, <2>1, RevokedLater
<1> QED BY <1>1, <1>5, LearnedOf DEF Known

\* "a revoked key is not silently re-trusted": whoever opens the store after a
\* revocation is on file finds the signer revoked until a rotation, for any
\* number of registries, crashes and failed appends (trust.py:93-105, 161-169).
THEOREM TrustRevoked == Spec => []RevokedStaysRevoked
BY TrustInvariant, RevokedHolds, PTL

-----------------------------------------------------------------------------
(* What a store says of the record at p, and what a dictionary answers *)

HeededIn(log, p) == ~Ignored(Learned(log, p - 1)[log[p].signer], log[p])

\* No record of the signer after p, up to m, ...
NoRotation(log, p, m) == \A n \in Between(log, p, m, log[p].signer) : log[n].action # "rotate"
NoDecision(log, p, m) == \A n \in Between(log, p, m, log[p].signer) : ~log[n].decided

IsTrust(log, p)      == log[p].action = "trust" /\ HeededIn(log, p)
IsPin(log, p)        == log[p].pq # None /\ HeededIn(log, p)
IsRevocation(log, p) == log[p].action = "revoke"

\* The records that came after p went by what it says, until one decided otherwise.
KeyTold(log, p) == IsTrust(log, p) =>
    \A n \in Between(log, p, Len(log), log[p].signer) :
        log[n].action = "trust" /\ NoRotation(log, p, n) => log[n].pubkey = log[p].pubkey

PqTold(log, p) == IsPin(log, p) =>
    \A n \in Between(log, p, Len(log), log[p].signer) :
        NoDecision(log, p, n) => log[n].action = "revoke" \/ log[n].pq = log[p].pq

RevocationTold(log, p) == IsRevocation(log, p) =>
    \A n \in Between(log, p, Len(log), log[p].signer) :
        /\ log[n].action = "rotate" /\ NoRotation(log, p, n - 1)
        /\ log[n].pq # None /\ log[n].pq = PqOf(Learned(log, p)[log[p].signer])
        => log[n].decided

Told(log, p) == KeyTold(log, p) /\ PqTold(log, p) /\ RevocationTold(log, p)

\* A binding of the signer that goes by the record at p as well.
Answers(cur, log, p) ==
    /\ IsTrust(log, p) /\ NoRotation(log, p, Len(log)) =>
          cur # None /\ cur.pubkey = log[p].pubkey
    /\ IsPin(log, p) /\ NoDecision(log, p, Len(log)) =>
          cur # None /\ cur.pq = log[p].pq
    /\ IsRevocation(log, p) /\ NoRotation(log, p, Len(log)) => IsRevoked(cur)

LEMMA SharedBetween ==
    ASSUME NEW a, NEW b, NEW k, Shares(a, b, k), NEW p \in 1..k
    PROVE  /\ a[p] = b[p] /\ a[p] \in Record
           /\ HeededIn(a, p) = HeededIn(b, p)
           /\ Learned(a, p) = Learned(b, p)
           /\ \A m \in Int : m <= k => /\ Between(a, p, m, a[p].signer) = Between(b, p, m, b[p].signer)
                                       /\ NoRotation(a, p, m) = NoRotation(b, p, m)
                                       /\ NoDecision(a, p, m) = NoDecision(b, p, m)
<1>1. a[p] = b[p] /\ a[p] \in Record
  BY DEF Shares
<1>2. Learned(a, p) = Learned(b, p) /\ Learned(a, p - 1) = Learned(b, p - 1)
  <2>1. p \in 0..k /\ p - 1 \in 0..k
    BY DEF Shares
  <2> QED BY <2>1 DEF Shares
<1>3. HeededIn(a, p) = HeededIn(b, p)
  BY <1>1, <1>2 DEF HeededIn
<1>4. ASSUME NEW m \in Int, m <= k
      PROVE  /\ Between(a, p, m, a[p].signer) = Between(b, p, m, b[p].signer)
             /\ NoRotation(a, p, m) = NoRotation(b, p, m)
             /\ NoDecision(a, p, m) = NoDecision(b, p, m)
  <2>1. \A n \in (p + 1)..m : n \in 1..k /\ a[n] = b[n]
    BY <1>4 DEF Shares
  <2>2. Between(a, p, m, a[p].signer) = Between(b, p, m, b[p].signer)
    BY <1>1, <2>1 DEF Between
  <2>3. \A n \in Between(a, p, m, a[p].signer) : a[n] = b[n]
    BY <2>1 DEF Between
  <2> QED BY <2>2, <2>3, Zenon DEF NoRotation, NoDecision
<1> QED BY <1>1, <1>2, <1>3, <1>4

\* A power loss takes no word back.
LEMMA ToldPrefix ==
    ASSUME NEW a, NEW b, NEW k, Shares(a, b, k), Len(a) = k, NEW p \in 1..k, Told(b, p)
    PROVE  Told(a, p)
<1>1. k \in Nat /\ Len(b) \in Nat /\ k <= Len(b) /\ p \in Nat
  BY DEF Shares
<1>2. /\ a[p] = b[p] /\ HeededIn(a, p) = HeededIn(b, p) /\ Learned(a, p) = Learned(b, p)
  BY SharedBetween
<1>3. ASSUME NEW n \in Between(a, p, k, a[p].signer)
      PROVE  /\ n \in Between(b, p, Len(b), b[p].signer) /\ a[n] = b[n]
             /\ NoRotation(a, p, n) = NoRotation(b, p, n)
             /\ NoRotation(a, p, n - 1) = NoRotation(b, p, n - 1)
             /\ NoDecision(a, p, n) = NoDecision(b, p, n)
  <2>1. n \in (p + 1)..k /\ n \in Int /\ n - 1 \in Int /\ n <= k /\ n - 1 <= k /\ n \in 1..k
    BY <1>1 DEF Between
  <2>2. a[n] = b[n]
    BY <2>1 DEF Shares
  <2>3. n \in Between(b, p, Len(b), b[p].signer)
    BY <1>1, <1>2, <1>3, <2>1, <2>2 DEF Between
  <2> QED BY <2>1, <2>2, <2>3, SharedBetween
<1>4. KeyTold(a, p)
  BY <1>2, <1>3 DEF Told, KeyTold, IsTrust
<1>5. PqTold(a, p)
  BY <1>2, <1>3 DEF Told, PqTold, IsPin
<1>6. RevocationTold(a, p)
  BY <1>2, <1>3 DEF Told, RevocationTold, IsRevocation
<1> QED BY <1>4, <1>5, <1>6 DEF Told

\* What a record over this binding does not do to the record at p.
Allows(rec, log, p) ==
    /\ IsTrust(log, p) /\ NoRotation(log, p, Len(log)) /\ rec.action = "trust" =>
          rec.pubkey = log[p].pubkey
    /\ IsPin(log, p) /\ NoDecision(log, p, Len(log)) /\ ~rec.decided =>
          rec.action = "revoke" \/ rec.pq = log[p].pq
    /\ /\ IsRevocation(log, p) /\ NoRotation(log, p, Len(log))
       /\ rec.action = "rotate" /\ ~rec.decided
       => rec.pq = None

LEMMA AnswerAllows ==
    ASSUME NEW cur \in Binding \cup {None}, NEW rec \in Record, NEW b,
           NEW log, NEW p, Fits(cur, rec, b), Answers(cur, log, p)
    PROVE  Allows(rec, log, p)
<1>1. rec.action = "trust" \/ rec.action = "rotate" \/ rec.action = "revoke"
  BY RecordKinds
<1>2. CASE rec.action = "trust"
  BY <1>2 DEF Fits, Answers, Allows
<1>3. CASE rec.action = "rotate"
  BY <1>3, PqOfBinding DEF Fits, Answers, Allows
<1>4. CASE rec.action = "revoke"
  BY <1>4 DEF Allows
<1> QED BY <1>1, <1>2, <1>3, <1>4

LEMMA ToldAppend ==
    ASSUME NEW a, NEW b, NEW k, Shares(a, b, k), Len(b) = k, Len(a) = k + 1,
           NEW p \in 1..k, Told(b, p),
           a[k + 1].signer = b[p].signer => Allows(a[k + 1], b, p)
    PROVE  Told(a, p)
<1>1. k \in Nat /\ p \in Nat /\ k \in Int /\ k <= k
  BY DEF Shares
<1>2. /\ a[p] = b[p] /\ HeededIn(a, p) = HeededIn(b, p) /\ Learned(a, p) = Learned(b, p)
      /\ NoRotation(a, p, k) = NoRotation(b, p, k)
      /\ NoDecision(a, p, k) = NoDecision(b, p, k)
  BY <1>1, SharedBetween
<1>3. ASSUME NEW n \in Between(a, p, k + 1, a[p].signer), n # k + 1
      PROVE  /\ n \in Between(b, p, k, b[p].signer) /\ a[n] = b[n]
             /\ NoRotation(a, p, n) = NoRotation(b, p, n)
             /\ NoRotation(a, p, n - 1) = NoRotation(b, p, n - 1)
             /\ NoDecision(a, p, n) = NoDecision(b, p, n)
  <2>1. n \in (p + 1)..k /\ n \in Int /\ n - 1 \in Int /\ n <= k /\ n - 1 <= k /\ n \in 1..k
    BY <1>1, <1>3 DEF Between
  <2>2. a[n] = b[n]
    BY <2>1 DEF Shares
  <2>3. n \in Between(b, p, k, b[p].signer)
    BY <1>1, <1>2, <1>3, <2>1, <2>2 DEF Between
  <2> QED BY <2>1, <2>2, <2>3, SharedBetween
<1>4. ASSUME k + 1 \in Between(a, p, k + 1, a[p].signer)
      PROVE  /\ Allows(a[k + 1], b, p)
             /\ NoRotation(a, p, k + 1) => NoRotation(b, p, k)
             /\ NoRotation(a, p, (k + 1) - 1) => NoRotation(b, p, k)
             /\ NoDecision(a, p, k + 1) => NoDecision(b, p, k) /\ ~a[k + 1].decided
  <2>1. Between(a, p, k, a[p].signer) \subseteq Between(a, p, k + 1, a[p].signer)
    BY <1>1 DEF Between
  <2>2. /\ NoRotation(a, p, k + 1) => NoRotation(a, p, k)
        /\ NoDecision(a, p, k + 1) => NoDecision(a, p, k) /\ ~a[k + 1].decided
    BY <1>4, <2>1 DEF NoRotation, NoDecision
  <2>3. (k + 1) - 1 = k
    BY <1>1
  <2>4. a[k + 1].signer = b[p].signer
    BY <1>2, <1>4 DEF Between
  <2> QED BY <1>2, <2>2, <2>3, <2>4
<1>5. KeyTold(a, p)
  BY <1>2, <1>3, <1>4 DEF Told, KeyTold, IsTrust, Allows
<1>6. PqTold(a, p)
  BY <1>2, <1>3, <1>4 DEF Told, PqTold, IsPin, Allows
<1>7. RevocationTold(a, p)
  BY <1>2, <1>3, <1>4 DEF Told, RevocationTold, IsRevocation, Allows
<1> QED BY <1>5, <1>6, <1>7 DEF Told

\* The dictionary becomes what a replay of the record would make of it.
LEMMA FitsThen ==
    ASSUME NEW cur \in Binding \cup {None}, NEW rec \in Record, NEW b, Fits(cur, rec, b)
    PROVE  b = Then(cur, rec)
<1>1. CASE rec.action = "trust"
  BY <1>1, RecordKinds DEF Fits
<1>2. CASE rec.action = "rotate"
  BY <1>2, RecordKinds DEF Fits
<1>3. CASE rec.action = "revoke"
  BY <1>3, RecordKinds DEF Fits
<1> QED BY <1>1, <1>2, <1>3, RecordKinds

\* What Fits makes of a binding, kind by kind.
LEMMA FitsFields ==
    ASSUME NEW cur \in Binding \cup {None}, NEW rec \in Record, NEW b, Fits(cur, rec, b)
    PROVE  /\ b \in Binding /\ b # None
           /\ rec.action # "revoke" => b.pubkey = rec.pubkey /\ b.pq = rec.pq
           /\ rec.action = "revoke" =>
                /\ cur \in Binding /\ b.pubkey = cur.pubkey /\ b.pq = cur.pq /\ IsRevoked(b)
<1>1. CASE rec.action = "revoke"
  <2>1. cur \in Binding /\ b = [cur EXCEPT !.revoked = TRUE]
    BY <1>1 DEF Fits
  <2> QED BY <1>1, <2>1, RevokedFields
<1>2. CASE rec.action # "revoke"
  <2>1. b = Pin(rec.pubkey, rec.pq) /\ rec.pubkey \in Keys /\ rec.pq \in PqKeys \cup {None}
    BY <1>2, RecordKinds DEF Fits
  <2> QED BY <1>2, <2>1, PinFields
<1> QED BY <1>1, <1>2

LEMMA AnswerNew ==
    ASSUME NEW log \in Seq(Record), Len(log) # 0,
           NEW cur \in Binding \cup {None}, NEW b, Fits(cur, log[Len(log)], b)
    PROVE  Answers(b, log, Len(log)) /\ Told(log, Len(log))
<1> DEFINE p == Len(log)
           rec == log[p]
<1>1. rec \in Record /\ p \in Nat
  OBVIOUS
<1>2. rec.action = "revoke" => rec.pq = None
  BY <1>1, RecordKinds
<1>3. Answers(b, log, p)
  BY <1>1, <1>2, FitsFields DEF Answers, IsTrust, IsPin, IsRevocation
<1>4. \A s : Between(log, p, p, s) = {}
  BY <1>1 DEF Between
<1>5. Told(log, p)
  BY <1>4 DEF Told, KeyTold, PqTold, RevocationTold
<1> QED BY <1>3, <1>5

LEMMA ShorterBetween ==
    ASSUME NEW log, NEW p, NEW n \in Int, NEW m \in Int, n <= m
    PROVE  /\ NoRotation(log, p, m) => NoRotation(log, p, n)
           /\ NoDecision(log, p, m) => NoDecision(log, p, n)
<1>1. \A s : Between(log, p, n, s) \subseteq Between(log, p, m, s)
  BY DEF Between
<1> QED BY <1>1 DEF NoRotation, NoDecision

LEMMA AnswerLater ==
    ASSUME NEW log \in Seq(Record), NEW p \in 1..(Len(log) - 1), Told(log, p),
           NEW cur \in Binding \cup {None}, NEW b,
           Answers(cur, log, p), Fits(cur, log[Len(log)], b),
           log[Len(log)].signer = log[p].signer
    PROVE  Answers(b, log, p)
<1> DEFINE n == Len(log)
           rec == log[n]
<1>1. rec \in Record /\ n \in Nat /\ n \in Between(log, p, n, log[p].signer)
  BY DEF Between
<1>2. ASSUME IsTrust(log, p), NoRotation(log, p, n)
      PROVE  b # None /\ b.pubkey = log[p].pubkey
  <2>1. rec.action # "rotate" /\ (rec.action = "trust" => rec.pubkey = log[p].pubkey)
    BY <1>1, <1>2 DEF Told, KeyTold, NoRotation
  <2>2. cur # None /\ cur.pubkey = log[p].pubkey
    BY <1>2 DEF Answers
  <2>3. rec.action = "trust" \/ rec.action = "revoke"
    BY <1>1, <2>1, RecordKinds
  <2> HIDE DEF rec
  <2> QED BY <1>1, <2>1, <2>2, <2>3, FitsFields DEF rec
<1>3. ASSUME IsPin(log, p), NoDecision(log, p, n)
      PROVE  b # None /\ b.pq = log[p].pq
  <2>1. rec.action = "revoke" \/ rec.pq = log[p].pq
    BY <1>1, <1>3 DEF Told, PqTold
  <2>2. cur # None /\ cur.pq = log[p].pq
    BY <1>3 DEF Answers
  <2> QED BY <1>1, <2>1, <2>2, FitsFields
<1>4. ASSUME IsRevocation(log, p), NoRotation(log, p, n)
      PROVE  IsRevoked(b)
  <2>1. rec.action # "rotate"
    BY <1>1, <1>4 DEF NoRotation
  <2>2. IsRevoked(cur)
    BY <1>4 DEF Answers
  <2>3. rec.action = "revoke"
    BY <1>1, <2>1, <2>2, RecordKinds DEF Fits
  <2> QED BY <1>1, <2>3, FitsFields
<1> QED BY <1>2, <1>3, <1>4 DEF Answers

\* A replay answers for every record of a store the later ones went by.
LEMMA AnswerReplay ==
    ASSUME NEW log \in Seq(Record), Founded(log), NEW p \in 1..Len(log), Told(log, p)
    PROVE  Answers(Replay(log)[log[p].signer], log, p)
<1> DEFINE s == log[p].signer
           m == Len(log)
           before == Learned(log, p - 1)[s]
<1>1. /\ m \in p..Len(log) /\ m \in Int /\ log[p] \in Record /\ s \in Signers
      /\ Replay(log) = Learned(log, m)
  <2>1. m \in p..Len(log) /\ m \in Int /\ log[p] \in Record
    OBVIOUS
  <2>2. s \in Signers
    BY <2>1 DEF Record
  <2> QED BY <2>1, <2>2, LearnedOf
<1>2. before \in Binding \cup {None} /\ Learned(log, p)[s] = Then(before, log[p])
  BY <1>1, LearnedStep
<1>3. ASSUME NEW n \in Between(log, p, m, s)
      PROVE  /\ n \in Int /\ n <= m /\ log[n] \in Record
             /\ NoRotation(log, p, m) => NoRotation(log, p, n) /\ log[n].action # "rotate"
             /\ NoDecision(log, p, m) => NoDecision(log, p, n)
  <2>1. n \in Int /\ n <= m /\ log[n] \in Record
    BY <1>3 DEF Between
  <2> QED BY <1>1, <1>3, <2>1, ShorterBetween DEF NoRotation
<1>4. ASSUME HeededIn(log, p), log[p].action # "revoke"
      PROVE  /\ Learned(log, p)[s] # None /\ Learned(log, p)[s].pubkey = log[p].pubkey
             /\ Learned(log, p)[s].pq = log[p].pq
  <2>1. Then(before, log[p]) = Pin(log[p].pubkey, log[p].pq)
    BY <1>4 DEF HeededIn, Then
  <2>2. log[p].pubkey \in Keys /\ log[p].pq \in PqKeys \cup {None}
    BY <1>1, <1>2, <1>4, RecordKinds
  <2> HIDE DEF before
  <2> QED BY <1>2, <2>1, <2>2, PinFields
<1>5. ASSUME IsTrust(log, p), NoRotation(log, p, m)
      PROVE  Learned(log, m)[s] # None /\ Learned(log, m)[s].pubkey = log[p].pubkey
  <2>1. \A n \in Between(log, p, m, s) :
           log[n].action = "revoke" \/ (log[n].action = "trust" /\ log[n].pubkey = log[p].pubkey)
    <3> SUFFICES ASSUME NEW n \in Between(log, p, m, s)
                 PROVE  log[n].action = "revoke"
                        \/ (log[n].action = "trust" /\ log[n].pubkey = log[p].pubkey)
      OBVIOUS
    <3>1. log[n].action \in {"trust", "revoke"} /\ NoRotation(log, p, n)
      BY <1>3, <1>5, <1>2, RecordKinds
    <3> QED BY <3>1, <1>5 DEF Told, KeyTold
  <2>2. Learned(log, p)[s] # None /\ Learned(log, p)[s].pubkey = log[p].pubkey
    BY <1>4, <1>5 DEF IsTrust
  <2> HIDE DEF s, m
  <2> QED BY <1>1, <2>1, <2>2, KeyLater
<1>6. ASSUME IsPin(log, p), NoDecision(log, p, m)
      PROVE  Learned(log, m)[s] # None /\ Learned(log, m)[s].pq = log[p].pq
  <2>1. \A n \in Between(log, p, m, s) : log[n].action = "revoke" \/ log[n].pq = log[p].pq
    BY <1>3, <1>6 DEF Told, PqTold
  <2>2. log[p].action # "revoke"
    BY <1>1, <1>2, <1>6, RecordKinds DEF IsPin
  <2>3. Learned(log, p)[s] # None /\ Learned(log, p)[s].pq = log[p].pq
    BY <1>4, <1>6, <2>2 DEF IsPin
  <2> HIDE DEF s, m
  <2> QED BY <1>1, <2>1, <2>3, PqLater
<1>7. ASSUME IsRevocation(log, p), NoRotation(log, p, m)
      PROVE  IsRevoked(Learned(log, m)[s])
  <2>1. before # None
    BY <1>7 DEF Founded, IsRevocation
  <2>2. \A n \in Between(log, p, m, s) : log[n].action # "rotate"
    BY <1>7 DEF NoRotation
  <2>3. log[p].action = "revoke" /\ log[p].signer = s
    BY <1>7 DEF IsRevocation
  <2> HIDE DEF s, m
  <2> QED BY <1>1, <2>1, <2>2, <2>3, RevokedLater
<1> QED BY <1>1, <1>5, <1>6, <1>7 DEF Answers

-----------------------------------------------------------------------------
(* One registry on the store *)

\* The change under way is the last record, and was decided from the dictionary.
InFlight(r) == call[r] # None =>
    /\ open[r] /\ store # << >> /\ call[r].pos = Len(store)
    /\ store[Len(store)].signer = call[r].signer
    /\ Fits(state[r][call[r].signer], store[Len(store)], call[r].binding)

\* The dictionary is a replay of the store, less the change under way.
FollowsStore(r) == open[r] /\ ~raised[r] =>
    state[r] = Learned(store, IF call[r] = None THEN Len(store) ELSE Len(store) - 1)

\* Later records went by what a promised one says, and so does the dictionary:
\* an append that raised, or a crash, does not make it forget.
PromisesTold(r) == \A p \in promised :
    /\ Told(store, p)
    /\ open[r] => Answers(state[r][store[p].signer], store, p)

Alone(r) == IInv /\ InFlight(r) /\ FollowsStore(r) /\ PromisesTold(r)

LEMMA PromisedPosition ==
    ASSUME TypeOK, NEW p \in promised
    PROVE  p \in 1..Len(store) /\ store[p] \in Record /\ store[p].signer \in Signers
<1>1. p \in 1..Len(store) /\ store[p] \in Record
  BY DEF TypeOK
<1> QED BY <1>1 DEF Record

LEMMA OpenAlone ==
    ASSUME NEW r, Registries = {r}, Alone(r), Open(r)
    PROVE  InFlight(r)' /\ FollowsStore(r)' /\ PromisesTold(r)'
<1> USE DEF Alone, IInv
<1>1. r \in Registries /\ store \in Seq(Record)
  BY DEF TypeOK
<1>2. UNCHANGED <<store, promised, call>> /\ call[r] = None /\ state'[r] = Replay(store)
  BY <1>1 DEF Open, InFlight, TypeOK
<1>3. FollowsStore(r)'
  BY <1>1, <1>2, LearnedOf DEF FollowsStore
<1>4. PromisesTold(r)'
  BY <1>1, <1>2, PromisedPosition, AnswerReplay DEF PromisesTold
<1> QED BY <1>2, <1>3, <1>4 DEF InFlight

LEMMA WritesAlone ==
    ASSUME NEW r, Registries = {r}, Alone(r), Writes(r)
    PROVE  InFlight(r)' /\ FollowsStore(r)' /\ PromisesTold(r)'
<1> USE DEF Alone, IInv
<1>1. r \in Registries /\ store \in Seq(Record) /\ Len(store) \in Nat
  BY DEF TypeOK
<1>2. PICK rec \in Record, b \in Binding :
         Submit(r, rec, b) /\ Fits(state[r][rec.signer], rec, b)
  BY DEF Writes
<1>3. /\ Shares(store', store, Len(store)) /\ store' \in Seq(Record)
      /\ Len(store') = Len(store) + 1 /\ store'[Len(store) + 1] = rec
  <2>1. /\ Shares(store', store, Len(store))
        /\ Len(store') = Len(store) + 1 /\ store'[Len(store')] = rec
    BY <1>1, <1>2, WritesShares
  <2> QED BY <2>1 DEF Shares
<1>4. /\ open[r] /\ call[r] = None /\ UNCHANGED <<promised, open, state, raised>>
      /\ call'[r] = [signer |-> rec.signer, binding |-> b,
                     pos |-> Len(store) + 1, synced |-> FALSE]
  BY <1>1, <1>2 DEF Submit, Ledger!Extend, TypeOK
<1>5. call'[r] # None
  <2>1. rec.signer \in Signers
    BY DEF Record
  <2>2. call'[r] \in Call
    BY <1>1, <1>4, <2>1 DEF Call
  <2> QED BY <2>2, NoneIsNothing
<1>6. InFlight(r)'
  BY <1>1, <1>2, <1>3, <1>4 DEF InFlight
<1>7. FollowsStore(r)'
  <2>1. Learned(store', Len(store)) = Learned(store, Len(store))
    BY <1>1, <1>3 DEF Shares
  <2>2. Len(store') - 1 = Len(store)
    BY <1>1, <1>3
  <2> QED BY <1>4, <1>5, <2>1, <2>2 DEF FollowsStore
<1>8. ASSUME NEW p \in promised
      PROVE  Told(store', p) /\ Answers(state[r][store'[p].signer], store', p)
  <2> DEFINE s == store[p].signer
             cur == state[r][s]
             k == Len(store)
  <2>1. p \in 1..k /\ s \in Signers /\ cur \in Binding \cup {None}
    BY <1>1, PromisedPosition, ZenonT(30) DEF TypeOK
  <2>2. Told(store, p) /\ Answers(cur, store, p)
    BY <1>4 DEF PromisesTold
  <2>3. rec.signer = s => Allows(rec, store, p)
    BY <1>2, <2>1, <2>2, AnswerAllows
  <2>4. Told(store', p)
    BY <1>3, <2>1, <2>2, <2>3, ToldAppend
  <2>5. /\ store'[p] = store[p] /\ HeededIn(store', p) = HeededIn(store, p)
        /\ NoRotation(store', p, k) = NoRotation(store, p, k)
        /\ NoDecision(store', p, k) = NoDecision(store, p, k)
    BY <1>1, <1>3, <2>1, SharedBetween
  <2>6. /\ NoRotation(store', p, Len(store')) => NoRotation(store, p, k)
        /\ NoDecision(store', p, Len(store')) => NoDecision(store, p, k)
    BY <1>1, <1>3, <2>5, ShorterBetween
  <2>7. Answers(cur, store', p)
    BY <2>2, <2>5, <2>6 DEF Answers, IsTrust, IsPin, IsRevocation
  <2> QED BY <2>4, <2>5, <2>7
<1>9. PromisesTold(r)'
  BY <1>4, <1>8 DEF PromisesTold
<1> QED BY <1>6, <1>7, <1>9

LEMMA ReturnAlone ==
    ASSUME NEW r, Registries = {r}, Alone(r), Return(r)
    PROVE  InFlight(r)' /\ FollowsStore(r)' /\ PromisesTold(r)'
<1> USE DEF Alone, IInv
<1> DEFINE n == Len(store)
           rec == store[n]
           s == rec.signer
           cur == state[r][s]
           b == call[r].binding
<1>1. r \in Registries /\ store \in Seq(Record) /\ n \in Nat
  BY DEF TypeOK
<1>2. /\ call[r] # None /\ call'[r] = None /\ UNCHANGED <<store, open, raised>>
      /\ promised' = promised \cup {call[r].pos}
      /\ state'[r] = [state[r] EXCEPT ![call[r].signer] = b]
  BY <1>1 DEF Return, Ledger!Promise, TypeOK
<1>3. /\ open[r] /\ call[r].pos = n /\ n # 0 /\ rec \in Record
      /\ call[r].signer = s /\ Fits(cur, rec, b)
  BY <1>1, <1>2 DEF InFlight
<1>4. s \in Signers /\ state[r] \in Dictionary /\ cur \in Binding \cup {None}
  <2>1. s \in Signers
    BY <1>3 DEF Record
  <2> QED BY <1>1, <2>1 DEF TypeOK, Dictionary
<1>5. ASSUME ~raised[r] PROVE state'[r] = Learned(store, n)
  <2>1. state[r] = Learned(store, n - 1)
    BY <1>2, <1>3, <1>5 DEF FollowsStore
  <2>2. n \in 1..Len(store) /\ n \in 0..Len(store)
    BY <1>1, <1>3
  <2>3. Learned(store, n) = Apply(state[r], rec) /\ Learned(store, n) \in Dictionary
    BY <1>1, <2>1, <2>2, LearnedOf
  <2>4. b = Then(cur, rec)
    BY <1>3, <1>4, FitsThen
  <2>5. \A x \in Signers : Apply(state[r], rec)[x] = IF s = x THEN Then(state[r][x], rec)
                                                              ELSE state[r][x]
    BY <1>3, <1>4, AppliedTo
  <2>6. \A x \in Signers : Learned(store, n)[x] = state'[r][x]
    BY <1>2, <1>3, <1>4, <2>3, <2>4, <2>5 DEF Dictionary
  <2>7. DOMAIN state'[r] = Signers /\ state'[r] = [x \in DOMAIN state'[r] |-> state'[r][x]]
    BY <1>2, <1>4 DEF Dictionary
  <2> QED BY <2>3, <2>6, <2>7 DEF Dictionary
<1>6. FollowsStore(r)'
  BY <1>2, <1>5 DEF FollowsStore
<1>7. ASSUME NEW p \in promised'
      PROVE  Told(store, p) /\ Answers(state'[r][store[p].signer], store, p)
  <2>1. CASE p = n
    <3>1. state'[r][s] = b
      BY <1>2, <1>3, <1>4 DEF Dictionary
    <3> QED BY <1>1, <1>3, <1>4, <2>1, <3>1, AnswerNew
  <2>2. CASE p # n
    <3>1. p \in promised /\ p \in 1..(Len(store) - 1) /\ store[p].signer \in Signers
      BY <1>1, <1>2, <1>3, <2>2, PromisedPosition
    <3>2. Told(store, p) /\ Answers(state[r][store[p].signer], store, p)
      BY <1>3, <3>1 DEF PromisesTold
    <3>3. CASE store[p].signer = s
      <4>1. state'[r][store[p].signer] = b
        BY <1>2, <1>3, <1>4, <3>3 DEF Dictionary
      <4>2. Answers(b, store, p)
        BY <1>1, <1>3, <1>4, <3>1, <3>2, <3>3, AnswerLater
      <4> QED BY <3>2, <4>1, <4>2
    <3>4. CASE store[p].signer # s
      <4>1. state'[r][store[p].signer] = state[r][store[p].signer]
        BY <1>2, <1>3, <1>4, <3>1, <3>4 DEF Dictionary
      <4> QED BY <3>2, <4>1
    <3> QED BY <3>3, <3>4
  <2> QED BY <2>1, <2>2
<1>8. PromisesTold(r)'
  BY <1>2, <1>7 DEF PromisesTold
<1> QED BY <1>2, <1>6, <1>8 DEF InFlight

LEMMA PowerLossAlone ==
    ASSUME NEW r, Registries = {r}, Alone(r), PowerLoss
    PROVE  InFlight(r)' /\ FollowsStore(r)' /\ PromisesTold(r)'
<1> USE DEF Alone, IInv
<1>1. r \in Registries
  OBVIOUS
<1>2. /\ Shares(store', store, Len(store')) /\ Len(store') \in durable..Len(store)
      /\ ~open'[r] /\ call'[r] = None /\ promised' = promised
  BY <1>1, PowerLossShares
<1>3. ASSUME NEW p \in promised PROVE Told(store', p)
  <2>1. p \in 1..Len(store')
    BY <1>2 DEF TypeOK
  <2> QED BY <1>2, <1>3, <2>1, ToldPrefix DEF PromisesTold
<1> QED BY <1>2, <1>3 DEF InFlight, FollowsStore, PromisesTold

LEMMA NextAlone ==
    ASSUME NEW r, Registries = {r}, Alone(r), [Next]_vars
    PROVE  Alone(r)'
<1> USE DEF Alone, IInv
<1>1. r \in Registries /\ TypeOK
  OBVIOUS
<1>2. ASSUME Sync(r) PROVE InFlight(r)' /\ FollowsStore(r)' /\ PromisesTold(r)'
  <2>1. /\ UNCHANGED <<store, promised, open, state, raised>> /\ call[r] # None /\ call[r] \in Call
        /\ call'[r] = [call[r] EXCEPT !.synced = TRUE]
    BY <1>1, <1>2 DEF Sync, Ledger!Persist, TypeOK
  <2>2. /\ call'[r] \in Call /\ call'[r].pos = call[r].pos
        /\ call'[r].signer = call[r].signer /\ call'[r].binding = call[r].binding
    BY <2>1 DEF Call
  <2>3. call'[r] # None
    BY <2>2, NoneIsNothing
  <2> QED BY <2>1, <2>2, <2>3 DEF InFlight, FollowsStore, PromisesTold
<1>3. ASSUME SyncFails(r) PROVE InFlight(r)' /\ FollowsStore(r)' /\ PromisesTold(r)'
  BY <1>1, <1>3 DEF SyncFails, TypeOK, InFlight, FollowsStore, PromisesTold
<1>4. ASSUME Kill(r) PROVE InFlight(r)' /\ FollowsStore(r)' /\ PromisesTold(r)'
  BY <1>1, <1>4 DEF Kill, Close, TypeOK, InFlight, FollowsStore, PromisesTold
<1>5. CASE UNCHANGED vars
  BY <1>5 DEF vars, TypeOK, Founded, StoreKnows, InFlight, FollowsStore, PromisesTold
<1>6. IInv'
  BY NextKnown
<1> QED BY <1>1, <1>2, <1>3, <1>4, <1>5, <1>6, Steps,
           OpenAlone, WritesAlone, ReturnAlone, PowerLossAlone

LEMMA InitAlone ==
    ASSUME NEW r, Registries = {r}, Init
    PROVE  Alone(r)
<1>1. ~open[r] /\ call[r] = None /\ promised = {}
  BY DEF Init, Ledger!Init
<1> QED BY <1>1, InitKnown DEF Alone, InFlight, FollowsStore, PromisesTold

\* The inductive invariant of a registry that has its store to itself: its
\* dictionary and the store (trust.py:79-154).
THEOREM TrustAlone ==
    ASSUME NEW r, Registries = {r}
    PROVE  Spec => []Alone(r)
<1>1. Init => Alone(r)
  BY InitAlone
<1>2. Alone(r) /\ [Next]_vars => Alone(r)'
  BY NextAlone
<1> QED BY <1>1, <1>2, PTL DEF Spec

LEMMA LiveHolds ==
    ASSUME NEW r, Registries = {r}, Alone(r)
    PROVE  LiveIsReplay
<1>1. store \in Seq(Record) /\ Replay(store) = Learned(store, Len(store))
  BY LearnedOf DEF Alone, IInv, TypeOK
<1> QED BY <1>1 DEF Alone, FollowsStore, LiveIsReplay, Known

LEMMA BetweenAfter ==
    \A p, s : After(p, s) = Between(store, p, Len(store), s)
BY DEF After, Between

LEMMA TrustedHolds ==
    ASSUME NEW r, Registries = {r}, Alone(r)
    PROVE  TrustedKeyStays
<1> SUFFICES ASSUME NEW p \in promised, store[p].action = "trust", Heeded(p),
                    ~RotatedAfter(p, store[p].signer)
             PROVE  Known[store[p].signer] # None
                    /\ Known[store[p].signer].pubkey = store[p].pubkey
  BY DEF TrustedKeyStays
<1>1. store \in Seq(Record) /\ Founded(store) /\ p \in 1..Len(store) /\ Told(store, p)
  BY PromisedPosition DEF Alone, IInv, TypeOK, PromisesTold
<1>2. IsTrust(store, p)
  BY DEF Heeded, Before, HeededIn, Learned, IsTrust
<1>3. NoRotation(store, p, Len(store))
  BY BetweenAfter DEF RotatedAfter, NoRotation
<1> QED BY <1>1, <1>2, <1>3, AnswerReplay DEF Answers, Known

LEMMA PqPinHolds ==
    ASSUME NEW r, Registries = {r}, Alone(r)
    PROVE  PqPinStays
<1> SUFFICES ASSUME NEW p \in promised, store[p].pq # None, Heeded(p),
                    \A n \in After(p, store[p].signer) : ~store[n].decided
             PROVE  PqOf(Known[store[p].signer]) = store[p].pq
  BY DEF PqPinStays
<1>1. store \in Seq(Record) /\ Founded(store) /\ p \in 1..Len(store) /\ Told(store, p)
  BY PromisedPosition DEF Alone, IInv, TypeOK, PromisesTold
<1>2. IsPin(store, p)
  BY DEF Heeded, Before, HeededIn, Learned, IsPin
<1>3. NoDecision(store, p, Len(store))
  BY BetweenAfter DEF NoDecision
<1>4. Known[store[p].signer] # None /\ Known[store[p].signer].pq = store[p].pq
  BY <1>1, <1>2, <1>3, AnswerReplay DEF Answers, Known
<1> QED BY <1>4 DEF PqOf

LEMMA RevokedPqHolds ==
    ASSUME NEW r, Registries = {r}, Alone(r)
    PROVE  RevokedPqNeedsDecision
<1> SUFFICES ASSUME NEW p \in promised, store[p].action = "revoke",
                    PqOf(Learned(store, p)[store[p].signer]) # None,
                    {n \in After(p, store[p].signer) : store[n].action = "rotate"} # {}
             PROVE  LET pq == PqOf(Learned(store, p)[store[p].signer])
                        rotations == {n \in After(p, store[p].signer) : store[n].action = "rotate"}
                        first == CHOOSE n \in rotations : \A m \in rotations : n <= m
                    IN  store[first].pq = pq => store[first].decided
  BY DEF RevokedPqNeedsDecision, Learned
<1> DEFINE s == store[p].signer
           rotations == {n \in After(p, s) : store[n].action = "rotate"}
           first == CHOOSE n \in rotations : \A m \in rotations : n <= m
<1>1. store \in Seq(Record) /\ p \in 1..Len(store) /\ Told(store, p)
  BY PromisedPosition DEF Alone, IInv, TypeOK, PromisesTold
<1>2. rotations \subseteq Nat
  BY <1>1 DEF After
<1>3. first \in rotations /\ \A m \in rotations : first <= m
  <2> HIDE DEF rotations
  <2>1. \E n \in rotations : \A m \in rotations : n <= m
    <3>1. rotations # {}
      BY DEF rotations
    <3> QED BY <3>1, <1>2, LeastNat
  <2> QED BY <2>1
<1>4. first \in Between(store, p, Len(store), s) /\ store[first].action = "rotate"
  BY <1>3, BetweenAfter
<1>5. NoRotation(store, p, first - 1)
  <2> SUFFICES ASSUME NEW n \in Between(store, p, first - 1, s), store[n].action = "rotate"
               PROVE  FALSE
    BY DEF NoRotation
  <2>1. first \in Int /\ first <= Len(store) /\ Len(store) \in Int
    BY <1>1, <1>4 DEF Between
  <2>2. n \in Int /\ n < first /\ n \in Between(store, p, Len(store), s)
    <3> HIDE DEF first
    <3> QED BY <1>1, <2>1 DEF Between
  <2>3. n \in rotations
    BY <2>2, BetweenAfter
  <2>4. first <= n
    BY <1>3, <2>3
  <2> HIDE DEF first
  <2> QED BY <2>1, <2>2, <2>4
<1>6. IsRevocation(store, p)
  BY DEF IsRevocation
<1> HIDE DEF first
<1>7. store[first].pq = PqOf(Learned(store, p)[s]) => store[first].decided
  BY <1>1, <1>4, <1>5, <1>6 DEF Told, RevocationTold
<1> QED BY <1>7 DEF first

\* A registry that has the store to itself decides from what a replay of it
\* would tell, until one of its appends raises (trust.py:126-154).
THEOREM TrustLive ==
    ASSUME NEW r, Registries = {r}
    PROVE  Spec => []LiveIsReplay
<1>1. Alone(r) => LiveIsReplay
  BY LiveHolds
<1> QED BY <1>1, TrustAlone, PTL

\* "a different key for the same id raises": a key that trust() returned stays
\* the signer's in every replay until a rotation (trust.py:107-129).
THEOREM TrustKeyStays ==
    ASSUME NEW r, Registries = {r}
    PROVE  Spec => []TrustedKeyStays
<1>1. Alone(r) => TrustedKeyStays
  BY TrustedHolds
<1> QED BY <1>1, TrustAlone, PTL

\* A pinned post-quantum key stays pinned until a caller names another or drops
\* it (trust.py:140-154).
THEOREM TrustPqStays ==
    ASSUME NEW r, Registries = {r}
    PROVE  Spec => []PqPinStays
<1>1. Alone(r) => PqPinStays
  BY PqPinHolds
<1> QED BY <1>1, TrustAlone, PTL

\* The first rotation after a revocation that returned carries the revoked
\* post-quantum key only if its caller named it (trust.py:140-147).
THEOREM TrustRevokedPq ==
    ASSUME NEW r, Registries = {r}
    PROVE  Spec => []RevokedPqNeedsDecision
<1>1. Alone(r) => RevokedPqNeedsDecision
  BY RevokedPqHolds
<1> QED BY <1>1, TrustAlone, PTL

=============================================================================
