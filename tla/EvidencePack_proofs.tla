------------------------ MODULE EvidencePack_proofs ------------------------
(* Theorems about EvidencePack, for any contents, keys, producers and bounds. *)
EXTENDS EvidencePack, TLAPS

USE ScopeAssumption, BoundsAssumption, MarksAssumption

-----------------------------------------------------------------------------
(* What is in which file *)

\* The contents of each file, and that nothing marked is one of them.
LEMMA ContentsOf ==
    /\ Contents("pack") = Packs /\ Contents("ledger") = Ledgers /\ Contents("tsr") = Stamps
    /\ Contents("sig") = Sidecars /\ Contents("store") = Bindings
    /\ \A f \in File : Contents(f) \cup {Absent, Bad} \subseteq Text
    /\ \A f \in File : Absent \notin Contents(f) /\ Bad \notin Contents(f) /\ Unread \notin Contents(f)
  <1>1. /\ Contents("pack") = Packs /\ Contents("ledger") = Ledgers /\ Contents("tsr") = Stamps
        /\ Contents("sig") = Sidecars /\ Contents("store") = Bindings
    BY DEF Contents
  <1> QED BY <1>1 DEF File, Beside, Text

\* A file that can be read has contents of its kind.
LEMMA ReadableFile ==
    ASSUME TypeOK, NEW f \in File, Readable(files[f])
    PROVE  files[f] \in Contents(f)
  BY DEF TypeOK, Readable

\* Somebody without the keys leaves contents of the same kind.
LEMMA PackLike ==
    ASSUME NEW s \in Packs, NEW c \in PacksLike(s)
    PROVE  c \in Packs
  BY DEF Packs, PacksLike

LEMMA PqPartLike ==
    ASSUME NEW s \in PqParts, NEW c \in PqPartsLike(s)
    PROVE  c \in PqParts /\ c.key = s.key /\ (c.over = None \/ c.over = s.over)
  <1>1. CASE \E a \in {"known", "other", "malformed"} : c = [s EXCEPT !.alg = a, !.over = None]
    BY <1>1 DEF PqParts, Digests, Algorithms
  <1>2. CASE c = [s EXCEPT !.form = FALSE] \/ c = [s EXCEPT !.over = None]
    BY <1>2 DEF PqParts, Digests
  <1> QED BY <1>1, <1>2 DEF PqPartsLike

\* No co-signature, or one of the same key over the same, or over nothing.
SamePq(q, r) == q = None \/ q = r \/ (q \in PqParts /\ q.key = r.key /\ (q.over = None \/ (q.over = r.over /\ r \in PqParts)))

\* A sidecar with the signature and the key it had, or with no signature.
LEMMA SidecarLike ==
    ASSUME NEW s \in Sidecars, NEW c \in SidecarsLike(s)
    PROVE  /\ c \in Sidecars /\ (c.over = None \/ (c.over = s.over /\ c.key = s.key))
           /\ SamePq(c.pq, s.pq)
  <1>1. CASE c \in {[s EXCEPT !.closed = FALSE], [s EXCEPT !.form = FALSE], [s EXCEPT !.pq = None], [s EXCEPT !.over = None]}
    <2>1. CASE c = [s EXCEPT !.closed = FALSE]
      BY <2>1 DEF Sidecars, SamePq
    <2>2. CASE c = [s EXCEPT !.form = FALSE]
      BY <2>2 DEF Sidecars, SamePq
    <2>3. CASE c = [s EXCEPT !.pq = None]
      BY <2>3 DEF Sidecars, SamePq
    <2>4. CASE c = [s EXCEPT !.over = None]
      BY <2>4 DEF Sidecars, SamePq, Digests
    <2> QED BY <1>1, <2>1, <2>2, <2>3, <2>4
  <1>2. CASE \E a \in {"variant", "unknown", "malformed"} : c = [s EXCEPT !.alg = a]
    BY <1>2 DEF Sidecars, SamePq
  <1>3. CASE \E d \in Digests : c = [s EXCEPT !.digest = d]
    BY <1>3 DEF Sidecars, SamePq
  <1>4. CASE \E k \in Keys : c = [s EXCEPT !.key = k, !.over = None]
    BY <1>4, ZenonT(30) DEF Sidecars, SamePq, Digests
  <1>5. CASE s.pq # None /\ \E q \in PqPartsLike(s.pq) : c = [s EXCEPT !.pq = q]
    <2>1. s.pq \in PqParts
      BY <1>5 DEF Sidecars
    <2>2. PICK q \in PqPartsLike(s.pq) : c = [s EXCEPT !.pq = q]
      BY <1>5
    <2>3. q \in PqParts /\ q.key = s.pq.key /\ (q.over = None \/ q.over = s.pq.over)
      BY <2>1, <2>2, PqPartLike
    <2> QED BY <2>1, <2>2, <2>3 DEF Sidecars, SamePq
  <1> QED BY <1>1, <1>2, <1>3, <1>4, <1>5 DEF SidecarsLike

LEMMA AlterationsOf ==
    ASSUME TypeOK, NEW f \in File, NEW c \in Alterations(f)
    PROVE  /\ Readable(files[f])
           /\ c \in Contents(f) \cup {Bad}
           /\ f = "sig" /\ c # Bad =>
                 /\ c.over = None \/ (c.over = files["sig"].over /\ c.key = files["sig"].key)
                 /\ SamePq(c.pq, files["sig"].pq)
  <1>1. Readable(files[f])
    BY DEF Alterations
  <1>2. files[f] \in Contents(f)
    BY <1>1, ReadableFile
  <1>3. CASE c = Bad
    BY <1>1, <1>3
  <1>4. CASE c # Bad /\ f = "pack"
    BY <1>1, <1>2, <1>4, ContentsOf, PackLike DEF Alterations
  <1>5. CASE c # Bad /\ f = "sig"
    BY <1>1, <1>2, <1>5, ContentsOf, SidecarLike DEF Alterations
  <1>6. CASE c # Bad /\ f = "ledger"
    <2> DEFINE s == files[f]
    <2>1. s \in Ledgers
      BY <1>2, <1>6, ContentsOf
    <2>2. c = [s EXCEPT !.closed = FALSE]
      BY <1>1, <1>6 DEF Alterations
    <2> HIDE DEF s
    <2>3. c \in Ledgers
      BY <2>1, <2>2 DEF Ledgers
    <2> QED BY <1>1, <1>6, <2>3, ContentsOf
  <1>7. CASE c # Bad /\ f = "tsr"
    <2> DEFINE s == files[f]
    <2>1. s \in Stamps
      BY <1>2, <1>7, ContentsOf
    <2>2. c = [s EXCEPT !.closed = FALSE]
      BY <1>1, <1>7 DEF Alterations
    <2> HIDE DEF s
    <2>3. c \in Stamps
      BY <2>1, <2>2 DEF Stamps
    <2> QED BY <1>1, <1>7, <2>3, ContentsOf
  <1> QED BY <1>3, <1>4, <1>5, <1>6, <1>7 DEF File, Beside

-----------------------------------------------------------------------------
(* The inductive invariant *)

\* A co-signature speaks of one that was made.
CoAttested(q, co) == q \in PqParts /\ q.over # None => <<q.key, q.over>> \in co

\* A sidecar speaks of signatures that were made.
Attested(c, made, co) ==
    c \in Sidecars => /\ c.over # None => <<c.key, c.over>> \in made
                      /\ CoAttested(c.pq, co)

\* Wherever a sidecar is, on its way to the disk, there, or with the verifier,
\* and a co-signature before it is put into one.
IInv ==
    /\ TypeOK
    /\ Attested(files["sig"], signed, cosigned) /\ Attested(seen["sig"], signed, cosigned)
    /\ \A p \in Producers : op[p] # None =>
          /\ op[p].file = "sig" => Attested(op[p].content, signed, cosigned)
          /\ op[p].file = "cosign" => CoAttested(op[p].content, cosigned)

\* What an operation holds before and after it has opened its file.
LEMMA HeldOf ==
    /\ Held("pack", FALSE) = Packs /\ Held("tsr", FALSE) = Stamps
    /\ Held("sig", FALSE) = Sidecars /\ Held("cosign", FALSE) = PqParts
    /\ Held("ledger", FALSE) = Digests
    /\ \A f \in File : Held(f, TRUE) = Contents(f)
    /\ \A f \in {"pack", "tsr", "sig"} : Held(f, FALSE) = Contents(f)
    /\ \A f \in File \cup {"cosign"}, o \in BOOLEAN : (o => f # "cosign") =>
          Held(f, o) \subseteq Digests \cup PqParts \cup Packs \cup Ledgers \cup Stamps \cup Sidecars
  BY ContentsOf DEF Held, File, Beside, Contents

LEMMA InitInv ==
    ASSUME Init
    PROVE  IInv
  <1>1. Absent \notin Sidecars /\ Unread \notin Sidecars
    BY ContentsOf DEF File, Beside
  <1>2. "store" \notin File /\ "sig" \in File /\ File \subseteq Input
    BY DEF File, Beside, Input
  <1>3. files \in [File -> Text] /\ \A f \in File : files[f] = Absent
    BY DEF Init, Text
  <1>4. seen \in [Input -> Text \cup Bindings \cup {Unread, None}] /\ \A f \in Input : seen[f] = Unread
    BY DEF Init
  <1>5. "store" \in Input
    BY DEF Input
  <1>6. op \in [Producers -> Operation \cup {None}] /\ \A p \in Producers : op[p] = None
    BY DEF Init
  <1>7. ops \in 0..MaxOps /\ altered \in 0..MaxAlterations
    BY BoundsAssumption DEF Init
  <1>8. TypeOK
    BY <1>2, <1>3, <1>4, <1>5, <1>6, <1>7, Zenon DEF Init, TypeOK
  <1> QED BY <1>1, <1>2, <1>3, <1>4, <1>6, <1>8 DEF IInv, Attested

\* An operation begins.
LEMMA PrepareInv ==
    ASSUME IInv, NEW p \in Producers, NEW f \in File \cup {"cosign"}, NEW c \in Held(f, FALSE),
           Prepare(p, f, c), signed \subseteq signed', signed' \subseteq Keys \X Digests,
           cosigned' \subseteq PqKeys \X Digests,
           cosigned \subseteq cosigned',
           f = "sig" => Attested(c, signed', cosigned'),
           f = "cosign" => CoAttested(c, cosigned')
    PROVE  IInv'
  <1> DEFINE new == [file |-> f, content |-> c, base |-> files["pack"], open |-> FALSE]
  <1>1. new \in Operation
    <2>1. files["pack"] \in Packs \cup {Absent, Bad}
      BY ContentsOf DEF IInv, TypeOK, File, Beside
    <2>2. c \in Digests \cup PqParts \cup Packs \cup Ledgers \cup Stamps \cup Sidecars
      BY HeldOf
    <2> QED BY <2>1, <2>2 DEF Operation
  <1> HIDE DEF new
  <1>2. op' = [op EXCEPT ![p] = new] /\ op \in [Producers -> Operation \cup {None}]
    BY DEF Prepare, IInv, TypeOK, new
  <1>3. op' \in [Producers -> Operation \cup {None}]
    BY <1>1, <1>2
  <1>4. op'[p] = new /\ \A q \in Producers : q # p => op'[q] = op[q]
    BY <1>2
  <1>5. new.file = f /\ new.content = c /\ new.open = FALSE
    BY DEF new
  <1>6. ASSUME NEW q \in Producers, op'[q] # None
        PROVE  /\ op'[q].open => op'[q].file # "cosign"
               /\ op'[q].content \in Held(op'[q].file, op'[q].open)
               /\ op'[q].file = "sig" => Attested(op'[q].content, signed', cosigned')
               /\ op'[q].file = "cosign" => CoAttested(op'[q].content, cosigned')
    <2>1. CASE q = p
      BY <2>1, <1>4, <1>5
    <2>2. CASE q # p
      BY <2>2, <1>4, <1>6 DEF IInv, TypeOK, Attested, CoAttested
    <2> QED BY <2>1, <2>2
  <1>7. ops' \in 0..MaxOps
    BY BoundsAssumption DEF Prepare, IInv, TypeOK
  <1>8. UNCHANGED <<files, altered, base, quiet, seen, fault>>
    BY DEF Prepare, verifying
  <1>9. TypeOK'
    BY <1>3, <1>6, <1>7, <1>8 DEF IInv, TypeOK
  <1>10. Attested(files'["sig"], signed', cosigned') /\ Attested(seen'["sig"], signed', cosigned')
    BY <1>8 DEF IInv, Attested, CoAttested
  <1> QED BY <1>6, <1>9, <1>10 DEF IInv

LEMMA WritePackInv ==
    ASSUME IInv, NEW p \in Producers, NEW b \in Bodies, WritePack(p, b)
    PROVE  IInv'
  <1> DEFINE c == [body |-> b, declared |-> b]
  <1>1. c \in Held("pack", FALSE)
    BY HeldOf DEF Packs, Digests
  <1> HIDE DEF c
  <1>2. Prepare(p, "pack", c) /\ signed' = signed /\ cosigned' = cosigned
    BY DEF WritePack, c
  <1> QED BY <1>1, <1>2, PrepareInv DEF File, IInv, TypeOK

LEMMA SignPackInv ==
    ASSUME IInv, NEW p \in Producers, NEW k \in Keys, SignPack(p, k)
    PROVE  IInv'
  <1> DEFINE d == files["pack"].declared
             c == [closed |-> TRUE, alg |-> "ed25519", form |-> TRUE, key |-> k,
                   digest |-> d, over |-> d, pq |-> None]
  <1>1. files["pack"] \in Packs
    BY ReadableFile, ContentsOf DEF IInv, SignPack, File
  <1>2. d \in Digests
    BY <1>1 DEF Packs
  <1> HIDE DEF d
  <1>3. c \in Held("sig", FALSE) /\ c.key = k /\ c.over = d /\ c.pq = None
    BY <1>2, HeldOf DEF Sidecars
  <1> HIDE DEF c
  <1>4. /\ Prepare(p, "sig", c)
        /\ signed' = signed \cup {<<k, d>>} /\ cosigned' = cosigned
    BY DEF SignPack, c, d
  <1>5. signed \subseteq signed' /\ signed' \subseteq Keys \X Digests
    BY <1>2, <1>4 DEF IInv, TypeOK
  <1>6. cosigned' \subseteq PqKeys \X Digests
    BY <1>4 DEF IInv, TypeOK
  <1>7. Attested(c, signed', cosigned')
    BY <1>3, <1>4 DEF Attested, CoAttested
  <1>8. cosigned \subseteq cosigned'
    BY <1>4
  <1> QED BY <1>3, <1>4, <1>5, <1>6, <1>7, <1>8, PrepareInv DEF File, Beside

LEMMA PqCosignInv ==
    ASSUME IInv, NEW p \in Producers, NEW q \in PqKeys, PqCosign(p, q)
    PROVE  IInv'
  <1> DEFINE d == files["pack"].body
             c == [alg |-> "known", key |-> q, form |-> TRUE, over |-> d]
  <1>1. files["pack"] \in Packs
    BY ReadableFile, ContentsOf DEF IInv, PqCosign, Cosignable, File
  <1>2. d \in Digests
    BY <1>1 DEF Packs, Digests
  <1> HIDE DEF d
  <1>3. c \in Held("cosign", FALSE) /\ c.key = q /\ c.over = d
    BY <1>2, HeldOf DEF PqParts, Algorithms
  <1> HIDE DEF c
  <1>4. /\ Prepare(p, "cosign", c)
        /\ cosigned' = cosigned \cup {<<q, d>>} /\ signed' = signed
    BY DEF PqCosign, c, d
  <1>5. cosigned' \subseteq PqKeys \X Digests /\ signed' \subseteq Keys \X Digests
    BY <1>2, <1>4 DEF IInv, TypeOK
  <1>6. CoAttested(c, cosigned')
    BY <1>3, <1>4 DEF CoAttested
  <1> QED BY <1>3, <1>4, <1>5, <1>6, PrepareInv

LEMMA ForeignCosignInv ==
    ASSUME IInv, NEW p \in Producers, NEW q \in PqKeys, ForeignCosign(p, q)
    PROVE  IInv'
  <1> DEFINE d == files["pack"].declared
             c == [alg |-> "other", key |-> q, form |-> TRUE, over |-> d]
  <1>1. files["pack"] \in Packs
    BY ReadableFile, ContentsOf DEF IInv, ForeignCosign, File
  <1>2. d \in Digests
    BY <1>1 DEF Packs
  <1> HIDE DEF d
  <1>3. c \in Held("cosign", FALSE) /\ c.key = q /\ c.over = d
    BY <1>2, HeldOf DEF PqParts, Algorithms
  <1> HIDE DEF c
  <1>4. /\ Prepare(p, "cosign", c)
        /\ cosigned' = cosigned \cup {<<q, d>>} /\ signed' = signed
    BY DEF ForeignCosign, c, d
  <1>5. cosigned' \subseteq PqKeys \X Digests /\ signed' \subseteq Keys \X Digests
    BY <1>2, <1>4 DEF IInv, TypeOK
  <1>6. CoAttested(c, cosigned')
    BY <1>3, <1>4 DEF CoAttested
  <1> QED BY <1>3, <1>4, <1>5, <1>6, PrepareInv

LEMMA AnchorPackInv ==
    ASSUME IInv, NEW p \in Producers, AnchorPack(p)
    PROVE  IInv'
  <1>1. files["pack"] \in Packs
    BY ReadableFile, ContentsOf DEF IInv, AnchorPack, File
  <1>2. files["pack"].declared \in Held("ledger", FALSE)
    BY <1>1, HeldOf DEF Packs
  <1>3. Prepare(p, "ledger", files["pack"].declared) /\ signed' = signed /\ cosigned' = cosigned
    BY DEF AnchorPack
  <1> QED BY <1>2, <1>3, PrepareInv DEF File, Beside, IInv, TypeOK

LEMMA StampPackInv ==
    ASSUME IInv, NEW p \in Producers, StampPack(p)
    PROVE  IInv'
  <1> DEFINE c == [closed |-> TRUE, stamped |-> files["pack"]]
  <1>1. files["pack"] \in Packs \cup {Bad}
    BY ContentsOf DEF IInv, TypeOK, StampPack, File
  <1>2. c \in Held("tsr", FALSE)
    BY <1>1, HeldOf DEF Stamps
  <1> HIDE DEF c
  <1>3. Prepare(p, "tsr", c) /\ signed' = signed /\ cosigned' = cosigned
    BY DEF StampPack, c
  <1> QED BY <1>2, <1>3, PrepareInv DEF File, Beside, IInv, TypeOK

\* The files are what they should be.
FilesOK(now, made, co) ==
    /\ now \in [File -> Text]
    /\ \A f \in File : now[f] \in Contents(f) \cup {Absent, Bad}
    /\ Attested(now["sig"], made, co)

\* One file gets contents of its kind, or is broken.
LEMMA ReplaceFiles ==
    ASSUME IInv, NEW f \in File, NEW c \in Contents(f) \cup {Bad}, Replace(f, c),
           f = "sig" => Attested(c, signed, cosigned)
    PROVE  FilesOK(files', signed, cosigned) /\ quiet' \in BOOLEAN
  <1>1. files \in [File -> Text] /\ files' = [files EXCEPT ![f] = c] /\ c \in Text
    BY ContentsOf DEF IInv, TypeOK, Replace, Text
  <1>2. files' \in [File -> Text]
    BY <1>1
  <1>3. files'[f] = c /\ \A g \in File : g # f => files'[g] = files[g]
    BY <1>1
  <1>4. "sig" \in File
    BY DEF File, Beside
  <1>5. \A g \in File : files'[g] \in Contents(g) \cup {Absent, Bad}
    BY <1>3 DEF IInv, TypeOK
  <1>6. Attested(files'["sig"], signed, cosigned)
    BY <1>3, <1>4 DEF IInv
  <1>7. quiet' \in BOOLEAN
    BY Zenon DEF Replace
  <1> QED BY <1>2, <1>5, <1>6, <1>7 DEF FilesOK

\* An operation under way may hold this.
OpOK(o) ==
    o # None =>
        /\ o \in Operation
        /\ o.open => o.file # "cosign"
        /\ o.content \in Held(o.file, o.open)
        /\ o.file = "sig" => Attested(o.content, signed, cosigned)
        /\ o.file = "cosign" => CoAttested(o.content, cosigned)

\* A step of an operation under way.
LEMMA GoesOnInv ==
    ASSUME IInv, NEW p \in Producers, NEW o, OpOK(o), op' = [op EXCEPT ![p] = o],
           FilesOK(files', signed, cosigned), quiet' \in BOOLEAN,
           UNCHANGED <<ops, altered, signed, cosigned, verifying>>
    PROVE  IInv'
  <1>1. op' \in [Producers -> Operation \cup {None}]
    BY DEF IInv, TypeOK, OpOK
  <1>2. op'[p] = o /\ \A q \in Producers : q # p => op'[q] = op[q]
    BY DEF IInv, TypeOK
  <1>3. ASSUME NEW q \in Producers, op'[q] # None
        PROVE  /\ op'[q].open => op'[q].file # "cosign"
               /\ op'[q].content \in Held(op'[q].file, op'[q].open)
               /\ op'[q].file = "sig" => Attested(op'[q].content, signed', cosigned')
               /\ op'[q].file = "cosign" => CoAttested(op'[q].content, cosigned')
    <2>1. CASE q = p
      BY <2>1, <1>2, <1>3 DEF OpOK
    <2>2. CASE q # p
      BY <2>2, <1>2, <1>3 DEF IInv, TypeOK
    <2> QED BY <2>1, <2>2
  <1>4. UNCHANGED <<ops, altered, signed, cosigned, seen, fault>>
    BY DEF verifying
  <1>5. /\ files' \in [File -> Text]
        /\ \A f \in File : files'[f] \in Contents(f) \cup {Absent, Bad}
        /\ Attested(files'["sig"], signed', cosigned')
    BY <1>4 DEF FilesOK
  <1>6. TypeOK'
    BY <1>1, <1>3, <1>4, <1>5 DEF IInv, TypeOK
  <1>7. Attested(seen'["sig"], signed', cosigned')
    BY <1>4 DEF IInv
  <1> QED BY <1>3, <1>5, <1>6, <1>7 DEF IInv

\* Files that nobody writes stay what they should be.
LEMMA SameFiles ==
    ASSUME IInv, UNCHANGED <<files, quiet>>
    PROVE  FilesOK(files', signed, cosigned) /\ quiet' \in BOOLEAN
  BY DEF IInv, TypeOK, FilesOK

LEMMA AddPqSignatureInv ==
    ASSUME IInv, NEW p \in Producers, AddPqSignature(p)
    PROVE  IInv'
  <1> DEFINE o == op[p]
             side == [files["sig"] EXCEPT !.pq = o.content]
             made == IF base["sig"] = o.base THEN o.base ELSE None
             new == [o EXCEPT !.file = "sig", !.content = side, !.base = made]
  <1>1. o \in Operation /\ o.file = "cosign" /\ ~o.open /\ o.content \in PqParts /\ CoAttested(o.content, cosigned)
    BY HeldOf DEF IInv, TypeOK, AddPqSignature, Operation
  <1>2. CASE Readable(files["sig"])
    <2>1. files["sig"] \in Sidecars
      BY <1>2, ReadableFile, ContentsOf DEF IInv, File, Beside
    <2>2. side \in Sidecars /\ side.over = files["sig"].over /\ side.key = files["sig"].key
          /\ side.pq = o.content
      BY <1>1, <2>1 DEF Sidecars
    <2>3. Attested(side, signed, cosigned)
      BY <1>1, <2>1, <2>2 DEF IInv, Attested
    <2> HIDE DEF side, o
    <2>4. made \in Packs \cup {Absent, Bad, None}
      BY <1>1 DEF Operation
    <2> HIDE DEF made
    <2>5. new \in Operation /\ new.file = "sig" /\ new.content = side /\ new.open = FALSE
      BY <1>1, <2>2, <2>4 DEF Operation, File, Beside
    <2> HIDE DEF new
    <2>6. OpOK(new)
      BY <2>2, <2>3, <2>5, HeldOf DEF OpOK
    <2>7. op' = [op EXCEPT ![p] = new]
      BY <1>2 DEF AddPqSignature, new, made, side, o
    <2>8. UNCHANGED <<ops, altered, signed, cosigned, verifying>> /\ UNCHANGED <<files, quiet>>
      BY DEF AddPqSignature
    <2> QED BY <2>6, <2>7, <2>8, SameFiles, GoesOnInv
  <1>3. CASE ~Readable(files["sig"])
    <2>1. op' = [op EXCEPT ![p] = None] /\ OpOK(None)
      BY <1>3 DEF AddPqSignature, OpOK
    <2>2. UNCHANGED <<ops, altered, signed, cosigned, verifying>> /\ UNCHANGED <<files, quiet>>
      BY DEF AddPqSignature
    <2> QED BY <2>1, <2>2, SameFiles, GoesOnInv
  <1> QED BY <1>2, <1>3

LEMMA OpensInv ==
    ASSUME IInv, NEW p \in Producers, Opens(p)
    PROVE  IInv'
  <1> DEFINE o == op[p]
             old == files[o.file]
             text == IF o.file # "ledger" THEN o.content
                     ELSE IF old = Absent THEN [closed |-> TRUE, anchors |-> {o.content}]
                     ELSE [old EXCEPT !.anchors = old.anchors \cup {o.content}]
             new == [o EXCEPT !.open = TRUE, !.content = text]
  <1>1. /\ o \in Operation /\ o.file \in File /\ o.open = FALSE /\ o.content \in Held(o.file, FALSE)
        /\ o.file = "sig" => Attested(o.content, signed, cosigned)
    BY DEF IInv, TypeOK, Opens, Operation
  <1>2. UNCHANGED <<ops, altered, signed, cosigned, verifying>>
    BY DEF Opens
  <1>3. CASE o.file = "ledger" /\ old = Bad
    <2>1. op' = [op EXCEPT ![p] = None] /\ UNCHANGED <<files, quiet>> /\ OpOK(None)
      BY <1>3 DEF Opens, OpOK
    <2> QED BY <1>2, <2>1, SameFiles, GoesOnInv
  <1>4. CASE ~(o.file = "ledger" /\ old = Bad)
    <2>1. op' = [op EXCEPT ![p] = new] /\ Replace(o.file, Bad)
      BY <1>4 DEF Opens
    <2>2. text \in Contents(o.file)
      <3>1. CASE o.file # "ledger"
        BY <1>1, <3>1, HeldOf, ContentsOf DEF File, Beside
      <3>2. CASE o.file = "ledger" /\ old = Absent
        <4>1. o.content \in Digests /\ text = [closed |-> TRUE, anchors |-> {o.content}]
          BY <1>1, <3>2, HeldOf
        <4>2. \A d \in Digests : [closed |-> TRUE, anchors |-> {d}] \in Ledgers
          BY DEF Ledgers
        <4> QED BY <3>2, <4>1, <4>2, ContentsOf
      <3>3. CASE o.file = "ledger" /\ old # Absent
        <4>1. old \in Ledgers /\ o.content \in Digests
          BY <1>1, <1>4, <3>3, HeldOf, ContentsOf DEF IInv, TypeOK
        <4> HIDE DEF old
        <4>2. [old EXCEPT !.anchors = old.anchors \cup {o.content}] \in Ledgers
          BY <4>1 DEF Ledgers
        <4> QED BY <3>3, <4>2, ContentsOf
      <3> QED BY <3>1, <3>2, <3>3
    <2>3. o.file = "sig" => text = o.content
      OBVIOUS
    <2> HIDE DEF text, o
    <2>4. text \in Digests \cup PqParts \cup Packs \cup Ledgers \cup Stamps \cup Sidecars
      BY <1>1, <2>2, ContentsOf DEF File, Beside
    <2>5. new \in Operation /\ new.file = o.file /\ new.content = text /\ new.open = TRUE
      BY <1>1, <2>4 DEF Operation
    <2> HIDE DEF new
    <2>6. OpOK(new)
      BY <1>1, <2>2, <2>3, <2>5, HeldOf DEF OpOK, File, Beside
    <2>7. FilesOK(files', signed, cosigned) /\ quiet' \in BOOLEAN
      <3>1. Attested(Bad, signed, cosigned)
        BY ContentsOf DEF Attested, File, Beside
      <3> QED BY <1>1, <2>1, <3>1, ReplaceFiles
    <2> QED BY <1>2, <2>1, <2>6, <2>7, GoesOnInv
  <1> QED BY <1>3, <1>4

LEMMA WritesInv ==
    ASSUME IInv, NEW p \in Producers, Writes(p)
    PROVE  IInv'
  <1>1. /\ op[p].file \in File /\ op[p].content \in Contents(op[p].file)
        /\ op[p].file = "sig" => Attested(op[p].content, signed, cosigned)
    <2>1. op[p] \in Operation /\ op[p] # None /\ op[p].open
      BY DEF IInv, TypeOK, Writes
    <2>2. op[p].open = TRUE /\ op[p].file \in File
      BY <2>1 DEF IInv, TypeOK, Operation
    <2>3. op[p].content \in Held(op[p].file, TRUE)
      BY <2>1, <2>2, Zenon DEF IInv, TypeOK
    <2> QED BY <2>1, <2>2, <2>3, HeldOf DEF IInv
  <1>2. PICK c \in Outcomes(p) : Replace(op[p].file, c)
    BY DEF Writes
  <1>3. c = op[p].content \/ c = Bad
    BY DEF Outcomes
  <1>4. Attested(Bad, signed, cosigned)
    BY ContentsOf DEF Attested, File, Beside
  <1>5. FilesOK(files', signed, cosigned) /\ quiet' \in BOOLEAN
    BY <1>1, <1>2, <1>3, <1>4, ReplaceFiles
  <1>6. op' = [op EXCEPT ![p] = None] /\ OpOK(None)
        /\ UNCHANGED <<ops, altered, signed, cosigned, verifying>>
    BY DEF Writes, OpOK
  <1> QED BY <1>5, <1>6, GoesOnInv

LEMMA DiesInv ==
    ASSUME IInv, NEW p \in Producers, Dies(p)
    PROVE  IInv'
  <1>1. op' = [op EXCEPT ![p] = None] /\ OpOK(None) /\ UNCHANGED <<files, quiet>>
        /\ UNCHANGED <<ops, altered, signed, cosigned, verifying>>
    BY DEF Dies, OpOK
  <1> QED BY <1>1, SameFiles, GoesOnInv

LEMMA AlterInv ==
    ASSUME IInv, NEW f \in File, NEW c \in Alterations(f), Alter(f, c)
    PROVE  IInv'
  <1>1. Readable(files[f]) /\ c \in Contents(f) \cup {Bad}
    BY AlterationsOf DEF IInv
  <1>2. ASSUME f = "sig"
        PROVE  Attested(c, signed, cosigned)
    <2>1. CASE c = Bad
      BY <2>1, ContentsOf DEF Attested, File, Beside
    <2>2. CASE c # Bad
      <3>1. /\ c.over = None \/ (c.over = files["sig"].over /\ c.key = files["sig"].key)
            /\ SamePq(c.pq, files["sig"].pq)
        BY <1>2, <2>2, AlterationsOf DEF IInv
      <3>2. files["sig"] \in Sidecars
        BY <1>1, <1>2, ReadableFile, ContentsOf DEF IInv
      <3> QED BY <3>1, <3>2 DEF IInv, Attested, CoAttested, SamePq
    <2> QED BY <2>1, <2>2
  <1>3. FilesOK(files', signed, cosigned) /\ quiet' \in BOOLEAN
    BY <1>1, <1>2, ReplaceFiles DEF Alter
  <1>4. altered' \in 0..MaxAlterations
    BY BoundsAssumption DEF Alter, IInv, TypeOK
  <1>5. UNCHANGED <<op, ops, signed, cosigned, seen, fault>>
    BY DEF Alter, verifying
  <1>6. /\ files' \in [File -> Text]
        /\ \A g \in File : files'[g] \in Contents(g) \cup {Absent, Bad}
        /\ Attested(files'["sig"], signed', cosigned')
    BY <1>3, <1>5 DEF FilesOK
  <1>7. TypeOK'
    BY <1>3, <1>4, <1>5, <1>6 DEF IInv, TypeOK
  <1> QED BY <1>5, <1>6, <1>7 DEF IInv

-----------------------------------------------------------------------------
(* The verifier reads what is there *)

\* One more file, or the store, has been read.
LEMMA ReadInv ==
    ASSUME IInv, NEW f \in Input, NEW c, seen' = [seen EXCEPT ![f] = c],
           f \in File => c = files[f],
           f = "store" => c \in Bindings \cup {Absent, Bad, None},
           UNCHANGED <<fault, producing>>
    PROVE  IInv'
  <1>1. "store" \in Input /\ "sig" \in File /\ "store" \notin File /\ (f \in File \/ f = "store")
        /\ File \subseteq Input
    BY DEF Input, File, Beside
  <1>2. UNCHANGED <<files, op, ops, altered, signed, cosigned, quiet, fault>>
    BY DEF producing
  <1>3. c \in Text \cup Bindings \cup {Unread, None}
    BY <1>1 DEF IInv, TypeOK, Text
  <1>4. seen \in [Input -> Text \cup Bindings \cup {Unread, None}]
    BY DEF IInv, TypeOK
  <1>5. seen' \in [Input -> Text \cup Bindings \cup {Unread, None}]
    BY <1>3, <1>4
  <1>6. seen'[f] = c /\ \A g \in Input : g # f => seen'[g] = seen[g]
    BY <1>4
  <1>7. \A g \in File : seen'[g] \in Contents(g) \cup {Absent, Bad, Unread}
    BY <1>1, <1>6 DEF IInv, TypeOK
  <1>8. seen'["store"] \in Bindings \cup {Absent, Bad, Unread, None}
    BY <1>1, <1>6 DEF IInv, TypeOK
  <1>9. TypeOK'
    BY <1>2, <1>5, <1>7, <1>8 DEF IInv, TypeOK
  <1>10. Attested(seen'["sig"], signed', cosigned')
    BY <1>1, <1>2, <1>6 DEF IInv
  <1> QED BY <1>2, <1>9, <1>10 DEF IInv

LEMMA VerifyInv ==
    ASSUME IInv, Verify
    PROVE  IInv'
  <1>1. ASSUME ReadPack PROVE IInv'
    BY <1>1, ReadInv DEF ReadPack, Input, File, Beside
  <1>2. ASSUME NEW f \in Beside, NEW after, Reads(f, after) PROVE IInv'
    BY <1>2, ReadInv DEF Reads, Input, File, Beside
  <1>3. ASSUME NEW c \in Stores(seen), ReadStore(c) PROVE IInv'
    <2>1. c \in Bindings \cup {Absent, Bad, None}
      BY <1>3 DEF Stores
    <2> QED BY <1>3, <2>1, ReadInv DEF ReadStore, Input, File, Beside
  <1>4. ASSUME Fault PROVE IInv'
    <2>1. UNCHANGED <<files, op, ops, altered, signed, cosigned, quiet, seen>> /\ fault' \in BOOLEAN
      BY <1>4 DEF Fault, producing
    <2> QED BY <2>1 DEF IInv, TypeOK
  <1> QED BY <1>1, <1>2, <1>3, <1>4 DEF Verify, Beside

-----------------------------------------------------------------------------
(* A check that cannot run here *)

\* The verdict, of the layers.
LEMMA VerdictOf ==
    ASSUME NEW s, NEW o, NEW h
    PROVE  LET layers == Layers(s, o, h)
               verdict == Verdict(Receipt(s, o, h), o)
           IN /\ ~Assessed(layers) => verdict = "NOT_ASSESSED"
              /\ Assessed(layers) => verdict # "NOT_ASSESSED"
              /\ Assessed(layers) /\ ~Valid(layers) => verdict = "FAIL"
  <1> DEFINE layers == Layers(s, o, h)
             r == Receipt(s, o, h)
  <1>1. r.valid = Valid(layers) /\ r.assessed = Assessed(layers)
    BY DEF Receipt
  <1> HIDE DEF layers, r
  <1>2. Verdict(r, o) = "PASS" \/ Verdict(r, o) = IF r.assessed THEN "FAIL" ELSE "NOT_ASSESSED"
    BY DEF Verdict
  <1>3. Verdict(r, o) = "PASS" => r.valid /\ r.assessed
    BY DEF Verdict
  <1> QED BY <1>1, <1>2, <1>3 DEF layers, r

\* A layer that was looked at, and the same with no one able to look.
LEMMA OneUnchecked ==
    ASSUME NEW rest, NEW t, NEW u, \A l \in rest : l.assessed, t.assessed, ~u.assessed,
           Assessed(rest \cup {u})
    PROVE  Assessed(rest \cup {t}) /\ ~Valid(rest \cup {t})
  <1>1. PICK l \in rest \cup {u} : l.status = "FAIL" /\ l.assessed
    BY DEF Assessed
  <1>2. l \in rest
    BY <1>1
  <1> QED BY <1>1, <1>2 DEF Assessed, Valid

\* The layers that no post-quantum backend has a part in.
OtherLayers(s, o) ==
    PackLayers(s) \cup When(s.ledger # Unread, {LedgerLayer(s)}) \cup When(s.tsr # Unread, {TimestampLayer(s)})
    \cup When(s.sig # Unread, {Layer("producer-signature", SignatureStatus(s, o))})
    \cup When(s.store # Unread, TrustLayers(s) \cup {Judged("authenticity", Authentic(s, o))})

LEMMA LayersOf ==
    ASSUME NEW s, NEW o, NEW h, Readable(s.pack)
    PROVE  Layers(s, o, h) = OtherLayers(s, o) \cup When(s.store # Unread, PqLayers(s, o, h))
  BY ZenonT(30) DEF Layers, OtherLayers, When

LEMMA OthersAssessed ==
    ASSUME NEW s, NEW o, NEW l \in OtherLayers(s, o)
    PROVE  l.assessed = TRUE
  <1>1. \A name, status : Layer(name, status).assessed = TRUE
    BY DEF Layer
  <1>2. \A name, ok : Judged(name, ok).assessed = TRUE
    BY DEF Judged, Layer
  <1>3. LedgerLayer(s).assessed = TRUE /\ TimestampLayer(s).assessed = TRUE
    BY <1>1, <1>2 DEF LedgerLayer, TimestampLayer
  <1>4. \A k \in PackLayers(s) \cup TrustLayers(s) : k.assessed = TRUE
    BY <1>1, <1>2 DEF PackLayers, TrustLayers, When
  <1> QED BY <1>1, <1>2, <1>3, <1>4 DEF OtherLayers, When

\* With the backend of the known algorithms every layer was looked at.
LEMMA AllAssessed ==
    ASSUME NEW s, NEW o, NEW h, "known" \in h
    PROVE  Assessed(Layers(s, o, h))
  <1>1. \A name, status : Layer(name, status).assessed = TRUE
    BY DEF Layer
  <1>2. \A l \in PqLayers(s, o, h) : l.assessed = TRUE
    <2>1. s.sig.pq.alg \notin h => PqUnchecked(s, o).assessed = TRUE
      BY DEF PqUnchecked
    <2> QED BY <1>1, <2>1 DEF PqLayers, CosignatureLayers, When
  <1>3. CASE Readable(s.pack)
    <2>1. \A l \in Layers(s, o, h) : l.assessed = TRUE
      <3>1. Layers(s, o, h) \subseteq OtherLayers(s, o) \cup PqLayers(s, o, h)
        <4>1. Layers(s, o, h) = OtherLayers(s, o) \cup When(s.store # Unread, PqLayers(s, o, h))
          BY <1>3, LayersOf
        <4>2. \A condition \in BOOLEAN : \A layers : When(condition, layers) \subseteq layers
          BY DEF When
        <4>3. (s.store # Unread) \in BOOLEAN
          OBVIOUS
        <4> QED BY <4>1, <4>2, <4>3
      <3>2. \A l \in OtherLayers(s, o) : l.assessed = TRUE
        BY OthersAssessed
      <3> QED BY <1>2, <3>1, <3>2
    <2> QED BY <2>1 DEF Assessed
  <1>4. CASE ~Readable(s.pack)
    BY <1>1, <1>4 DEF Assessed, Layers, When
  <1> QED BY <1>3, <1>4

\* A host without it, and the same host with it.
With(h) == h \cup {"known"}

\* Without it, either the same layers, or exactly one of them was not looked at.
LEMMA WithoutBackend ==
    ASSUME NEW s, NEW o, NEW h, "known" \notin h
    PROVE  \/ Layers(s, o, h) = Layers(s, o, With(h))
           \/ /\ Layers(s, o, h) = OtherLayers(s, o) \cup {PqUnchecked(s, o)}
              /\ Layers(s, o, With(h)) = OtherLayers(s, o) \cup {Layer("pq-signature", PqStatus(s, o))}
              /\ PqUnchecked(s, o).assessed = FALSE
  <1> DEFINE unchecked == /\ Readable(s.pack) /\ s.store # Unread /\ SignatureHolds(s)
                          /\ s.sig.pq # None /\ ~PqRefused(s, o) /\ s.sig.pq.alg = "known"
  <1>1. CASE unchecked
    <2>1. PqLayers(s, o, h) = {PqUnchecked(s, o)}
      BY <1>1 DEF PqLayers, CosignatureLayers
    <2>2. PqLayers(s, o, With(h)) = {Layer("pq-signature", PqStatus(s, o))}
      BY <1>1 DEF PqLayers, CosignatureLayers, With
    <2>3. PqUnchecked(s, o).assessed = FALSE
      BY <1>1 DEF PqUnchecked
    <2> QED BY <1>1, <2>1, <2>2, <2>3, LayersOf DEF When
  <1>2. CASE ~Readable(s.pack)
    BY <1>2 DEF Layers
  <1>3. CASE Readable(s.pack) /\ s.store = Unread
    BY <1>3, LayersOf DEF When
  <1>4. CASE Readable(s.pack) /\ s.store # Unread /\ ~unchecked
    <2>1. s.sig.pq.alg # "known" => (s.sig.pq.alg \in h <=> s.sig.pq.alg \in With(h))
      BY DEF With
    <2>2. PqLayers(s, o, h) = PqLayers(s, o, With(h))
      BY <1>4, <2>1 DEF PqLayers, CosignatureLayers
    <2> QED BY <1>4, <2>2, LayersOf
  <1> QED BY <1>1, <1>2, <1>3, <1>4

\* A host that cannot check a known algorithm answers NOT_ASSESSED, or what it
\* would answer if it could.
LEMMA AbsenceDecidesNothing ==
    ASSUME NEW s, NEW o, NEW h, "known" \notin h
    PROVE  LET able == Verdict(Receipt(s, o, With(h)), o)
               unable == Verdict(Receipt(s, o, h), o)
           IN able # "NOT_ASSESSED" /\ (unable = "NOT_ASSESSED" \/ unable = able)
  <1> DEFINE able == Verdict(Receipt(s, o, With(h)), o)
             unable == Verdict(Receipt(s, o, h), o)
  <1>1. able # "NOT_ASSESSED"
    <2>1. "known" \in With(h)
      BY DEF With
    <2> QED BY <2>1, AllAssessed, VerdictOf
  <1>2. CASE Layers(s, o, h) = Layers(s, o, With(h))
    <2>1. Receipt(s, o, h) = Receipt(s, o, With(h))
      BY <1>2 DEF Receipt
    <2> QED BY <1>1, <2>1
  <1>3. CASE /\ Layers(s, o, h) = OtherLayers(s, o) \cup {PqUnchecked(s, o)}
             /\ Layers(s, o, With(h)) = OtherLayers(s, o) \cup {Layer("pq-signature", PqStatus(s, o))}
             /\ PqUnchecked(s, o).assessed = FALSE
    <2>1. CASE ~Assessed(Layers(s, o, h))
      BY <1>1, <2>1, VerdictOf
    <2>2. CASE Assessed(Layers(s, o, h))
      <3> DEFINE t == Layer("pq-signature", PqStatus(s, o))
                 u == PqUnchecked(s, o)
                 rest == OtherLayers(s, o)
      <3>1. t.assessed /\ ~u.assessed /\ \A l \in rest : l.assessed
        BY <1>3, OthersAssessed DEF Layer
      <3>2. Layers(s, o, h) = rest \cup {u} /\ Layers(s, o, With(h)) = rest \cup {t}
        BY <1>3
      <3> HIDE DEF t, u, rest
      <3>3. ~Valid(rest \cup {t}) /\ Assessed(rest \cup {t})
        BY <2>2, <3>1, <3>2, OneUnchecked
      <3>4. ~Valid(rest \cup {u})
        <4>1. PICK l \in rest \cup {u} : l.status = "FAIL" /\ l.assessed
          BY <2>2, <3>1, <3>2 DEF Assessed
        <4> QED BY <4>1 DEF Valid
      <3>5. able = "FAIL"
        BY <2>2, <3>2, <3>3, VerdictOf, ZenonT(30)
      <3>6. unable = "FAIL"
        BY <2>2, <3>2, <3>4, VerdictOf, ZenonT(30)
      <3> QED BY <3>5, <3>6
    <2> QED BY <2>1, <2>2
  <1> QED BY <1>2, <1>3, WithoutBackend

-----------------------------------------------------------------------------
(* What a PASS rests on *)

\* No layer of a receipt that passes has failed.
LEMMA PassLayers ==
    ASSUME NEW s, NEW o, NEW h, Verdict(Receipt(s, o, h), o) = "PASS"
    PROVE  /\ Readable(s.pack)
           /\ \A l \in Layers(s, o, h) : l.status # "FAIL"
           /\ o.requirePq \/ o.expected # None => Layer("pq-signature", "PASS") \in Layers(s, o, h)
  <1> DEFINE layers == Layers(s, o, h)
             r == Receipt(s, o, h)
  <1>1. r.valid = Valid(layers) /\ r.pq_protected = PqProtected(layers)
    BY DEF Receipt
  <1> HIDE DEF r, layers
  <1>2. r.valid /\ (o.requirePq \/ o.expected # None => r.pq_protected = TRUE)
    BY DEF Verdict, r
  <1>3. \A l \in layers : l.status # "FAIL"
    BY <1>1, <1>2 DEF Valid
  <1>4. \E l \in layers : TRUE
    BY <1>1, <1>2 DEF Valid
  <1>5. Readable(s.pack)
    <2>1. ASSUME ~Readable(s.pack) PROVE FALSE
      <3>1. layers \subseteq {Layer("pack-json", "FAIL")}
        BY <2>1 DEF layers, Layers, When
      <3> QED BY <1>3, <1>4, <3>1 DEF Layer
    <2> QED BY <2>1
  <1>6. PqProtected(layers) = TRUE => Layer("pq-signature", "PASS") \in layers
    BY MarksAssumption DEF PqProtected
  <1> QED BY <1>1, <1>2, <1>3, <1>5, <1>6 DEF layers

\* The layer of a co-signature passes only for the pinned key, over what the pack declares.
LEMMA PqLayerPasses ==
    ASSUME NEW s, NEW o, NEW h, Layer("pq-signature", "PASS") \in PqLayers(s, o, h)
    PROVE  /\ SignatureHolds(s)
           /\ s.sig.pq # None /\ s.sig.pq.key = Pinned(s, o) /\ s.sig.pq.over = s.pack.declared
  <1>1. Layer("pq-signature", "PASS").status = "PASS" /\ Layer("pq-signature", "FAIL").status = "FAIL"
        /\ PqUnchecked(s, o).status \in {"FAIL", "SKIP"}
        /\ Layer("pq-signature", PqStatus(s, o)).status = PqStatus(s, o)
    BY DEF Layer, PqUnchecked
  <1>2. SignatureHolds(s) /\ s.sig.pq # None /\ PqStatus(s, o) = "PASS"
    BY <1>1 DEF PqLayers, CosignatureLayers, When
  <1>3. ~PqRefused(s, o) /\ PqVerifies(s) /\ Pinned(s, o) # None
    BY <1>2 DEF PqStatus
  <1> QED BY <1>2, <1>3 DEF PqRefused, PqVerifies

\* What passes is what it declares, and is signed, or anchored where no signature was asked for.
LEMMA PassMeans ==
    ASSUME NEW s, NEW o, NEW h, s.store # Unread, Verdict(Receipt(s, o, h), o) = "PASS"
    PROVE  /\ Readable(s.pack) /\ s.pack.declared = s.pack.body
           /\ SignatureHolds(s) \/ (~o.requireSigned /\ Anchored(s))
           /\ o.requirePq \/ o.expected # None =>
                 /\ SignatureHolds(s)
                 /\ s.sig.pq # None /\ s.sig.pq.key = Pinned(s, o) /\ s.sig.pq.over = s.pack.declared
  <1>1. /\ Readable(s.pack) /\ \A l \in Layers(s, o, h) : l.status # "FAIL"
        /\ o.requirePq \/ o.expected # None => Layer("pq-signature", "PASS") \in Layers(s, o, h)
    BY PassLayers
  <1>2. Layers(s, o, h) = OtherLayers(s, o) \cup PqLayers(s, o, h)
    BY <1>1, LayersOf DEF When
  <1>3. /\ Judged("pack-sha3", s.pack.declared = s.pack.body) \in OtherLayers(s, o)
        /\ Judged("authenticity", Authentic(s, o)) \in OtherLayers(s, o)
    BY DEF OtherLayers, PackLayers, When
  <1>4. /\ Judged("pack-sha3", s.pack.declared = s.pack.body).status # "FAIL"
        /\ Judged("authenticity", Authentic(s, o)).status # "FAIL"
    BY <1>1, <1>2, <1>3
  <1>5. s.pack.declared = s.pack.body /\ Authentic(s, o)
    BY <1>4 DEF Judged, Layer
  <1>6. SignatureHolds(s) \/ (~o.requireSigned /\ Anchored(s))
    BY <1>5 DEF Authentic, SignatureStatus
  <1>7. Layer("pq-signature", "PASS") \notin OtherLayers(s, o)
    <2>1. /\ \A name, status : Layer(name, status).layer = name
          /\ \A name, ok : Judged(name, ok).layer = name
      BY DEF Layer, Judged
    <2>2. LedgerLayer(s).layer = "ledger-chain" /\ TimestampLayer(s).layer = "rfc3161"
      BY <2>1 DEF LedgerLayer, TimestampLayer
    <2>3. \A l \in PackLayers(s) : l.layer \in {"pack-json", "honest-scope", "pack-sha3"}
      BY <2>1 DEF PackLayers
    <2>4. \A l \in TrustLayers(s) : l.layer = "trusted-signer"
      BY <2>1 DEF TrustLayers, When
    <2> QED BY <2>1, <2>2, <2>3, <2>4 DEF OtherLayers, When
  <1>8. o.requirePq \/ o.expected # None => Layer("pq-signature", "PASS") \in PqLayers(s, o, h)
    BY <1>1, <1>2, <1>7
  <1> QED BY <1>1, <1>5, <1>6, <1>8, PqLayerPasses

-----------------------------------------------------------------------------
(* Theorems *)

LEMMA NextInv ==
    ASSUME IInv, [Next]_vars
    PROVE  IInv'
  <1>1. ASSUME NEW p \in Producers, Produce(p) PROVE IInv'
    BY <1>1, WritePackInv, SignPackInv, PqCosignInv, ForeignCosignInv, AddPqSignatureInv,
       AnchorPackInv, StampPackInv, OpensInv, WritesInv, DiesInv DEF Produce
  <1>2. ASSUME NEW f \in File, NEW c \in Alterations(f), Alter(f, c) PROVE IInv'
    BY <1>2, AlterInv
  <1>3. CASE UNCHANGED vars
    <2>1. UNCHANGED <<files, op, ops, altered, signed, cosigned, quiet, seen, fault>>
      BY <1>3 DEF vars, producing, verifying
    <2> QED BY <2>1 DEF IInv, TypeOK
  <1> QED BY <1>1, <1>2, <1>3, VerifyInv DEF Next

\* A sidecar with a signature, on its way, on the disk or with the verifier,
\* speaks of one that its key made: write, torn write, merge of a co-signature
\* and alteration by others keep it so.
THEOREM PackInvariant == Spec => []IInv
  BY InitInv, NextInv, PTL DEF Spec

\* The variables keep their types (type invariant), whatever was begun and torn.
THEOREM PackTypeOK == Spec => []TypeOK
  <1>1. IInv => TypeOK
    BY DEF IInv
  <1> QED BY <1>1, PackInvariant, PTL

\* The receipt says authenticated only of a content that the key really signed,
\* and that a trust store, when there is one, binds to it.
THEOREM PackAuthenticated == Spec => []AuthenticatedIsSigned
  <1>1. ASSUME IInv, Done, Authenticated(seen)
        PROVE  /\ <<seen["sig"].key, seen["pack"].body>> \in signed
               /\ seen["store"] # None => seen["store"].key = seen["sig"].key /\ ~seen["store"].revoked
    <2>1. seen["pack"] \in Packs /\ seen["sig"] \in Sidecars
      BY <1>1, ContentsOf DEF IInv, TypeOK, Authenticated, SignatureHolds, Readable, File, Beside
    <2>2. seen["sig"].over = seen["pack"].body /\ seen["pack"].body # None
      BY <1>1, <2>1, MarksAssumption DEF Authenticated, SignatureHolds, Packs
    <2>3. <<seen["sig"].key, seen["pack"].body>> \in signed
      BY <1>1, <2>1, <2>2 DEF IInv, Attested
    <2>4. seen["store"] # None => Trusted(seen)
      BY <1>1 DEF Authenticated, TrustFailed
    <2> QED BY <2>3, <2>4 DEF Trusted
  <1>2. IInv => AuthenticatedIsSigned
    BY <1>1 DEF AuthenticatedIsSigned
  <1> QED BY <1>2, PackInvariant, PTL

\* The missing backend of an algorithm this project knows is neither a pass nor a
\* finding, whatever other backends are there: the host answers NOT_ASSESSED or
\* what it would answer with it, and with it there is a verdict.
THEOREM PackAbsence == Spec => []AbsenceNeverDecides
  <1>1. AbsenceNeverDecides
    BY AbsenceDecidesNothing DEF AbsenceNeverDecides, With
  <1> QED BY <1>1, PTL

\* PASS keeps its promises at once: the content is signed or anchored by its own
\* digest, a required signature is there, and a required post-quantum layer is
\* that of the pinned key, over the digest the producer signed.
THEOREM PackPassIsEarned == Spec => []PassIsEarned
  <1>1. ASSUME IInv, Done, NEW o \in Options, NEW h \in Hosts,
               Verdict(Receipt(seen, o, h), o) = "PASS"
        PROVE  LET body == seen["pack"].body
                   isSigned == Readable(seen["sig"]) /\ <<seen["sig"].key, body>> \in signed
               IN  /\ isSigned \/ (Readable(seen["ledger"]) /\ body \in seen["ledger"].anchors)
                   /\ o.requireSigned => isSigned
                   /\ o.requirePq \/ o.expected # None =>
                         /\ isSigned
                         /\ <<Pinned(seen, o), body>> \in cosigned
    <2> DEFINE body == seen["pack"].body
               sig == seen["sig"]
    <2>1. Readable(seen["pack"])
      BY <1>1, PassLayers
    <2>2. seen["store"] # Unread
      BY <1>1, <2>1 DEF Done, Ended
    <2>3. /\ seen["pack"].declared = body
          /\ SignatureHolds(seen) \/ (~o.requireSigned /\ Anchored(seen))
          /\ o.requirePq \/ o.expected # None =>
                /\ SignatureHolds(seen)
                /\ sig.pq # None /\ sig.pq.key = Pinned(seen, o) /\ sig.pq.over = body
      BY <1>1, <2>2, PassMeans
    <2>4. body # None
      <3>1. seen["pack"] \in Packs
        BY <1>1, <2>1, ContentsOf DEF IInv, TypeOK, Readable, File
      <3> QED BY <3>1, MarksAssumption DEF Packs
    <2>5. SignatureHolds(seen) => sig \in Sidecars /\ Readable(sig) /\ sig.over = body
      BY <1>1, <2>3, ContentsOf DEF IInv, TypeOK, SignatureHolds, Readable, File, Beside
    <2>6. SignatureHolds(seen) => <<sig.key, body>> \in signed
      BY <1>1, <2>4, <2>5 DEF IInv, Attested
    <2>7. Anchored(seen) => Readable(seen["ledger"]) /\ body \in seen["ledger"].anchors
      BY <2>3 DEF Anchored
    <2>8. o.requirePq \/ o.expected # None => <<Pinned(seen, o), body>> \in cosigned
      <3> SUFFICES ASSUME o.requirePq \/ o.expected # None PROVE <<Pinned(seen, o), body>> \in cosigned
        OBVIOUS
      <3>1. sig.pq \in PqParts
        BY <2>3, <2>5 DEF Sidecars
      <3> QED BY <1>1, <2>3, <2>4, <2>5, <3>1 DEF IInv, Attested, CoAttested
    <2> QED BY <2>3, <2>5, <2>6, <2>7, <2>8
  <1>2. IInv => PassIsEarned
    BY <1>1, Zenon DEF PassIsEarned
  <1> QED BY <1>2, PackInvariant, PTL

\* A verifier that raises has not read the store, the last of its inputs.
LEMMA FaultComesFirst == Spec => [](fault => seen["store"] = Unread)
  <1> DEFINE Inv == fault => seen["store"] = Unread
  <1>1. Init => Inv
    BY DEF Init
  <1>2. Inv /\ [Next]_vars => Inv'
    <2> SUFFICES ASSUME Inv, [Next]_vars PROVE Inv'
      OBVIOUS
    <2>1. CASE UNCHANGED verifying
      BY <2>1 DEF verifying
    <2>2. CASE Verify
      <3>1. CASE Fault
        BY <3>1 DEF Fault, Ended
      <3>2. CASE ~Fault
        <4>1. ~fault /\ fault' = fault
          BY <2>2, <3>2 DEF Verify, ReadPack, Reads, ReadStore, Ended
        <4> QED BY <4>1
      <3> QED BY <3>1, <3>2
    <2>3. ASSUME NEW p \in Producers, Produce(p) PROVE UNCHANGED verifying
      BY <2>3 DEF Produce, WritePack, SignPack, PqCosign, ForeignCosign, AddPqSignature, AnchorPack, StampPack,
         Prepare, Opens, Writes, Dies
    <2>4. ASSUME NEW f \in File, NEW c \in Alterations(f), Alter(f, c) PROVE UNCHANGED verifying
      BY <2>4 DEF Alter
    <2> QED BY <2>1, <2>2, <2>3, <2>4 DEF Next, vars
  <1> QED BY <1>1, <1>2, PTL DEF Spec

\* What was found before the verifier raised stands when the rest is read.
LEMMA FoundStays ==
    ASSUME NEW s, NEW t, NEW o, NEW h, s.store = Unread, t.store # Unread,
           s.pack # Unread => t.pack = s.pack,
           s.ledger # Unread => t.ledger = s.ledger,
           s.tsr # Unread => t.tsr = s.tsr,
           s.sig # Unread => t.sig = s.sig,
           NEW l \in Layers(s, o, h)
    PROVE  l \in Layers(t, o, h)
  <1>1. CASE Readable(s.pack)
    <2>1. s.pack # Unread /\ t.pack = s.pack /\ Readable(t.pack)
      BY <1>1 DEF Readable
    <2>2. l \in OtherLayers(s, o)
      BY <1>1, LayersOf DEF When
    <2>3. PackLayers(t) = PackLayers(s)
      BY <2>1 DEF PackLayers
    <2>4. s.ledger # Unread => LedgerLayer(t) = LedgerLayer(s)
      BY <2>1 DEF LedgerLayer, Anchored
    <2>5. s.tsr # Unread => TimestampLayer(t) = TimestampLayer(s)
      BY <2>1 DEF TimestampLayer
    <2>6. s.sig # Unread => SignatureStatus(t, o) = SignatureStatus(s, o)
      BY <2>1 DEF SignatureStatus, SignatureHolds, NothingToVerify
    <2>7. l \in OtherLayers(t, o)
      <3>1. CASE l \in PackLayers(s)
        BY <2>3, <3>1 DEF OtherLayers
      <3>2. CASE s.ledger # Unread /\ l = LedgerLayer(s)
        BY <2>4, <3>2 DEF OtherLayers, When
      <3>3. CASE s.tsr # Unread /\ l = TimestampLayer(s)
        BY <2>5, <3>3 DEF OtherLayers, When
      <3>4. CASE s.sig # Unread /\ l = Layer("producer-signature", SignatureStatus(s, o))
        BY <2>6, <3>4 DEF OtherLayers, When
      <3> QED BY <2>2, <3>1, <3>2, <3>3, <3>4 DEF OtherLayers, When
    <2> QED BY <2>1, <2>7, LayersOf
  <1>2. CASE ~Readable(s.pack)
    <2>1. s.pack # Unread /\ t.pack = s.pack
      BY <1>2 DEF Layers, When
    <2> QED BY <1>2, <2>1 DEF Layers, When
  <1> QED BY <1>1, <1>2

\* A verifier that raises never passes a pack, and fails none that would have
\* passed, however the files it has not read turn out.
THEOREM PackFaultIsNoFinding == Spec => []FaultIsNoFinding
  <1> DEFINE rest == [f \in Input |-> IF f \in File /\ seen[f] = Unread THEN files[f] ELSE seen[f]]
  <1>1. ASSUME IInv, fault => seen["store"] = Unread, fault, NEW o \in Options, NEW h \in Hosts
        PROVE  LET r == InternalErrorReceipt(seen, o, h) IN
               /\ Verdict(r, o) # "PASS" /\ ~r.authenticated
               /\ Verdict(r, o) = "FAIL" =>
                     \A c \in Stores(rest) : Verdict(Receipt([rest EXCEPT !["store"] = c], o, h), o) = "FAIL"
    <2> DEFINE r == InternalErrorReceipt(seen, o, h)
               layers == Layers(seen, o, h)
    <2>1. /\ r.valid = Valid(layers \cup {Internal}) /\ r.authenticated = FALSE
          /\ r.assessed = Assessed(layers \cup {Internal})
      BY DEF InternalErrorReceipt
    <2> HIDE DEF r, layers
    <2>2. Internal.status = "FAIL" /\ Internal.assessed = FALSE
      BY DEF Internal
    <2>3. ~r.valid
      BY <2>1, <2>2 DEF Valid
    <2>4. Verdict(r, o) # "PASS"
      BY <2>3 DEF Verdict
    <2>5. ASSUME Verdict(r, o) = "FAIL", NEW c \in Stores(rest)
          PROVE  Verdict(Receipt([rest EXCEPT !["store"] = c], o, h), o) = "FAIL"
      <3> DEFINE t == [rest EXCEPT !["store"] = c]
      <3>1. r.assessed
        BY <2>3, <2>5 DEF Verdict
      <3>2. PICK l \in layers : l.status = "FAIL" /\ l.assessed
        BY <2>1, <2>2, <3>1 DEF Assessed
      <3>3. "store" \in Input /\ "store" \notin File /\ \A f \in File : f \in Input
        BY DEF Input, File, Beside
      <3>4. t.store = c /\ \A f \in File : seen[f] # Unread => t[f] = seen[f]
        BY <3>3
      <3>5. c # Unread
        BY <2>5, MarksAssumption DEF Stores
      <3> HIDE DEF t, rest
      <3>6. l \in Layers(t, o, h)
        BY <1>1, <3>2, <3>4, <3>5, FoundStays DEF layers, File, Beside
      <3>7. Assessed(Layers(t, o, h)) /\ ~Valid(Layers(t, o, h))
        BY <3>2, <3>6 DEF Assessed, Valid
      <3> QED BY <3>7, VerdictOf DEF t
    <2> QED BY <2>1, <2>4, <2>5 DEF r
  <1>2. IInv /\ (fault => seen["store"] = Unread) => FaultIsNoFinding
    BY <1>1, Zenon DEF FaultIsNoFinding
  <1> QED BY <1>2, PackInvariant, FaultComesFirst, PTL

-----------------------------------------------------------------------------
(* No false alarm.  While nobody alters anything, every file is made for    *)
(* the pack that base remembers.                                            *)

Honest(b) == b \in Packs /\ b.body \in Scoped /\ b.declared = b.body

CoMadeFor(q, b) == b \in Packs => q.alg \in Algorithms /\ q.form = TRUE /\ q.over = b.declared

MadeFor(f, c, b) ==
    b \in Packs =>
        /\ f = "ledger" => b.declared \in c.anchors
        /\ f = "tsr" => c.closed = TRUE /\ c.stamped = b
        /\ f = "sig" => /\ c.closed = TRUE /\ c.alg = "ed25519" /\ c.form = TRUE
                        /\ c.over = b.declared /\ c.digest = b.declared
                        /\ c.pq # None => CoMadeFor(c.pq, b)

FileFits(f, c, b) ==
    c \in Contents(f) =>
        /\ f = "pack" => Honest(c)
        /\ f = "ledger" => c.closed = TRUE
        /\ f # "pack" => MadeFor(f, c, b)

OpFits(o) ==
    o # None =>
        /\ o.file = "pack" => Honest(o.content)
        /\ o.file \in {"tsr", "sig"} => MadeFor(o.file, o.content, o.base)
        /\ o.file = "ledger" /\ o.open => o.content.closed = TRUE /\ MadeFor("ledger", o.content, o.base)
        /\ o.file = "ledger" /\ ~o.open /\ o.base \in Packs => o.content = o.base.declared
        /\ o.file = "cosign" => CoMadeFor(o.content, o.base)

Made ==
    altered = 0 => /\ \A f \in File : FileFits(f, files[f], base[f])
                   /\ \A p \in Producers : OpFits(op[p])

LEMMA GoesOnMade ==
    ASSUME IInv, Made, altered = 0, NEW p \in Producers, NEW o, OpFits(o), op' = [op EXCEPT ![p] = o],
           \A f \in File : FileFits(f, files'[f], base'[f])
    PROVE  Made'
  <1>1. op'[p] = o /\ \A q \in Producers : q # p => op'[q] = op[q]
    BY DEF IInv, TypeOK
  <1>2. \A q \in Producers : OpFits(op'[q])
    BY <1>1 DEF Made
  <1>3. \A q \in Producers : OpFits(op[q])'
    BY <1>2 DEF OpFits
  <1>4. \A f \in File : FileFits(f, files[f], base[f])'
    BY DEF FileFits
  <1> QED BY <1>3, <1>4 DEF Made

LEMMA PrepareMade ==
    ASSUME IInv, Made, altered = 0, NEW p \in Producers, NEW f, NEW c, Prepare(p, f, c),
           OpFits([file |-> f, content |-> c, base |-> files["pack"], open |-> FALSE])
    PROVE  Made'
  <1> DEFINE o == [file |-> f, content |-> c, base |-> files["pack"], open |-> FALSE]
  <1>1. op' = [op EXCEPT ![p] = o] /\ UNCHANGED <<files, base>>
    BY DEF Prepare
  <1>2. \A g \in File : FileFits(g, files'[g], base'[g])
    BY <1>1 DEF Made
  <1> HIDE DEF o
  <1> QED BY <1>1, <1>2, GoesOnMade DEF o

LEMMA BegunMade ==
    ASSUME IInv, Made, altered = 0, NEW p \in Producers,
           \/ \E b \in Bodies : WritePack(p, b)
           \/ \E k \in Keys : SignPack(p, k)
           \/ \E q \in PqKeys : PqCosign(p, q) \/ ForeignCosign(p, q)
           \/ AnchorPack(p) \/ StampPack(p)
    PROVE  Made'
  <1>1. ASSUME NEW b \in Bodies, WritePack(p, b) PROVE Made'
    <2> DEFINE c == [body |-> b, declared |-> b]
    <2>1. Honest(c) /\ Prepare(p, "pack", c)
      BY <1>1 DEF WritePack, Honest, Packs, Digests
    <2> HIDE DEF c
    <2>2. OpFits([file |-> "pack", content |-> c, base |-> files["pack"], open |-> FALSE])
      BY <2>1 DEF OpFits
    <2> QED BY <2>1, <2>2, PrepareMade
  <1>2. ASSUME NEW k \in Keys, SignPack(p, k) PROVE Made'
    <2> DEFINE d == files["pack"].declared
               c == [closed |-> TRUE, alg |-> "ed25519", form |-> TRUE, key |-> k,
                     digest |-> d, over |-> d, pq |-> None]
    <2>1. Prepare(p, "sig", c)
      BY <1>2 DEF SignPack
    <2>2. MadeFor("sig", c, files["pack"])
      BY DEF MadeFor
    <2> HIDE DEF c
    <2>3. OpFits([file |-> "sig", content |-> c, base |-> files["pack"], open |-> FALSE])
      BY <2>2 DEF OpFits
    <2> QED BY <2>1, <2>3, PrepareMade
  <1>3. ASSUME NEW q \in PqKeys, PqCosign(p, q) PROVE Made'
    <2> DEFINE c == [alg |-> "known", key |-> q, form |-> TRUE, over |-> files["pack"].body]
    <2>1. Prepare(p, "cosign", c) /\ files["pack"].declared = files["pack"].body
      BY <1>3 DEF PqCosign, Cosignable
    <2>2. CoMadeFor(c, files["pack"])
      BY <2>1 DEF CoMadeFor, Algorithms
    <2> HIDE DEF c
    <2>3. OpFits([file |-> "cosign", content |-> c, base |-> files["pack"], open |-> FALSE])
      BY <2>2 DEF OpFits
    <2> QED BY <2>1, <2>3, PrepareMade
  <1>4. ASSUME AnchorPack(p) PROVE Made'
    <2> DEFINE c == files["pack"].declared
    <2>1. Prepare(p, "ledger", c)
      BY <1>4 DEF AnchorPack
    <2>2. OpFits([file |-> "ledger", content |-> c, base |-> files["pack"], open |-> FALSE])
      BY DEF OpFits
    <2> QED BY <2>1, <2>2, PrepareMade
  <1>5. ASSUME StampPack(p) PROVE Made'
    <2> DEFINE c == [closed |-> TRUE, stamped |-> files["pack"]]
    <2>1. Prepare(p, "tsr", c) /\ MadeFor("tsr", c, files["pack"])
      BY <1>5 DEF StampPack, MadeFor
    <2> HIDE DEF c
    <2>2. OpFits([file |-> "tsr", content |-> c, base |-> files["pack"], open |-> FALSE])
      BY <2>1 DEF OpFits
    <2> QED BY <2>1, <2>2, PrepareMade
  <1>6. ASSUME NEW q \in PqKeys, ForeignCosign(p, q) PROVE Made'
    <2> DEFINE c == [alg |-> "other", key |-> q, form |-> TRUE, over |-> files["pack"].declared]
    <2>1. Prepare(p, "cosign", c)
      BY <1>6 DEF ForeignCosign
    <2>2. CoMadeFor(c, files["pack"])
      BY DEF CoMadeFor, Algorithms
    <2> HIDE DEF c
    <2>3. OpFits([file |-> "cosign", content |-> c, base |-> files["pack"], open |-> FALSE])
      BY <2>2 DEF OpFits
    <2> QED BY <2>1, <2>3, PrepareMade
  <1> QED BY <1>1, <1>2, <1>3, <1>4, <1>5, <1>6

LEMMA AddPqSignatureMade ==
    ASSUME IInv, Made, altered = 0, NEW p \in Producers, AddPqSignature(p)
    PROVE  Made'
  <1> DEFINE o == op[p]
             side == [files["sig"] EXCEPT !.pq = o.content]
             of == IF base["sig"] = o.base THEN o.base ELSE None
             new == [o EXCEPT !.file = "sig", !.content = side, !.base = of]
  <1>1. o \in Operation /\ o # None /\ o.file = "cosign"
    BY DEF IInv, TypeOK, AddPqSignature
  <1>2. \A f \in File : FileFits(f, files'[f], base'[f])
    BY DEF AddPqSignature, Made
  <1>3. CASE Readable(files["sig"])
    <2>1. files["sig"] \in Sidecars
      BY <1>3, ReadableFile, ContentsOf DEF IInv, File, Beside
    <2>2. MadeFor("sig", files["sig"], base["sig"]) /\ CoMadeFor(o.content, o.base)
      BY <1>1, <2>1, ContentsOf DEF Made, FileFits, OpFits, File, Beside
    <2>3. /\ side.closed = files["sig"].closed /\ side.alg = files["sig"].alg
          /\ side.form = files["sig"].form /\ side.over = files["sig"].over
          /\ side.digest = files["sig"].digest /\ side.pq = o.content
      BY <2>1 DEF Sidecars
    <2>4. of \in Packs => of = o.base /\ of = base["sig"]
      BY MarksAssumption
    <2>5. op' = [op EXCEPT ![p] = new]
      BY <1>3 DEF AddPqSignature
    <2> HIDE DEF side, of, o
    <2>6. MadeFor("sig", side, of)
      BY <2>2, <2>3, <2>4 DEF MadeFor
    <2>7. new.file = "sig" /\ new.content = side /\ new.base = of
      BY <1>1 DEF Operation
    <2> HIDE DEF new
    <2>8. OpFits(new)
      BY <2>6, <2>7 DEF OpFits
    <2> QED BY <1>2, <2>5, <2>8, GoesOnMade
  <1>4. CASE ~Readable(files["sig"])
    <2>1. op' = [op EXCEPT ![p] = None] /\ OpFits(None)
      BY <1>4 DEF AddPqSignature, OpFits
    <2> QED BY <1>2, <2>1, GoesOnMade
  <1> QED BY <1>3, <1>4

LEMMA OpensMade ==
    ASSUME IInv, Made, altered = 0, NEW p \in Producers, Opens(p)
    PROVE  Made'
  <1> DEFINE o == op[p]
             old == files[o.file]
             text == IF o.file # "ledger" THEN o.content
                     ELSE IF old = Absent THEN [closed |-> TRUE, anchors |-> {o.content}]
                     ELSE [old EXCEPT !.anchors = old.anchors \cup {o.content}]
             new == [o EXCEPT !.open = TRUE, !.content = text]
  <1>1. o \in Operation /\ o # None /\ o.file \in File /\ o.open = FALSE
    BY DEF IInv, TypeOK, Opens, Operation
  <1>2. OpFits(o)
    BY DEF Made
  <1>3. CASE o.file = "ledger" /\ old = Bad
    <2>1. op' = [op EXCEPT ![p] = None] /\ UNCHANGED <<files, base>> /\ OpFits(None)
      BY <1>3 DEF Opens, OpFits
    <2>2. \A f \in File : FileFits(f, files'[f], base'[f])
      BY <2>1 DEF Made
    <2> QED BY <2>1, <2>2, GoesOnMade
  <1>4. CASE ~(o.file = "ledger" /\ old = Bad)
    <2>1. op' = [op EXCEPT ![p] = new] /\ files' = [files EXCEPT ![o.file] = Bad] /\ base' = base
      BY <1>4 DEF Opens, Replace
    <2>2. \A f \in File : FileFits(f, files'[f], base'[f])
      <3>1. files \in [File -> Text]
        BY DEF IInv, TypeOK
      <3>2. \A f \in File : IF f = o.file THEN files'[f] = Bad ELSE files'[f] = files[f]
        BY <1>1, <2>1, <3>1
      <3>3. \A f \in File : \A b : FileFits(f, Bad, b)
        BY ContentsOf DEF FileFits
      <3> QED BY <2>1, <3>2, <3>3 DEF Made
    <2>3. o.file # "ledger" => text = o.content
      OBVIOUS
    <2>4. ASSUME o.file = "ledger"
          PROVE  text.closed = TRUE /\ o.content \in text.anchors
      <3>1. CASE old = Absent
        BY <2>4, <3>1
      <3>2. CASE old # Absent
        <4>1. old \in Ledgers /\ FileFits("ledger", old, base["ledger"])
          BY <1>4, <2>4, <3>2, ContentsOf DEF IInv, TypeOK, Made, File, Beside
        <4>2. old.closed = TRUE
          BY <4>1, ContentsOf DEF FileFits
        <4> HIDE DEF old
        <4>3. text = [old EXCEPT !.anchors = old.anchors \cup {o.content}]
          BY <2>4, <3>2
        <4> QED BY <4>1, <4>2, <4>3 DEF Ledgers
      <3> QED BY <3>1, <3>2
    <2>5. new.file = o.file /\ new.content = text /\ new.base = o.base /\ new.open = TRUE
      BY <1>1 DEF Operation
    <2> HIDE DEF new, text, old, o
    <2>6. OpFits(new)
      <3>1. CASE o.file = "ledger"
        BY <1>1, <1>2, <2>4, <2>5, <3>1 DEF OpFits, MadeFor
      <3>2. CASE o.file # "ledger"
        BY <1>1, <1>2, <2>3, <2>5, <3>2 DEF OpFits
      <3> QED BY <3>1, <3>2
    <2> QED BY <2>1, <2>2, <2>6, GoesOnMade
  <1> QED BY <1>3, <1>4

LEMMA WritesMade ==
    ASSUME IInv, Made, altered = 0, NEW p \in Producers, Writes(p)
    PROVE  Made'
  <1> DEFINE o == op[p]
  <1>1. o \in Operation /\ o # None /\ o.open /\ o.file \in File /\ OpFits(o)
    BY DEF IInv, TypeOK, Writes, Operation, Made
  <1>2. PICK c \in Outcomes(p) : files' = [files EXCEPT ![o.file] = c]
    BY DEF Writes, Replace
  <1>3. c = o.content \/ c = Bad
    BY DEF Outcomes
  <1>4. op' = [op EXCEPT ![p] = None] /\ OpFits(None)
    BY DEF Writes, OpFits
  <1>5. files'[o.file] = c /\ \A f \in File : f # o.file => files'[f] = files[f]
    BY <1>1, <1>2 DEF IInv, TypeOK
  <1>6. \A f \in Beside : base'[f] = IF f = o.file THEN o.base ELSE base[f]
    BY DEF Writes
  <1> HIDE DEF o
  <1>7. ASSUME NEW f \in File PROVE FileFits(f, files'[f], base'[f])
    <2>1. CASE f # o.file
      <3>1. FileFits(f, files[f], base[f])
        BY DEF Made
      <3>2. f \in Beside \/ f = "pack"
        BY DEF File
      <3> QED BY <1>5, <1>6, <2>1, <3>1, <3>2 DEF FileFits
    <2>2. CASE f = o.file /\ c = Bad
      BY <1>5, <2>2, ContentsOf DEF FileFits
    <2>3. CASE f = o.file /\ c = o.content /\ f = "pack"
      BY <1>1, <1>5, <2>3 DEF FileFits, OpFits
    <2>4. CASE f = o.file /\ c = o.content /\ f # "pack"
      <3>1. f \in Beside /\ base'[f] = o.base
        BY <1>6, <2>4 DEF File
      <3>2. MadeFor(f, c, o.base) /\ (f = "ledger" => c.closed = TRUE)
        BY <1>1, <2>4, <3>1 DEF OpFits, Beside
      <3> QED BY <1>5, <2>4, <3>1, <3>2 DEF FileFits
    <2> QED BY <1>3, <2>1, <2>2, <2>3, <2>4
  <1> QED BY <1>4, <1>7, GoesOnMade

LEMMA MadeStep ==
    ASSUME IInv, Made, [Next]_vars
    PROVE  Made'
  <1>1. CASE altered' = 0
    <2>1. altered = 0 \/ \E f \in File : \E c \in Alterations(f) : Alter(f, c)
      BY <1>1 DEF Next, Produce, WritePack, SignPack, PqCosign, ForeignCosign, AddPqSignature, AnchorPack, StampPack,
         Prepare, Opens, Writes, Dies, Verify, ReadPack, Reads, ReadStore, Fault, producing, vars
    <2>2. altered = 0 /\ ~\E f \in File : \E c \in Alterations(f) : Alter(f, c)
      BY <1>1, <2>1 DEF Alter, IInv, TypeOK
    <2>3. CASE Verify \/ UNCHANGED vars
      BY <2>2, <2>3 DEF Verify, ReadPack, Reads, ReadStore, Fault, producing, vars, Made
    <2>4. ASSUME NEW p \in Producers, Dies(p) PROVE Made'
      <3>1. op' = [op EXCEPT ![p] = None] /\ OpFits(None) /\ UNCHANGED <<files, base>>
        BY <2>4 DEF Dies, OpFits
      <3>2. \A f \in File : FileFits(f, files'[f], base'[f])
        BY <2>2, <3>1 DEF Made
      <3> QED BY <2>2, <3>1, <3>2, GoesOnMade
    <2>5. ASSUME NEW p \in Producers, Produce(p) PROVE Made'
      BY <2>2, <2>4, <2>5, BegunMade, AddPqSignatureMade, OpensMade, WritesMade DEF Produce
    <2> QED BY <2>2, <2>3, <2>5 DEF Next
  <1>2. CASE altered' # 0
    BY <1>2 DEF Made
  <1> QED BY <1>1, <1>2

\* The verifier reads in one order, and what it has read still stands while nobody writes.
InOrder ==
    /\ seen["store"] # Unread => seen["sig"] # Unread
    /\ seen["sig"] # Unread => seen["tsr"] # Unread
    /\ seen["tsr"] # Unread => seen["ledger"] # Unread
    /\ seen["ledger"] # Unread => Begun
    /\ quiet => \A f \in File : seen[f] = Unread \/ seen[f] = files[f]

\* A file that is written once the verifier has begun ends the quiet.
LEMMA ReplaceInOrder ==
    ASSUME InOrder, NEW f \in File, NEW c, Replace(f, c), seen' = seen
    PROVE  InOrder'
  <1>1. quiet' => \A g \in File : seen[g] = Unread
    BY DEF Replace, InOrder, Begun, File, Beside
  <1> QED BY <1>1 DEF InOrder, Begun

LEMMA InOrderStep ==
    ASSUME IInv, InOrder, [Next]_vars
    PROVE  InOrder'
  <1>1. CASE UNCHANGED <<files, seen, quiet>>
    BY <1>1 DEF InOrder, Begun
  <1>2. ASSUME NEW p \in Producers, Produce(p) PROVE InOrder'
    <2>1. CASE Opens(p)
      <3>1. op[p].file \in File
        BY <2>1 DEF IInv, TypeOK, Opens, Operation
      <3>2. seen' = seen /\ (UNCHANGED <<files, quiet>> \/ Replace(op[p].file, Bad))
        BY <2>1 DEF Opens, verifying
      <3> QED BY <1>1, <3>1, <3>2, ReplaceInOrder
    <2>2. CASE Writes(p)
      <3>1. op[p].file \in File
        BY <2>2 DEF IInv, TypeOK, Writes, Operation
      <3>2. seen' = seen /\ \E c : Replace(op[p].file, c)
        BY <2>2 DEF Writes, verifying
      <3> QED BY <3>1, <3>2, ReplaceInOrder
    <2>3. CASE ~Opens(p) /\ ~Writes(p)
      <3>1. UNCHANGED <<files, seen, quiet>>
        BY <1>2, <2>3 DEF Produce, WritePack, SignPack, PqCosign, ForeignCosign, AddPqSignature, AnchorPack, StampPack,
           Prepare, Dies, verifying
      <3> QED BY <1>1, <3>1
    <2> QED BY <2>1, <2>2, <2>3
  <1>3. ASSUME NEW f \in File, NEW c \in Alterations(f), Alter(f, c) PROVE InOrder'
    BY <1>3, ReplaceInOrder DEF Alter, verifying
  <1>4. CASE Verify
    <2>1. seen \in [Input -> Text \cup Bindings \cup {Unread, None}]
      BY DEF IInv, TypeOK
    <2>2. \A f \in File : files[f] # Unread
      BY ContentsOf, MarksAssumption DEF IInv, TypeOK
    <2>3. UNCHANGED <<files, quiet>>
      BY <1>4 DEF Verify, ReadPack, Reads, ReadStore, Fault, producing
    <2>4. ASSUME NEW f \in File, NEW after, Reads(f, after) \/ (f = "pack" /\ ReadPack)
          PROVE  /\ seen'[f] = files[f]
                 /\ \A g \in Input : g # f => seen'[g] = seen[g]
                 /\ f # "pack" => seen[after] # Unread
      BY <2>1, <2>4 DEF Reads, ReadPack, Input
    <2>5. CASE ReadPack
      BY <2>2, <2>3, <2>4, <2>5 DEF InOrder, Begun, Input, File, Beside
    <2>6. CASE Reads("ledger", "pack")
      BY <2>2, <2>3, <2>4, <2>6 DEF InOrder, Begun, Input, File, Beside
    <2>7. CASE Reads("tsr", "ledger")
      BY <2>2, <2>3, <2>4, <2>7 DEF InOrder, Begun, Input, File, Beside
    <2>8. CASE Reads("sig", "tsr")
      BY <2>2, <2>3, <2>4, <2>8 DEF InOrder, Begun, Input, File, Beside
    <2>9. CASE \E c \in Stores(seen) : ReadStore(c)
      <3>1. seen["sig"] # Unread /\ \A g \in File : seen'[g] = seen[g]
        BY <2>1, <2>9 DEF ReadStore, Input, File, Beside
      <3> QED BY <2>3, <3>1 DEF InOrder, Begun, File, Beside
    <2>10. CASE Fault
      <3>1. UNCHANGED <<files, seen, quiet>>
        BY <2>10 DEF Fault, producing
      <3> QED BY <1>1, <3>1
    <2> QED BY <1>4, <2>5, <2>6, <2>7, <2>8, <2>9, <2>10 DEF Verify
  <1>5. CASE UNCHANGED vars
    BY <1>1, <1>5 DEF vars, producing, verifying
  <1> QED BY <1>2, <1>3, <1>4, <1>5 DEF Next

\* The invariants of an undisturbed pack, for every behavior.
LEMMA PackUndisturbed == Spec => [](IInv /\ Made /\ InOrder)
  <1>1. Init => Made /\ InOrder
    <2> SUFFICES ASSUME Init PROVE Made /\ InOrder
      OBVIOUS
    <2>1. \A f \in File : files[f] = Absent /\ seen[f] = Unread
      BY DEF Init, File, Input
    <2>2. seen["store"] = Unread
      BY DEF Init, Input
    <2>3. Made
      BY <2>1, ContentsOf DEF Init, Made, FileFits, OpFits
    <2> QED BY <2>1, <2>2, <2>3 DEF InOrder, Begun, File, Beside
  <1>2. IInv /\ Made /\ InOrder /\ [Next]_vars => Made' /\ InOrder'
    BY MadeStep, InOrderStep
  <1> QED BY <1>1, <1>2, PackInvariant, PTL DEF Spec

\* Files made for one honest pack, of which what is asked for is there, pass.
LEMMA FitPasses ==
    ASSUME IInv, seen["store"] # Unread, NEW o \in Options, Satisfied(o),
           \A f \in File : seen[f] # Unread,
           Readable(seen["pack"]), Honest(seen["pack"]),
           \A f \in Beside : seen[f] = Absent
                             \/ (Readable(seen[f]) /\ FileFits(f, seen[f], seen["pack"]))
    PROVE  LET r == Receipt(seen, o, Algorithms) IN
           Verdict(r, o) = "PASS" /\ (r.authenticated <=> seen["sig"] # Absent)
  <1> DEFINE b == seen["pack"]
             sig == seen["sig"]
  <1>1. b \in Packs /\ b.declared = b.body /\ b.body \in Scoped /\ b.declared # None
    BY MarksAssumption DEF Honest, Packs
  <1>2. ASSUME sig # Absent
        PROVE  /\ SignatureHolds(seen)
               /\ sig \in Sidecars
               /\ sig.pq # None => sig.pq.alg \in Algorithms /\ sig.pq.form = TRUE /\ sig.pq.over = b.declared
    <2>1. sig \in Sidecars /\ FileFits("sig", sig, b) /\ Readable(sig)
      BY <1>2, ContentsOf DEF IInv, TypeOK, Readable, File, Beside
    <2>2. MadeFor("sig", sig, b)
      BY <2>1, ContentsOf DEF FileFits
    <2> QED BY <1>1, <2>1, <2>2 DEF SignatureHolds, MadeFor, CoMadeFor
  <1>3. SignatureHolds(seen) <=> sig # Absent
    BY <1>2 DEF SignatureHolds, Readable
  <1>4. seen["ledger"] # Absent => Anchored(seen)
    <2> SUFFICES ASSUME seen["ledger"] # Absent PROVE Anchored(seen)
      OBVIOUS
    <2>1. seen["ledger"] \in Contents("ledger") /\ Readable(seen["ledger"])
          /\ FileFits("ledger", seen["ledger"], b)
      BY DEF IInv, TypeOK, Readable, File, Beside
    <2> QED BY <1>1, <2>1 DEF FileFits, MadeFor, Anchored
  <1>5. TimestampLayer(seen).status = "SKIP"
    <2>1. CASE seen["tsr"] = Absent
      BY <2>1 DEF TimestampLayer, Layer
    <2>2. CASE seen["tsr"] # Absent
      <3>1. seen["tsr"] \in Contents("tsr") /\ Readable(seen["tsr"]) /\ FileFits("tsr", seen["tsr"], b)
        BY <2>2 DEF IInv, TypeOK, Readable, File, Beside
      <3> QED BY <1>1, <3>1 DEF FileFits, MadeFor, TimestampLayer, Layer
    <2> QED BY <2>1, <2>2
  <1>6. SignatureHolds(seen) /\ seen["store"] # None => Trusted(seen)
    BY <1>3 DEF Satisfied, Trusted
  <1>7. /\ o.requireSigned => sig # Absent
        /\ sig # Absent \/ seen["ledger"] # Absent
        /\ o.requirePq \/ Pinned(seen, o) # None =>
              sig # Absent /\ sig.pq # None /\ sig.pq.key = Pinned(seen, o)
    <2>1. ~SignatureHolds(seen) /\ o.expected = None => Pinned(seen, o) = None
      BY DEF Pinned, Trusted
    <2> QED BY <1>3, <1>6, <2>1 DEF Satisfied, Pinned, Trusted
  <1>8. Authentic(seen, o)
    BY <1>3, <1>4, <1>6, <1>7 DEF Authentic, SignatureStatus, TrustFailed, NothingToVerify
  <1>9. \A l \in OtherLayers(seen, o) : l.status # "FAIL"
    <2>1. \A name : Layer(name, "PASS").status = "PASS" /\ Layer(name, "SKIP").status = "SKIP"
      BY DEF Layer
    <2>2. \A name : Judged(name, TRUE).status = "PASS"
      BY DEF Judged, Layer
    <2>3. \A l \in PackLayers(seen) : l.status # "FAIL"
      BY <1>1, <2>1 DEF PackLayers, Judged, Layer
    <2>4. LedgerLayer(seen).status # "FAIL"
      BY <1>4, <2>1 DEF LedgerLayer, Judged, Layer
    <2>5. Layer("producer-signature", SignatureStatus(seen, o)).status # "FAIL"
      BY <1>3, <1>7 DEF SignatureStatus, NothingToVerify, Layer
    <2>6. \A l \in TrustLayers(seen) : l.status # "FAIL"
      BY <1>6 DEF TrustLayers, When, Judged, Layer
    <2>7. Judged("authenticity", Authentic(seen, o)).status # "FAIL"
      BY <1>8 DEF Judged, Layer
    <2> QED BY <1>5, <2>3, <2>4, <2>5, <2>6, <2>7 DEF OtherLayers, When
  <1>10. /\ \A l \in PqLayers(seen, o, Algorithms) : l.status # "FAIL"
         /\ o.requirePq \/ o.expected # None => Layer("pq-signature", "PASS") \in PqLayers(seen, o, Algorithms)
    <2>1. CASE sig = Absent
      <3>1. ~o.requirePq /\ o.expected = None
        BY <1>7, <2>1 DEF Pinned
      <3> QED BY <1>3, <2>1, <3>1 DEF PqLayers, When
    <2>2. CASE sig # Absent /\ sig.pq = None
      <3>1. ~PqRequired(seen, o) /\ ~o.requirePq /\ o.expected = None
        BY <1>7, <2>2 DEF PqRequired, Pinned
      <3> QED BY <1>3, <2>2, <3>1 DEF PqLayers, CosignatureLayers, When
    <2>3. CASE sig # Absent /\ sig.pq # None
      <3>1. sig.pq \in PqParts /\ sig.pq.key # None
        BY <1>2, <2>3, MarksAssumption DEF Sidecars, PqParts
      <3>2. ~PqRefused(seen, o) /\ PqVerifies(seen)
        BY <1>2, <1>7, <2>3 DEF PqRefused, PqVerifies, Algorithms
      <3>3. PqRequired(seen, o) => Pinned(seen, o) # None
        BY <1>7, <3>1 DEF PqRequired
      <3>4. PqLayers(seen, o, Algorithms) = {Layer("pq-signature", PqStatus(seen, o))}
        BY <1>2, <2>3, <3>2 DEF PqLayers, CosignatureLayers
      <3>5. PqStatus(seen, o) # "FAIL" /\ (o.requirePq \/ o.expected # None => PqStatus(seen, o) = "PASS")
        BY <3>2, <3>3 DEF PqStatus, PqRequired, Pinned
      <3>6. Layer("pq-signature", PqStatus(seen, o)).status = PqStatus(seen, o)
        BY DEF Layer
      <3> QED BY <3>4, <3>5, <3>6
    <2> QED BY <2>1, <2>2, <2>3
  <1> DEFINE layers == Layers(seen, o, Algorithms)
             r == Receipt(seen, o, Algorithms)
  <1>11. layers = OtherLayers(seen, o) \cup PqLayers(seen, o, Algorithms)
    BY LayersOf DEF When
  <1>12. /\ r.valid = Valid(layers) /\ r.assessed = Assessed(layers)
         /\ r.pq_protected = PqProtected(layers) /\ r.authenticated = Authenticated(seen)
    BY DEF Receipt
  <1>13. Assessed(layers)
    BY AllAssessed DEF Algorithms
  <1> HIDE DEF layers, r
  <1>14. Valid(layers)
    <2>1. Layer("pack-json", "PASS") \in layers /\ Layer("pack-json", "PASS").status = "PASS"
      BY <1>11 DEF OtherLayers, PackLayers, Layer
    <2> QED BY <1>9, <1>10, <1>11, <2>1 DEF Valid
  <1>15. o.requirePq \/ o.expected # None => r.pq_protected = TRUE
    BY <1>10, <1>11, <1>12 DEF PqProtected
  <1>16. Verdict(r, o) = "PASS"
    BY <1>12, <1>13, <1>14, <1>15 DEF Verdict
  <1>17. Authenticated(seen) <=> sig # Absent
    BY <1>1, <1>3, <1>6 DEF Authenticated, TrustFailed
  <1> QED BY <1>12, <1>16, <1>17 DEF r

\* No false alarm: a pack whose files belong together, read while nobody
\* writes, passes, and is authenticated if it is signed; whatever operations,
\* in whatever order, dead or interleaved, the files came from.
THEOREM PackHealthyPasses == Spec => []HealthyPasses
  <1>1. ASSUME IInv, Made, InOrder, Done, quiet, Consistent, NEW o \in Options, Satisfied(o)
        PROVE  LET r == Receipt(seen, o, Algorithms) IN
               Verdict(r, o) = "PASS" /\ (r.authenticated <=> seen["sig"] # Absent)
    <2>1. Readable(seen["pack"]) /\ altered = 0
          /\ \A f \in Beside : seen[f] # Absent => Readable(seen[f]) /\ base[f] = seen["pack"]
      BY <1>1 DEF Consistent
    <2>2. seen["store"] # Unread
      BY <1>1, <2>1 DEF Done, Ended
    <2>3. \A f \in File : seen[f] # Unread
      BY <1>1, <2>2 DEF InOrder, Begun, File, Beside
    <2>4. \A f \in File : seen[f] = files[f] /\ FileFits(f, seen[f], base[f])
      BY <1>1, <2>1, <2>3 DEF InOrder, Made
    <2>5. Honest(seen["pack"])
      BY <1>1, <2>1, <2>4, ContentsOf DEF FileFits, IInv, TypeOK, Readable, File
    <2>6. \A f \in Beside : seen[f] = Absent \/ (Readable(seen[f]) /\ FileFits(f, seen[f], seen["pack"]))
      BY <2>1, <2>4 DEF File
    <2> QED BY <1>1, <2>1, <2>2, <2>3, <2>5, <2>6, FitPasses
  <1>2. IInv /\ Made /\ InOrder => HealthyPasses
    BY <1>1, Zenon DEF HealthyPasses
  <1> QED BY <1>2, PackUndisturbed, PTL
=============================================================================
