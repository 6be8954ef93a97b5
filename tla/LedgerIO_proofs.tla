--------------------------- MODULE LedgerIO_proofs --------------------------
(***************************************************************************)
(* Theorems about LedgerIO, for any instances, payloads and batch size, and *)
(* files of any length.                                                     *)
(***************************************************************************)
EXTENDS LedgerIO, NatRecursion, SequenceTheorems

USE IOAssumption

\* An entry as append() makes them: its link is as long as the ledger below it.
Made == {e \in Entry : /\ Len(e.prev_hash) = e.idx
                       /\ e.self_hash = HashEntry(e.idx, e.data, e.prev_hash)}

Piece == {Head1(e) : e \in Made} \cup {Tail1(e) : e \in Made} \cup {LF}
Text  == Seq(Piece)
Line  == Seq(Piece \ {LF})
Cuts  == [done : Seq(Line), open : Line]
NoCut == [done |-> << >>, open |-> << >>]
Opened(cut) == IF cut.open = << >> THEN 0 ELSE 1

\* The pieces in a sequence, and in some lines.
In(s)     == {s[k] : k \in DOMAIN s}
Within(L) == UNION {In(L[k]) : k \in DOMAIN L}

-----------------------------------------------------------------------------
(* Pieces *)

LEMMA PieceFacts ==
    /\ \A e, d : /\ Head1(e) # LF /\ Tail1(e) # LF /\ Head1(e) # Tail1(d)
                 /\ (Head1(e) = Head1(d) => e = d) /\ (Tail1(e) = Tail1(d) => e = d)
    /\ \A e : Head1(e) \in Piece => e \in Made
    /\ \A e : Tail1(e) \in Piece => e \in Made
    /\ \A e \in Made : {Head1(e), Tail1(e)} \subseteq Piece \ {LF}
<1>1. \A e, d : /\ Head1(e) # LF /\ Tail1(e) # LF /\ Head1(e) # Tail1(d)
                /\ (Head1(e) = Head1(d) => e = d) /\ (Tail1(e) = Tail1(d) => e = d)
  <2> TAKE e, d
  <2>1. /\ Head1(e).part = "head" /\ Head1(e).of = e /\ Tail1(e).part = "tail" /\ Tail1(e).of = e
        /\ Head1(d).of = d /\ Tail1(d).part = "tail" /\ Tail1(d).of = d /\ LF.part = "LF"
    BY DEF Head1, Tail1, LF
  <2> QED BY <2>1
<1> QED BY <1>1 DEF Piece

LEMMA EndedType ==
    ASSUME NEW cut \in Cuts
    PROVE  /\ Ended(cut) \in Seq(Line)
           /\ Within(Ended(cut)) = Within(cut.done) \cup In(cut.open)
           /\ Len(Ended(cut)) = Len(cut.done) + Opened(cut)
           /\ (\A k \in DOMAIN cut.done : cut.done[k] # << >>)
                => \A k \in DOMAIN Ended(cut) : Ended(cut)[k] # << >>
<1> DEFINE d == cut.done
           o == cut.open
<1>1. d \in Seq(Line) /\ o \in Line
  BY DEF Cuts
<1>2. Ended(cut) = IF o = << >> THEN d ELSE Append(d, o)
  BY DEF Ended
<1> HIDE DEF d, o
<1>3. CASE o = << >>
  BY <1>1, <1>2, <1>3 DEF In, d, o, Opened
<1>4. CASE o # << >>
  <2>1. /\ Append(d, o) \in Seq(Line) /\ DOMAIN Append(d, o) = 1..(Len(d) + 1)
        /\ Len(d) \in Nat /\ DOMAIN d = 1..Len(d)
        /\ \A k \in 1..Len(d) : Append(d, o)[k] = d[k]
        /\ Append(d, o)[Len(d) + 1] = o /\ Len(Append(d, o)) = Len(d) + 1
    BY <1>1
  <2>2. Within(Append(d, o)) = Within(d) \cup In(o)
    BY <2>1 DEF Within
  <2> QED BY <1>2, <1>4, <2>1, <2>2 DEF d, o, Opened
<1> QED BY <1>3, <1>4

LEMMA TakeType ==
    ASSUME NEW cut \in Cuts, NEW c \in Piece
    PROVE  Take(cut, c) \in Cuts
<1>1. Ended(cut) \in Seq(Line)
  BY EndedType
<1>2. c # LF => Append(cut.open, c) \in Line
  BY DEF Cuts, Line
<1>3. << >> \in Line
  BY DEF Line
<1> QED BY <1>1, <1>2, <1>3 DEF Take, Cuts

\* The recursion of Lines defines a function, piece by piece.
LEMMA LinesDefined ==
    ASSUME NEW f \in Text
    PROVE  \E cut \in [0..Len(f) -> Cuts] :
              /\ cut[0] = NoCut
              /\ \A n \in 1..Len(f) : cut[n] = Take(cut[n - 1], f[n])
              /\ Lines(f) = Ended(cut[Len(f)])
<1> DEFINE step == [n \in 1..Len(f) |-> [cut \in Cuts |-> Take(cut, f[n])]]
           F(g) == [n \in 0..Len(f) |->
                      IF n = 0 THEN [done |-> << >>, open |-> << >>] ELSE Take(g[n - 1], f[n])]
           K == CHOOSE g : g = F(g)
<1>1. Len(f) \in Nat /\ NoCut \in Cuts /\ \A n \in 1..Len(f) : f[n] \in Piece
  BY DEF NoCut, Cuts, Text, Line
<1>2. step \in [1..Len(f) -> [Cuts -> Cuts]]
  BY <1>1, TakeType
<1>3. PICK k : k \in Runs(Cuts, NoCut, step, Len(f))
  <2> HIDE DEF step, F, K
  <2>1. Runs(Cuts, NoCut, step, Len(f)) # {}
    BY <1>1, <1>2, RunExists, Zenon
  <2> QED BY <2>1
<1>4. k \in [0..Len(f) -> Cuts] /\ k[0] = NoCut
  BY <1>3 DEF Runs
<1>5. ASSUME NEW n \in 1..Len(f) PROVE k[n] = Take(k[n - 1], f[n])
  <2>1. k[n] = step[n][k[n - 1]] /\ k[n - 1] \in Cuts
    BY <1>1, <1>3, <1>4 DEF Runs
  <2> QED BY <2>1
<1>6. k = F(k)
  BY <1>1, <1>4, <1>5 DEF NoCut
<1>7. K = F(K)
  BY <1>6, Zenon
<1>8. Lines(f) = Ended(K[Len(f)])
  BY DEF Lines
<1> HIDE DEF K
<1>9. K[0] = NoCut /\ \A n \in 1..Len(f) : K[n] = Take(K[n - 1], f[n])
  BY <1>1, <1>7 DEF NoCut
<1>10. K \in [0..Len(f) -> Cuts]
  <2> DEFINE Typed == {n \in 0..Len(f) : K[n] \in Cuts}
  <2>1. 0 \in Typed
    BY <1>1, <1>9
  <2>2. ASSUME NEW n \in 0..(Len(f) - 1), n \in Typed PROVE n + 1 \in Typed
    <3>1. n + 1 \in 1..Len(f) /\ K[n + 1] = Take(K[n], f[n + 1])
      BY <1>1, <1>9
    <3> QED BY <3>1, <2>2, <1>1, TakeType
  <2>3. 0 \in Int /\ Len(f) \in Int
    BY <1>1
  <2>4. \A n \in 0..Len(f) : n \in Typed
    <3> HIDE DEF Typed
    <3> QED BY <2>1, <2>2, <2>3, Upward
  <2> QED BY <1>7, <2>4
<1> QED BY <1>8, <1>9, <1>10

\* What a cut holds is what was taken, but the newlines.
LEMMA TakeHolds ==
    ASSUME NEW cut \in Cuts, NEW c \in Piece
    PROVE  LET now == Take(cut, c) IN
           /\ Within(now.done) \cup In(now.open)
                = (Within(cut.done) \cup In(cut.open)) \cup ({c} \ {LF})
           /\ Len(now.done) + Opened(now)
                <= Len(cut.done) + Opened(cut) + 1
           /\ (\A k \in DOMAIN cut.done : cut.done[k] # << >>)
                => \A k \in DOMAIN now.done : now.done[k] # << >>
<1>1. cut.done \in Seq(Line) /\ cut.open \in Line /\ Len(cut.done) \in Nat
  BY DEF Cuts
<1>2. CASE c = LF
  <2>1. Take(cut, c).done = Ended(cut) /\ Take(cut, c).open = << >>
    BY <1>2 DEF Take
  <2>2. In(<< >>) = {}
    BY DEF In
  <2>3. Len(Ended(cut)) = Len(cut.done) + Opened(cut)
    BY EndedType
  <2>4. Within(Ended(cut)) = Within(cut.done) \cup In(cut.open)
    BY EndedType
  <2>5. (\A k \in DOMAIN cut.done : cut.done[k] # << >>)
           => \A k \in DOMAIN Ended(cut) : Ended(cut)[k] # << >>
    BY EndedType
  <2> DEFINE now == Take(cut, c)
  <2>6. Within(now.done) \cup In(now.open) = (Within(cut.done) \cup In(cut.open)) \cup ({c} \ {LF})
    BY <1>2, <2>1, <2>2, <2>4
  <2>7. Len(now.done) + Opened(now)
          <= Len(cut.done) + Opened(cut) + 1
    <3>1. Opened(now) = 0 /\ Opened(cut) \in {0, 1}
      BY <2>1 DEF Opened
    <3>2. Len(now.done) = Len(cut.done) + Opened(cut)
      BY <2>1, <2>3
    <3> HIDE DEF now
    <3> QED BY <1>1, <3>1, <3>2
  <2>8. (\A k \in DOMAIN cut.done : cut.done[k] # << >>)
           => \A k \in DOMAIN now.done : now.done[k] # << >>
    BY <2>1, <2>5
  <2> HIDE DEF now
  <2> QED BY <2>6, <2>7, <2>8 DEF now
<1>3. CASE c # LF
  <2>1. Take(cut, c).done = cut.done /\ Take(cut, c).open = Append(cut.open, c)
    BY <1>3 DEF Take
  <2>2. In(Append(cut.open, c)) = In(cut.open) \cup {c}
    <3>1. cut.open \in Seq(Piece)
      BY <1>1 DEF Line
    <3>2. /\ DOMAIN Append(cut.open, c) = 1..(Len(cut.open) + 1) /\ DOMAIN cut.open = 1..Len(cut.open)
          /\ Len(cut.open) \in Nat
          /\ \A k \in 1..Len(cut.open) : Append(cut.open, c)[k] = cut.open[k]
          /\ Append(cut.open, c)[Len(cut.open) + 1] = c
      BY <3>1
    <3> QED BY <3>2 DEF In
  <2> DEFINE now == Take(cut, c)
  <2>3. Within(now.done) \cup In(now.open) = (Within(cut.done) \cup In(cut.open)) \cup ({c} \ {LF})
    BY <1>3, <2>1, <2>2
  <2>4. Len(now.done) + Opened(now)
          <= Len(cut.done) + Opened(cut) + 1
    <3>1. Opened(now) \in {0, 1} /\ Opened(cut) \in {0, 1}
      BY DEF Opened
    <3>2. Len(now.done) = Len(cut.done)
      BY <2>1
    <3> HIDE DEF now
    <3>3. Opened(cut) = 0 \/ Opened(cut) = 1
      BY <3>1
    <3> QED BY <1>1, <3>1, <3>2, <3>3
  <2>5. (\A k \in DOMAIN cut.done : cut.done[k] # << >>)
           => \A k \in DOMAIN now.done : now.done[k] # << >>
    BY <2>1
  <2> HIDE DEF now
  <2> QED BY <2>3, <2>4, <2>5 DEF now
<1> QED BY <1>2, <1>3

\* The lines of a text hold its pieces but the newlines; none is blank.
LEMMA LinesHold ==
    ASSUME NEW f \in Text
    PROVE  /\ Lines(f) \in Seq(Line) /\ Len(Lines(f)) \in 0..Len(f)
           /\ Within(Lines(f)) = In(f) \ {LF}
           /\ \A k \in DOMAIN Lines(f) : Lines(f)[k] # << >>
<1>1. PICK cut \in [0..Len(f) -> Cuts] :
              /\ cut[0] = NoCut
              /\ \A n \in 1..Len(f) : cut[n] = Take(cut[n - 1], f[n])
              /\ Lines(f) = Ended(cut[Len(f)])
  BY LinesDefined
<1>2. Len(f) \in Nat /\ DOMAIN f = 1..Len(f) /\ \A n \in 1..Len(f) : f[n] \in Piece
  BY DEF Text
<1> DEFINE Holds(n) == /\ Within(cut[n].done) \cup In(cut[n].open) = {f[k] : k \in 1..n} \ {LF}
                       /\ Len(cut[n].done) + Opened(cut[n]) <= n
                       /\ \A k \in DOMAIN cut[n].done : cut[n].done[k] # << >>
           Good == {n \in 0..Len(f) : Holds(n)}
<1>3. 0 \in Good
  <2>1. Within(<< >>) = {} /\ In(<< >>) = {} /\ DOMAIN << >> = {} /\ Len(<< >>) = 0
    BY DEF Within, In
  <2>2. cut[0].done = << >> /\ cut[0].open = << >>
    BY <1>1 DEF NoCut
  <2>3. {f[k] : k \in 1..0} = {}
    OBVIOUS
  <2>4. Within(cut[0].done) \cup In(cut[0].open) = {f[k] : k \in 1..0} \ {LF}
    BY <2>1, <2>2, <2>3
  <2>5. Len(cut[0].done) + Opened(cut[0]) <= 0
    BY <2>1, <2>2 DEF Opened
  <2>6. \A k \in DOMAIN cut[0].done : cut[0].done[k] # << >>
    BY <2>1, <2>2
  <2>7. 0 \in 0..Len(f)
    BY <1>2
  <2> QED BY <2>4, <2>5, <2>6, <2>7
<1>4. ASSUME NEW n \in 0..(Len(f) - 1), n \in Good PROVE n + 1 \in Good
  <2>1. /\ n + 1 \in 1..Len(f) /\ n + 1 \in 0..Len(f) /\ n \in 0..Len(f) /\ (n + 1) - 1 = n
    BY <1>2
  <2>2. /\ cut[n + 1] = Take(cut[n], f[n + 1]) /\ cut[n] \in Cuts /\ cut[n + 1] \in Cuts
        /\ f[n + 1] \in Piece
    BY <1>1, <1>2, <2>1
  <2>3. {f[k] : k \in 1..(n + 1)} = {f[k] : k \in 1..n} \cup {f[n + 1]}
    BY <2>1
  <2>4. Within(cut[n + 1].done) \cup In(cut[n + 1].open)
          = (Within(cut[n].done) \cup In(cut[n].open)) \cup ({f[n + 1]} \ {LF})
    BY <2>2, TakeHolds
  <2>5. Len(cut[n + 1].done) + Opened(cut[n + 1])
          <= Len(cut[n].done) + Opened(cut[n]) + 1
    BY <2>2, TakeHolds
  <2>6. \A k \in DOMAIN cut[n + 1].done : cut[n + 1].done[k] # << >>
    <3>1. \A k \in DOMAIN cut[n].done : cut[n].done[k] # << >>
      BY <1>4
    <3> HIDE DEF Good
    <3> QED BY <2>2, <3>1, TakeHolds
  <2>7. Len(cut[n].done) \in Nat /\ Len(cut[n + 1].done) \in Nat
    BY <2>2 DEF Cuts
  <2>8. Within(cut[n + 1].done) \cup In(cut[n + 1].open) = {f[k] : k \in 1..(n + 1)} \ {LF}
    BY <1>4, <2>3, <2>4
  <2>9. Len(cut[n + 1].done) + Opened(cut[n + 1]) <= n + 1
    <3>1. Len(cut[n].done) + Opened(cut[n]) <= n
      BY <1>4
    <3>2. Opened(cut[n]) \in {0, 1} /\ Opened(cut[n + 1]) \in {0, 1}
      BY DEF Opened
    <3> QED BY <2>1, <2>5, <2>7, <3>1, <3>2
  <2> QED BY <2>1, <2>6, <2>8, <2>9
<1>5. Len(f) \in Good
  <2>1. 0 \in Int /\ Len(f) \in Int /\ Len(f) \in 0..Len(f)
    BY <1>2
  <2> HIDE DEF Good
  <2> QED BY <1>3, <1>4, <2>1, Upward
<1>6. cut[Len(f)] \in Cuts
  BY <1>1, <1>2
<1>7. {f[k] : k \in 1..Len(f)} = In(f)
  BY <1>2 DEF In
<1>8. Lines(f) \in Seq(Line)
  BY <1>1, <1>6, EndedType
<1>9. Within(Lines(f)) = In(f) \ {LF}
  BY <1>1, <1>5, <1>6, <1>7, EndedType
<1>10. Len(Lines(f)) <= Len(f) /\ \A k \in DOMAIN Lines(f) : Lines(f)[k] # << >>
  BY <1>1, <1>5, <1>6, EndedType
<1> QED BY <1>2, <1>8, <1>9, <1>10

-----------------------------------------------------------------------------
(* Entries and their chain *)

LEMMA MadeFacts ==
    ASSUME NEW e \in Made
    PROVE  /\ e \in Entry /\ e.idx \in Nat /\ e.data \in Data
           /\ e.prev_hash \in Digest /\ Len(e.prev_hash) = e.idx
           /\ e.self_hash = HashEntry(e.idx, e.data, e.prev_hash)
           /\ e.self_hash \in Digest /\ Len(e.self_hash) = e.idx + 1
<1>1. /\ e \in Entry /\ e.idx \in Nat /\ e.data \in Data /\ e.prev_hash \in Digest
      /\ Len(e.prev_hash) = e.idx /\ e.self_hash = HashEntry(e.idx, e.data, e.prev_hash)
  BY DEF Made, Entry
<1>2. <<e.idx, e.data>> \in Nat \X Data
  BY <1>1
<1>3. /\ Append(e.prev_hash, <<e.idx, e.data>>) \in Digest
      /\ Len(Append(e.prev_hash, <<e.idx, e.data>>)) = e.idx + 1
  BY <1>1, <1>2 DEF Digest
<1> QED BY <1>1, <1>3 DEF HashEntry

LEMMA NewIsMade ==
    ASSUME NEW prev \in Digest, NEW n, n = Len(prev), NEW d \in Data
    PROVE  /\ NewEntry(n, d, prev) \in Made
           /\ NewEntry(n, d, prev).idx = n /\ NewEntry(n, d, prev).prev_hash = prev
<1>1. n \in Nat /\ HashEntry(n, d, prev) \in Digest
  <2>1. <<n, d>> \in Nat \X Data /\ n \in Nat
    BY DEF Digest
  <2> QED BY <2>1 DEF HashEntry, Digest
<1> QED BY <1>1 DEF NewEntry, Made, Entry

\* Where every line parses, the entries are those whose pieces are there.
LEMMA EntriesMade ==
    ASSUME NEW f \in Text, AllParse(f)
    PROVE  /\ Entries(f) \in Seq(Made) /\ Len(Entries(f)) = Len(Lines(f))
           /\ \A e : Tail1(e) \in In(f) => \E k \in 1..Len(Entries(f)) : Entries(f)[k] = e
<1> DEFINE L == Lines(f)
<1>1. L \in Seq(Line) /\ DOMAIN L = 1..Len(L) /\ Len(L) \in Nat /\ Within(L) = In(f) \ {LF}
  BY LinesHold
<1>2. Entries(f) = [k \in 1..Len(L) |-> L[k][1].of]
  BY <1>1 DEF Entries
<1>3. ASSUME NEW k \in 1..Len(L)
      PROVE  L[k] = <<Head1(L[k][1].of), Tail1(L[k][1].of)>> /\ L[k][1].of \in Made
  <2>1. PICK x : L[k] = <<Head1(x), Tail1(x)>>
    BY <1>1 DEF AllParse, Parses
  <2>2. L[k] \in Seq(Piece \ {LF})
    BY <1>1 DEF Line
  <2> HIDE DEF L
  <2>3. L[k][1] = Head1(x) /\ L[k][1] \in Piece /\ Head1(x).of = x
    BY <2>1, <2>2 DEF Head1
  <2>4. x \in Made
    BY <2>3, PieceFacts
  <2> QED BY <2>1, <2>3, <2>4
<1>4. ASSUME NEW e, Tail1(e) \in In(f) PROVE \E k \in 1..Len(L) : L[k][1].of = e
  <2>1. Tail1(e) \in Within(L)
    BY <1>1, <1>4, PieceFacts
  <2>2. PICK k \in 1..Len(L) : \E j \in DOMAIN L[k] : L[k][j] = Tail1(e)
    BY <1>1, <2>1 DEF Within, In
  <2> HIDE DEF L
  <2>3. PICK x : L[k] = <<Head1(x), Tail1(x)>> /\ x = L[k][1].of
    BY <1>3
  <2>4. Tail1(e) = Head1(x) \/ Tail1(e) = Tail1(x)
    <3>1. DOMAIN L[k] = {1, 2}
      BY <2>3
    <3> QED BY <2>2, <2>3, <3>1
  <2>5. e = x
    BY <2>4, PieceFacts
  <2> QED BY <2>3, <2>5
<1> HIDE DEF L
<1>5. Entries(f) \in Seq(Made) /\ Len(Entries(f)) = Len(L) /\ \A k \in 1..Len(L) : Entries(f)[k] = L[k][1].of
  BY <1>1, <1>2, <1>3
<1> QED BY <1>4, <1>5 DEF L

LEMMA EntriesCount ==
    ASSUME NEW f \in Text
    PROVE  Len(Entries(f)) \in 0..Len(f)
<1>1. Lines(f) \in Seq(Line) /\ Len(Lines(f)) \in 0..Len(f)
  BY LinesHold
<1>2. Len(Entries(f)) = Len(Lines(f))
  BY <1>1 DEF Entries
<1> QED BY <1>1, <1>2

\* Along a chain each entry has the next idx, whether or not it is looked at.
LEMMA ChainCounts ==
    ASSUME NEW es \in Seq(Made), NEW prev \in Digest, Continues(es, 0, prev)
    PROVE  \A k \in 1..Len(es) : es[k].idx = Len(prev) + k - 1
<1>1. Len(es) \in Nat /\ Len(prev) \in Nat /\ \A k \in 1..Len(es) : es[k] \in Made
  BY DEF Digest
<1> DEFINE Good == {k \in 1..Len(es) : es[k].idx = Len(prev) + k - 1}
<1>2. CASE Len(es) = 0
  BY <1>2
<1>3. CASE Len(es) # 0
  <2>1. 1 \in Good
    <3>1. 1 \in 1..Len(es) /\ es[1].prev_hash = prev
      BY <1>1, <1>3 DEF Continues
    <3> QED BY <1>1, <3>1, MadeFacts
  <2>2. ASSUME NEW k \in 1..(Len(es) - 1), k \in Good PROVE k + 1 \in Good
    <3>1. k + 1 \in 1..Len(es) /\ k \in 1..Len(es) /\ (k + 1) - 1 = k /\ k + 1 # 1
      BY <1>1
    <3>2. es[k + 1].prev_hash = es[k].self_hash
      BY <3>1 DEF Continues
    <3>3. es[k].idx = Len(prev) + k - 1
      BY <2>2
    <3>4. es[k + 1].idx = es[k].idx + 1
      BY <1>1, <3>1, <3>2, MadeFacts
    <3> QED BY <1>1, <3>1, <3>3, <3>4
  <2>3. 1 \in Int /\ Len(es) \in Int
    BY <1>1
  <2>4. \A k \in 1..Len(es) : k \in Good
    <3> HIDE DEF Good
    <3> QED BY <2>1, <2>2, <2>3, Upward
  <2> QED BY <2>4
<1> QED BY <1>2, <1>3

\* What a resync that is not refused finds: the counters go on as they were.
LEMMA Resynced ==
    ASSUME NEW f \in Text, NEW prev \in Digest, Loads(f, prev)
    PROVE  LET link == IF Lines(f) = << >> THEN prev ELSE LastHash(Entries(f)) IN
           /\ link \in Digest /\ Len(link) = Len(prev) + Len(Entries(f))
           /\ Lines(f) = << >> <=> Entries(f) = << >>
<1>1. Entries(f) \in Seq(Made) /\ Len(Entries(f)) = Len(Lines(f)) /\ Continues(Entries(f), 0, prev)
  BY EntriesMade DEF Loads
<1>2. Lines(f) \in Seq(Line)
  BY LinesHold
<1>3. Lines(f) = << >> <=> Entries(f) = << >>
  BY <1>1, <1>2
<1> DEFINE es == Entries(f)
<1> HIDE DEF es
<1>4. CASE es = << >>
  <2>1. Len(es) = 0 /\ Len(prev) \in Nat
    BY <1>4 DEF Digest
  <2> QED BY <1>3, <1>4, <2>1 DEF es
<1>5. CASE es # << >>
  <2>1. Len(es) \in 1..Len(es) /\ Len(es) \in Nat /\ es[Len(es)] \in Made /\ Len(prev) \in Nat
    BY <1>1, <1>5 DEF es, Digest
  <2>2. es[Len(es)].idx = Len(prev) + Len(es) - 1
    BY <1>1, <2>1, ChainCounts DEF es
  <2>3. es[Len(es)].self_hash \in Digest /\ Len(es[Len(es)].self_hash) = Len(prev) + Len(es)
    BY <2>1, <2>2, MadeFacts
  <2> QED BY <1>3, <1>5, <2>3 DEF es, LastHash
<1> QED BY <1>4, <1>5

\* The loader, which does not look at the stored idx, and verify() agree.
LEMMA LoaderVerify ==
    ASSUME NEW f \in Text
    PROVE  Loads(f, GENESIS) <=> Verifies(f)
<1> SUFFICES ASSUME AllParse(f)
             PROVE  Continues(Entries(f), 0, GENESIS) <=> VerifyText(Entries(f))
  BY DEF Loads, Verifies
<1> DEFINE es == Entries(f)
<1>1. es \in Seq(Made)
  BY EntriesMade
<1>2. GENESIS \in Digest /\ Len(GENESIS) = 0
  BY DEF GENESIS, Digest
<1> HIDE DEF es
<1>3. Len(es) \in Nat
  BY <1>1
<1>4. ASSUME Continues(es, 0, GENESIS) PROVE VerifyText(es)
  <2>1. \A k \in 1..Len(es) : es[k].idx = k - 1
    BY <1>1, <1>2, <1>4, ChainCounts
  <2>2. ASSUME NEW k \in 1..Len(es)
        PROVE  /\ es[k].prev_hash = PrevOf(es, k)
               /\ es[k].self_hash = HashEntry(es[k].idx, es[k].data, es[k].prev_hash)
    BY <1>4 DEF Continues, PrevOf
  <2> QED BY <2>1, <2>2 DEF VerifyText
<1>5. ASSUME VerifyText(es) PROVE Continues(es, 0, GENESIS)
  BY <1>3, <1>5 DEF Continues, VerifyText, PrevOf
<1> QED BY <1>4, <1>5 DEF es

-----------------------------------------------------------------------------
(* The inductive invariant *)

Inside == {"flush", "fsync", "return"}
OnDisk == {file[k] : k \in 1..durable}

Typed ==
    /\ file \in Text /\ durable \in 0..Len(file) /\ flock \in Instances \cup {None}
    /\ up \in [Instances -> BOOLEAN] /\ count \in [Instances -> Nat]
    /\ last \in [Instances -> Digest] /\ size \in [Instances -> Nat]
    /\ pending \in [Instances -> Nat] /\ buf \in [Instances -> Text]
    /\ pc \in [Instances -> Inside \cup {"idle", "close", "closed"}]
    /\ entry \in [Instances -> Made \cup {None}]
    /\ acks \subseteq [by : Instances, entry : Made]
    /\ faulted \in BOOLEAN

\* The holder of the flock is the instance inside append().
Locking ==
    \A i \in Instances : /\ flock = i <=> pc[i] \in Inside
                         /\ flock = i <=> entry[i] # None
                         /\ pc[i] # "idle" => up[i]

\* The counters describe a part of the file; the entry under way goes on there.
Counting ==
    \A i \in Instances :
        /\ Len(last[i]) = count[i] /\ count[i] <= size[i] /\ size[i] <= Len(file)
        /\ entry[i] # None => entry[i].idx = count[i]
        /\ pc[i] = "flush" => size[i] + 3 <= Len(file) + Len(buf[i])
        /\ pc[i] \in {"fsync", "return"} => buf[i] = << >> /\ size[i] + 3 <= Len(file)

\* What is to be synced is on the file, and none of it at a closed handle.
Windows ==
    \A i \in Instances :
        /\ pending[i] <= Len(file)
        /\ i \notin Batch \/ pc[i] = "closed" => pending[i] = 0

\* The text of an entry under way is in the buffer or in the file, that of a
\* returned one in the file; after a sync append's fsync it is on the disk.
Written ==
    /\ \A i \in Instances :
         /\ pc[i] = "flush" => Tail1(entry[i]) \in In(file) \cup In(buf[i])
         /\ pc[i] \in {"fsync", "return"} => Tail1(entry[i]) \in In(file)
         /\ pc[i] = "return" /\ i \notin Batch => Tail1(entry[i]) \in OnDisk
    /\ \A a \in acks : /\ Tail1(a.entry) \in In(file)
                       /\ a.by \notin Batch => Tail1(a.entry) \in OnDisk

IInv == Typed /\ Locking /\ Counting /\ Windows /\ Written

-----------------------------------------------------------------------------
(* Texts that grow *)

LEMMA Grown ==
    ASSUME NEW f \in Text, NEW t \in Text
    PROVE  /\ f \o t \in Text /\ Len(f \o t) = Len(f) + Len(t)
           /\ Len(f) \in Nat /\ Len(t) \in Nat /\ DOMAIN f = 1..Len(f)
           /\ \A k \in 1..Len(f) : (f \o t)[k] = f[k]
           /\ In(f \o t) = In(f) \cup In(t)
<1> DEFINE g == f \o t
<1>1. /\ g \in Text /\ Len(g) = Len(f) + Len(t) /\ Len(f) \in Nat /\ Len(t) \in Nat
      /\ DOMAIN f = 1..Len(f) /\ DOMAIN t = 1..Len(t) /\ DOMAIN g = 1..(Len(f) + Len(t))
  BY DEF Text
<1>2. /\ \A k \in 1..Len(f) : g[k] = f[k]
      /\ \A k \in 1..Len(t) : Len(f) + k \in DOMAIN g /\ g[Len(f) + k] = t[k]
  BY <1>1 DEF Text
<1> HIDE DEF g
<1>3. In(g) = In(f) \cup In(t)
  <2>1. ASSUME NEW k \in DOMAIN g PROVE g[k] \in In(f) \cup In(t)
    <3>1. CASE k <= Len(f)
      <4>1. k \in 1..Len(f)
        BY <1>1, <3>1
      <4> QED BY <1>1, <1>2, <4>1 DEF In
    <3>2. CASE ~(k <= Len(f))
      <4>1. k - Len(f) \in 1..Len(t) /\ Len(f) + (k - Len(f)) = k
        BY <1>1, <3>2
      <4>2. g[k] = t[k - Len(f)]
        BY <1>2, <4>1
      <4> QED BY <1>1, <4>1, <4>2 DEF In
    <3> QED BY <3>1, <3>2
  <2>2. ASSUME NEW k \in DOMAIN f PROVE f[k] \in In(g)
    <3>1. k \in DOMAIN g /\ g[k] = f[k]
      BY <1>1, <1>2
    <3> QED BY <3>1 DEF In
  <2>3. ASSUME NEW k \in DOMAIN t PROVE t[k] \in In(g)
    BY <1>1, <1>2 DEF In
  <2> QED BY <2>1, <2>2, <2>3 DEF In
<1> QED BY <1>1, <1>2, <1>3 DEF g

LEMMA Split ==
    ASSUME NEW b \in Text, NEW n \in 0..Len(b)
    PROVE  /\ SubSeq(b, 1, n) \in Text /\ Len(SubSeq(b, 1, n)) = n
           /\ SubSeq(b, n + 1, Len(b)) \in Text /\ Len(SubSeq(b, n + 1, Len(b))) = Len(b) - n
           /\ \A k \in 1..n : SubSeq(b, 1, n)[k] = b[k]
           /\ \A k \in 1..(Len(b) - n) : SubSeq(b, n + 1, Len(b))[k] = b[n + k]
           /\ In(b) = In(SubSeq(b, 1, n)) \cup In(SubSeq(b, n + 1, Len(b)))
<1> DEFINE p == SubSeq(b, 1, n)
           q == SubSeq(b, n + 1, Len(b))
<1>1. /\ Len(b) \in Nat /\ n \in Nat /\ DOMAIN b = 1..Len(b)
      /\ p \in Text /\ Len(p) = n /\ q \in Text /\ Len(q) = Len(b) - n
      /\ DOMAIN p = 1..n /\ DOMAIN q = 1..(Len(b) - n)
      /\ \A k \in 1..n : p[k] = b[k]
      /\ \A k \in 1..(Len(b) - n) : q[k] = b[n + k]
  BY DEF Text
<1> HIDE DEF p, q
<1>2. In(b) = In(p) \cup In(q)
  <2>1. ASSUME NEW k \in 1..Len(b) PROVE b[k] \in In(p) \cup In(q)
    <3>1. CASE k <= n
      <4>1. k \in 1..n
        BY <1>1, <3>1
      <4> QED BY <1>1, <4>1 DEF In
    <3>2. CASE ~(k <= n)
      <4>1. k - n \in 1..(Len(b) - n) /\ n + (k - n) = k
        BY <1>1, <3>2
      <4> QED BY <1>1, <4>1 DEF In
    <3> QED BY <3>1, <3>2
  <2>2. ASSUME NEW k \in 1..n PROVE p[k] \in In(b)
    <3>1. k \in 1..Len(b)
      BY <1>1
    <3> QED BY <1>1, <3>1 DEF In
  <2>3. ASSUME NEW k \in 1..(Len(b) - n) PROVE q[k] \in In(b)
    <3>1. n + k \in 1..Len(b)
      BY <1>1
    <3> QED BY <1>1, <3>1 DEF In
  <2>4. In(b) \subseteq In(p) \cup In(q)
    BY <1>1, <2>1 DEF In
  <2>5. In(p) \subseteq In(b) /\ In(q) \subseteq In(b)
    BY <1>1, <2>2, <2>3 DEF In
  <2> QED BY <2>4, <2>5
<1> QED BY <1>1, <1>2 DEF p, q

LEMMA LineFacts ==
    ASSUME NEW e \in Made
    PROVE  LineOf(e) \in Text /\ Len(LineOf(e)) = 3 /\ Tail1(e) \in In(LineOf(e))
<1>1. {Head1(e), Tail1(e), LF} \subseteq Piece
  BY DEF Piece
<1>2. LineOf(e) \in Text /\ Len(LineOf(e)) = 3 /\ LineOf(e)[2] = Tail1(e) /\ 2 \in DOMAIN LineOf(e)
  BY <1>1 DEF LineOf, Text
<1> QED BY <1>2 DEF In

LEMMA FileGrows ==
    ASSUME Typed, NEW t \in Text, file' = file \o t, durable' = durable
    PROVE  /\ file' \in Text /\ durable' \in 0..Len(file') /\ Len(file') = Len(file) + Len(t)
           /\ Len(file) \in Nat /\ Len(t) \in Nat
           /\ In(file') = In(file) \cup In(t) /\ OnDisk' = OnDisk
<1>1. /\ file' \in Text /\ Len(file') = Len(file) + Len(t) /\ Len(file) \in Nat /\ Len(t) \in Nat
      /\ \A k \in 1..Len(file) : file'[k] = file[k]
      /\ In(file') = In(file) \cup In(t)
  BY Grown DEF Typed
<1>2. durable \in 0..Len(file)
  BY DEF Typed
<1>3. \A k \in 1..durable : file'[k] = file[k]
  BY <1>1, <1>2
<1> QED BY <1>1, <1>2, <1>3 DEF OnDisk

-----------------------------------------------------------------------------
(* Each step keeps the invariant *)

LEMMA InitKeeps == Init => IInv
<1> SUFFICES ASSUME Init PROVE IInv
  OBVIOUS
<1>1. << >> \in Text /\ GENESIS \in Digest /\ Len(GENESIS) = 0 /\ Len(<< >>) = 0
  BY DEF Text, GENESIS, Digest
<1>2. Typed
  <2>1. /\ file \in Text /\ durable \in 0..Len(file) /\ flock \in Instances \cup {None}
        /\ acks \subseteq [by : Instances, entry : Made] /\ faulted \in BOOLEAN
    <3>1. /\ file = << >> /\ durable = 0 /\ flock = None /\ acks = {} /\ faulted = FALSE
      BY DEF Init
    <3>2. durable \in 0..Len(file)
      BY <1>1, <3>1
    <3> QED BY <1>1, <3>1, <3>2
  <2>2. /\ up \in [Instances -> BOOLEAN] /\ count \in [Instances -> Nat]
        /\ last \in [Instances -> Digest] /\ size \in [Instances -> Nat]
        /\ pending \in [Instances -> Nat] /\ buf \in [Instances -> Text]
        /\ pc \in [Instances -> Inside \cup {"idle", "close", "closed"}]
        /\ entry \in [Instances -> Made \cup {None}]
    BY <1>1 DEF Init
  <2> QED BY <2>1, <2>2 DEF Typed
<1>3. Locking
  BY DEF Init, Locking, Inside
<1>4. Counting
  BY <1>1 DEF Init, Counting
<1>5. Windows
  BY DEF Init, Windows
<1>6. Written
  BY DEF Init, Written
<1> QED BY <1>2, <1>3, <1>4, <1>5, <1>6 DEF IInv

LEMMA StartKeeps ==
    ASSUME IInv, NEW i \in Instances, Start(i)
    PROVE  IInv'
<1>1. Typed /\ Locking /\ Counting /\ Windows /\ Written
  BY DEF IInv
<1>2. /\ ~up[i] /\ flock = None /\ Loads(file, GENESIS)
      /\ up' = [up EXCEPT ![i] = TRUE]
      /\ count' = [count EXCEPT ![i] = Len(Entries(file))]
      /\ last' = [last EXCEPT ![i] = LastHash(Entries(file))]
      /\ size' = [size EXCEPT ![i] = Len(file)]
      /\ UNCHANGED <<file, durable, flock, pending, buf, pc, entry, acks, faulted>>
  BY DEF Start
<1>3. /\ LastHash(Entries(file)) \in Digest /\ Len(LastHash(Entries(file))) = Len(Entries(file))
      /\ Len(Entries(file)) \in 0..Len(file) /\ Len(file) \in Nat
  <2>1. file \in Text /\ Len(file) \in Nat
    BY <1>1 DEF Typed, Text
  <2>2. GENESIS \in Digest /\ Len(GENESIS) = 0
    BY DEF GENESIS, Digest
  <2>3. Len(Entries(file)) \in 0..Len(file)
    BY <2>1, EntriesCount
  <2> DEFINE link == IF Lines(file) = << >> THEN GENESIS ELSE LastHash(Entries(file))
  <2>4. /\ link \in Digest /\ Len(link) = Len(GENESIS) + Len(Entries(file))
        /\ Lines(file) = << >> <=> Entries(file) = << >>
    BY <1>2, <2>1, <2>2, Resynced
  <2>5. link = LastHash(Entries(file))
    BY <2>4 DEF LastHash
  <2> HIDE DEF link
  <2> QED BY <2>1, <2>2, <2>3, <2>4, <2>5
<1>4. Typed'
  BY <1>1, <1>2, <1>3 DEF Typed
<1>5. Locking'
  BY <1>1, <1>2 DEF Locking, Typed
<1>6. Counting'
  <2>1. pc[i] = "idle" /\ entry[i] = None
    BY <1>1, <1>2 DEF Locking
  <2>2. /\ count' \in [Instances -> Nat] /\ last'[i] = LastHash(Entries(file))
        /\ count'[i] = Len(Entries(file)) /\ size'[i] = Len(file)
        /\ \A j \in Instances \ {i} : last'[j] = last[j] /\ count'[j] = count[j] /\ size'[j] = size[j]
    BY <1>1, <1>2, <1>3 DEF Typed
  <2> QED BY <1>1, <1>2, <1>3, <2>1, <2>2 DEF Counting
<1>7. Windows' /\ Written'
  BY <1>1, <1>2 DEF Windows, Written, OnDisk
<1> QED BY <1>4, <1>5, <1>6, <1>7 DEF IInv

LEMMA BeginKeeps ==
    ASSUME IInv, NEW i \in Instances, NEW d \in Data, Begin(i, d)
    PROVE  IInv'
<1> DEFINE rest == SubSeq(file, size[i] + 1, Len(file))
           e    == NewEntry(NextIdx(i, rest), d, NextPrev(i, rest))
<1>1. Typed /\ Locking /\ Counting /\ Windows /\ Written
  BY DEF IInv
<1>2. /\ pc[i] = "idle" /\ pc' = [pc EXCEPT ![i] = "flush"]
      /\ up[i] /\ flock = None /\ size[i] <= Len(file) /\ Loads(rest, last[i])
      /\ flock' = i
      /\ count' = [count EXCEPT ![i] = e.idx]
      /\ last' = [last EXCEPT ![i] = e.prev_hash]
      /\ size' = [size EXCEPT ![i] = Len(file)]
      /\ entry' = [entry EXCEPT ![i] = e]
      /\ buf' = [buf EXCEPT ![i] = @ \o LineOf(e)]
      /\ UNCHANGED <<file, durable, up, pending, acks, faulted>>
  BY DEF Begin, Goto
<1>3. /\ file \in Text /\ Len(file) \in Nat /\ size[i] \in 0..Len(file) /\ buf[i] \in Text
      /\ last[i] \in Digest /\ Len(last[i]) = count[i] /\ count[i] \in Nat /\ count[i] <= size[i]
  BY <1>1, <1>2 DEF Typed, Counting, Text
<1>4. rest \in Text /\ Len(rest) = Len(file) - size[i]
  BY <1>3, Split
<1>5. /\ NextPrev(i, rest) \in Digest /\ Len(NextPrev(i, rest)) = NextIdx(i, rest)
      /\ NextIdx(i, rest) \in 0..Len(file)
  <2> HIDE DEF rest
  <2>1. Len(Entries(rest)) \in 0..Len(rest)
    BY <1>4, EntriesCount
  <2>2. NextPrev(i, rest) \in Digest /\ Len(NextPrev(i, rest)) = Len(last[i]) + Len(Entries(rest))
    BY <1>2, <1>3, <1>4, Resynced DEF NextPrev, rest
  <2> QED BY <1>3, <1>4, <2>1, <2>2 DEF NextIdx
<1>6. e \in Made /\ e.idx = NextIdx(i, rest) /\ e.prev_hash = NextPrev(i, rest)
  BY <1>5, NewIsMade
<1>7. e # None
  BY <1>6 DEF Made
<1> DEFINE idx  == NextIdx(i, rest)
           link == NextPrev(i, rest)
<1>8. e.idx = idx /\ e.prev_hash = link
  BY <1>6
<1> HIDE DEF rest, e, idx, link
<1>9. idx \in 0..Len(file) /\ link \in Digest /\ Len(link) = idx
  BY <1>5 DEF idx, link
<1>10. /\ buf[i] \o LineOf(e) \in Text /\ Len(buf[i] \o LineOf(e)) = Len(buf[i]) + 3
       /\ Len(buf[i]) \in Nat /\ Tail1(e) \in In(buf[i] \o LineOf(e))
  <2> DEFINE t == LineOf(e)
             b == buf[i]
  <2>1. t \in Text /\ Len(t) = 3 /\ Tail1(e) \in In(t)
    BY <1>6, LineFacts
  <2>2. b \in Text
    BY <1>3
  <2> HIDE DEF t, b
  <2>3. b \o t \in Text /\ Len(b \o t) = Len(b) + Len(t) /\ Len(b) \in Nat
        /\ In(b \o t) = In(b) \cup In(t)
    BY <2>1, <2>2, Grown
  <2> QED BY <2>1, <2>3 DEF t, b
<1>11. Typed'
  BY <1>1, <1>2, <1>3, <1>6, <1>8, <1>9, <1>10, SMTT(20) DEF Typed, Inside
<1>12. Locking'
  <2>1. \A j \in Instances : flock # j
    BY <1>2
  <2> QED BY <1>1, <1>2, <1>7, <2>1 DEF Locking, Typed, Inside
<1>13. Counting'
  <2>1. /\ last'[i] = link /\ count'[i] = idx /\ size'[i] = Len(file) /\ entry'[i] = e
        /\ pc'[i] = "flush" /\ Len(buf'[i]) = Len(buf[i]) + 3
        /\ \A j \in Instances \ {i} :
             /\ last'[j] = last[j] /\ count'[j] = count[j] /\ size'[j] = size[j]
             /\ entry'[j] = entry[j] /\ pc'[j] = pc[j] /\ buf'[j] = buf[j]
    BY <1>1, <1>2, <1>8, <1>10 DEF Typed
  <2>2. ASSUME NEW j \in Instances \ {i}
        PROVE  /\ Len(last'[j]) = count'[j] /\ count'[j] <= size'[j] /\ size'[j] <= Len(file')
               /\ entry'[j] # None => entry'[j].idx = count'[j]
               /\ pc'[j] = "flush" => size'[j] + 3 <= Len(file') + Len(buf'[j])
               /\ pc'[j] \in {"fsync", "return"} => buf'[j] = << >> /\ size'[j] + 3 <= Len(file')
    BY <1>1, <1>2, <2>1 DEF Counting
  <2>3. /\ Len(last'[i]) = count'[i] /\ count'[i] <= size'[i] /\ size'[i] <= Len(file')
        /\ entry'[i] # None => entry'[i].idx = count'[i]
        /\ size'[i] + 3 <= Len(file') + Len(buf'[i])
    BY <1>2, <1>3, <1>8, <1>9, <1>10, <2>1
  <2> QED BY <2>1, <2>2, <2>3 DEF Counting
<1>14. Windows'
  BY <1>1, <1>2 DEF Windows, Typed
<1>15. Written'
  <2>1. /\ entry'[i] = e /\ pc'[i] = "flush" /\ Tail1(e) \in In(buf'[i])
        /\ \A j \in Instances \ {i} : entry'[j] = entry[j] /\ pc'[j] = pc[j] /\ buf'[j] = buf[j]
    BY <1>1, <1>2, <1>10 DEF Typed
  <2> QED BY <1>1, <1>2, <2>1 DEF Written, OnDisk
<1> QED BY <1>11, <1>12, <1>13, <1>14, <1>15 DEF IInv


LEMMA FlushSomeKeeps ==
    ASSUME IInv, NEW i \in Instances, NEW n \in 1..Len(buf[i]), FlushSome(i, n)
    PROVE  IInv'
<1> DEFINE out == SubSeq(buf[i], 1, n)
           kept == SubSeq(buf[i], n + 1, Len(buf[i]))
           rest == Len(buf[i]) - n
           p == IF i \in Batch /\ rest = 0 THEN pending[i] + 1 ELSE pending[i]
           to == IF rest > 0 THEN "flush" ELSE IF FsyncDue(i, p) THEN "fsync" ELSE "return"
<1>1. Typed /\ Locking /\ Counting /\ Windows /\ Written
  BY DEF IInv
<1>2. /\ pc[i] = "flush" /\ pc' = [pc EXCEPT ![i] = to]
      /\ file' = file \o out /\ buf' = [buf EXCEPT ![i] = kept]
      /\ pending' = [pending EXCEPT ![i] = p]
      /\ UNCHANGED <<durable, flock, up, count, last, size, entry, acks, faulted>>
  BY <1>1 DEF FlushSome, WriteOut, Goto, counters, Typed
<1>3. /\ buf[i] \in Text /\ Len(buf[i]) \in Nat /\ n \in 1..Len(buf[i]) /\ n \in 0..Len(buf[i])
      /\ pending[i] \in Nat /\ flock = i /\ entry[i] # None
  BY <1>1, <1>2 DEF Typed, Text, Locking, Inside
<1>4. /\ out \in Text /\ Len(out) = n /\ kept \in Text /\ Len(kept) = rest /\ rest \in Nat
      /\ In(buf[i]) = In(out) \cup In(kept)
  <2> DEFINE b == buf[i]
  <2>1. b \in Text /\ n \in 0..Len(b) /\ out = SubSeq(b, 1, n) /\ kept = SubSeq(b, n + 1, Len(b))
        /\ rest = Len(b) - n /\ rest \in Nat
    BY <1>3
  <2> HIDE DEF b, out, kept, rest
  <2>2. /\ SubSeq(b, 1, n) \in Text /\ Len(SubSeq(b, 1, n)) = n
        /\ SubSeq(b, n + 1, Len(b)) \in Text /\ Len(SubSeq(b, n + 1, Len(b))) = Len(b) - n
        /\ In(b) = In(SubSeq(b, 1, n)) \cup In(SubSeq(b, n + 1, Len(b)))
    BY <2>1, Split
  <2> QED BY <2>1, <2>2 DEF b
<1> HIDE DEF out, kept
<1>5. /\ file' \in Text /\ durable' \in 0..Len(file') /\ Len(file') = Len(file) + n
      /\ Len(file) \in Nat /\ In(file') = In(file) \cup In(out) /\ OnDisk' = OnDisk
  BY <1>1, <1>2, <1>4, FileGrows
<1>6. /\ p \in Nat /\ (i \notin Batch => p = 0) /\ p <= Len(file) + 1
      /\ to \in {"flush", "fsync", "return"} /\ (to = "flush" <=> rest > 0)
      /\ (to # "flush" => rest = 0)
      /\ (i \notin Batch => to # "return")
  <2>1. pending[i] <= Len(file) /\ (i \notin Batch => pending[i] = 0)
    BY <1>1 DEF Windows
  <2>2. BatchSize \in Nat
    OBVIOUS
  <2>3. CASE rest > 0
    BY <1>3, <1>4, <1>5, <2>1, <2>2, <2>3
  <2>4. CASE rest = 0
    BY <1>3, <1>4, <1>5, <2>1, <2>2, <2>4 DEF FsyncDue
  <2> QED BY <1>4, <2>3, <2>4
<1> HIDE DEF p, to, rest
<1>7. Typed'
  BY <1>1, <1>2, <1>4, <1>5, <1>6 DEF Typed, Inside
<1>8. Locking'
  <2>1. pc'[i] = to /\ \A j \in Instances \ {i} : pc'[j] = pc[j]
    BY <1>1, <1>2 DEF Typed
  <2>2. up[i]
    BY <1>1, <1>2 DEF Locking
  <2> QED BY <1>1, <1>2, <1>3, <1>6, <2>1, <2>2 DEF Locking, Inside
<1>9. /\ pc'[i] = to /\ buf'[i] = kept /\ pending'[i] = p
      /\ \A j \in Instances \ {i} : pc'[j] = pc[j] /\ buf'[j] = buf[j] /\ pending'[j] = pending[j]
  BY <1>1, <1>2 DEF Typed
<1>10. Counting'
  <2>1. ASSUME NEW j \in Instances \ {i}
        PROVE  pc'[j] \notin Inside
    BY <1>1, <1>3, <1>9 DEF Locking
  <2>2. ASSUME NEW j \in Instances
        PROVE  /\ Len(last'[j]) = count'[j] /\ count'[j] <= size'[j] /\ size'[j] <= Len(file')
               /\ entry'[j] # None => entry'[j].idx = count'[j]
    BY <1>1, <1>2, <1>3, <1>5 DEF Counting, Typed
  <2>3. size[i] \in Nat /\ size[i] + 3 <= Len(file) + Len(buf[i]) /\ Len(buf[i]) = n + rest
    BY <1>1, <1>2, <1>3 DEF Counting, Typed, rest
  <2>4. /\ pc'[i] = "flush" => size'[i] + 3 <= Len(file') + Len(buf'[i])
        /\ pc'[i] \in {"fsync", "return"} => size'[i] + 3 <= Len(file')
    <3>1. size'[i] = size[i] /\ Len(buf'[i]) = rest /\ (pc'[i] \in {"fsync", "return"} => rest = 0)
      BY <1>2, <1>4, <1>6, <1>9
    <3>2. size[i] + 3 <= Len(file') + rest
      BY <1>3, <1>4, <1>5, <2>3
    <3> QED BY <1>5, <3>1, <3>2, <2>3
  <2>5. pc'[i] \in {"fsync", "return"} => buf'[i] = << >>
    <3>1. rest = 0 => kept = << >>
      BY <1>4 DEF Text
    <3> QED BY <1>6, <1>9, <3>1
  <2> QED BY <2>1, <2>2, <2>4, <2>5 DEF Counting, Inside
<1>11. Windows'
  <2>1. pending'[i] <= Len(file') /\ (i \notin Batch => pending'[i] = 0) /\ pc'[i] # "closed"
    BY <1>3, <1>5, <1>6, <1>9
  <2>2. ASSUME NEW j \in Instances \ {i}
        PROVE  /\ pending'[j] <= Len(file')
               /\ j \notin Batch \/ pc'[j] = "closed" => pending'[j] = 0
    <3>1. pending[j] \in Nat /\ pending[j] <= Len(file) /\ Len(file) <= Len(file')
      BY <1>1, <1>3, <1>5 DEF Windows, Typed
    <3> QED BY <1>1, <1>5, <1>9, <3>1 DEF Windows
  <2> QED BY <2>1, <2>2 DEF Windows
<1>12. Written'
  <2>1. ASSUME NEW j \in Instances
        PROVE  /\ pc'[j] = "flush" => Tail1(entry'[j]) \in In(file') \cup In(buf'[j])
               /\ pc'[j] \in {"fsync", "return"} => Tail1(entry'[j]) \in In(file')
               /\ pc'[j] = "return" /\ j \notin Batch => Tail1(entry'[j]) \in OnDisk'
    <3>1. CASE j # i
      BY <1>1, <1>2, <1>5, <1>9, <3>1 DEF Written
    <3>2. CASE j = i
      <4>1. Tail1(entry[i]) \in In(file) \cup In(buf[i])
        BY <1>1, <1>2 DEF Written
      <4>2. rest = 0 => In(kept) = {}
        <5>1. rest = 0 => kept = << >>
          BY <1>4 DEF Text
        <5> QED BY <5>1 DEF In
      <4> QED BY <1>2, <1>4, <1>5, <1>6, <1>9, <3>2, <4>1, <4>2
    <3> QED BY <3>1, <3>2
  <2>2. ASSUME NEW a \in acks'
        PROVE  Tail1(a.entry) \in In(file') /\ (a.by \notin Batch => Tail1(a.entry) \in OnDisk')
    BY <1>1, <1>2, <1>5 DEF Written
  <2> QED BY <2>1, <2>2 DEF Written
<1> QED BY <1>7, <1>8, <1>10, <1>11, <1>12 DEF IInv

LEMMA FsyncKeeps ==
    ASSUME IInv, NEW i \in Instances, Fsync(i)
    PROVE  IInv'
<1>1. Typed /\ Locking /\ Counting /\ Windows /\ Written
  BY DEF IInv
<1>2. /\ pc[i] = "fsync" /\ pc' = [pc EXCEPT ![i] = "return"]
      /\ durable' = Len(file) /\ pending' = [pending EXCEPT ![i] = 0]
      /\ UNCHANGED <<file, flock, up, count, last, size, buf, entry, acks, faulted>>
  BY DEF Fsync, Goto, counters
<1>3. /\ pc'[i] = "return" /\ pending'[i] = 0
      /\ \A j \in Instances \ {i} : pc'[j] = pc[j] /\ pending'[j] = pending[j]
  BY <1>1, <1>2 DEF Typed
<1>4. OnDisk' = In(file) /\ OnDisk \subseteq In(file) /\ Len(file) \in Nat
  <2>1. DOMAIN file = 1..Len(file) /\ Len(file) \in Nat /\ durable \in 0..Len(file)
    BY <1>1 DEF Typed, Text
  <2> QED BY <1>2, <2>1 DEF OnDisk, In
<1>5. Typed'
  BY <1>1, <1>2, <1>4 DEF Typed, Inside
<1>6. Locking'
  BY <1>1, <1>2, <1>3 DEF Locking, Inside
<1>7. Counting'
  BY <1>1, <1>2, <1>3 DEF Counting
<1>8. Windows'
  BY <1>1, <1>2, <1>3, <1>4 DEF Windows
<1>9. Written'
  <2>1. ASSUME NEW j \in Instances
        PROVE  /\ pc'[j] = "flush" => Tail1(entry'[j]) \in In(file') \cup In(buf'[j])
               /\ pc'[j] \in {"fsync", "return"} => Tail1(entry'[j]) \in In(file')
               /\ pc'[j] = "return" /\ j \notin Batch => Tail1(entry'[j]) \in OnDisk'
    BY <1>1, <1>2, <1>3, <1>4 DEF Written
  <2>2. ASSUME NEW a \in acks'
        PROVE  Tail1(a.entry) \in In(file') /\ (a.by \notin Batch => Tail1(a.entry) \in OnDisk')
    BY <1>1, <1>2, <1>4 DEF Written
  <2> QED BY <2>1, <2>2 DEF Written
<1> QED BY <1>5, <1>6, <1>7, <1>8, <1>9 DEF IInv

LEMMA FlushKeeps ==
    ASSUME IInv, NEW i \in Instances, Flush(i)
    PROVE  IInv'
<1>1. Typed /\ Locking /\ Counting /\ Windows /\ Written
  BY DEF IInv
<1>2. /\ durable' = Len(file) /\ pending' = [pending EXCEPT ![i] = 0]
      /\ UNCHANGED <<file, flock, up, count, last, size, buf, pc, entry, acks, faulted>>
  BY DEF Flush, counters
<1>3. pending'[i] = 0 /\ \A j \in Instances \ {i} : pending'[j] = pending[j]
  BY <1>1, <1>2 DEF Typed
<1>4. OnDisk' = In(file) /\ OnDisk \subseteq In(file) /\ Len(file) \in Nat
  <2>1. DOMAIN file = 1..Len(file) /\ Len(file) \in Nat /\ durable \in 0..Len(file)
    BY <1>1 DEF Typed, Text
  <2> QED BY <1>2, <2>1 DEF OnDisk, In
<1>5. Typed'
  BY <1>1, <1>2, <1>4 DEF Typed
<1>6. Locking' /\ Counting'
  BY <1>1, <1>2 DEF Locking, Counting
<1>7. Windows'
  BY <1>1, <1>2, <1>3, <1>4 DEF Windows
<1>8. Written'
  BY <1>1, <1>2, <1>4 DEF Written
<1> QED BY <1>5, <1>6, <1>7, <1>8 DEF IInv

LEMMA ReturnKeeps ==
    ASSUME IInv, NEW i \in Instances, Return(i)
    PROVE  IInv'
<1>1. Typed /\ Locking /\ Counting /\ Windows /\ Written
  BY DEF IInv
<1>2. /\ pc[i] = "return" /\ pc' = [pc EXCEPT ![i] = "idle"] /\ flock' = None
      /\ count' = [count EXCEPT ![i] = @ + 1]
      /\ last' = [last EXCEPT ![i] = entry[i].self_hash]
      /\ size' = [size EXCEPT ![i] = @ + 3]
      /\ entry' = [entry EXCEPT ![i] = None]
      /\ acks' = acks \cup {[by |-> i, entry |-> entry[i]]}
      /\ UNCHANGED <<file, durable, up, pending, buf, faulted>>
  <2>1. Len(LineOf(entry[i])) = 3
    BY DEF LineOf
  <2> QED BY <2>1 DEF Return, Goto
<1>3. flock = i /\ entry[i] \in Made /\ entry[i] # None /\ entry[i].idx = count[i]
  BY <1>1, <1>2 DEF Locking, Inside, Typed, Counting
<1>4. entry[i].self_hash \in Digest /\ Len(entry[i].self_hash) = count[i] + 1
  BY <1>3, MadeFacts
<1>5. /\ pc'[i] = "idle" /\ count'[i] = count[i] + 1 /\ last'[i] = entry[i].self_hash
      /\ size'[i] = size[i] + 3 /\ entry'[i] = None
      /\ \A j \in Instances \ {i} :
            /\ pc'[j] = pc[j] /\ count'[j] = count[j] /\ last'[j] = last[j]
            /\ size'[j] = size[j] /\ entry'[j] = entry[j]
  BY <1>1, <1>2 DEF Typed
<1>6. Typed'
  BY <1>1, <1>2, <1>3, <1>4 DEF Typed, Inside
<1>7. Locking'
  BY <1>1, <1>2, <1>3, <1>5 DEF Locking, Inside
<1>8. Counting'
  <2>1. ASSUME NEW j \in Instances \ {i}
        PROVE  /\ Len(last'[j]) = count'[j] /\ count'[j] <= size'[j] /\ size'[j] <= Len(file')
               /\ entry'[j] # None => entry'[j].idx = count'[j]
               /\ pc'[j] = "flush" => size'[j] + 3 <= Len(file') + Len(buf'[j])
               /\ pc'[j] \in {"fsync", "return"} => buf'[j] = << >> /\ size'[j] + 3 <= Len(file')
    BY <1>1, <1>2, <1>5 DEF Counting
  <2>2. /\ Len(last'[i]) = count'[i] /\ count'[i] <= size'[i] /\ size'[i] <= Len(file')
    <3>1. /\ count[i] \in Nat /\ size[i] \in Nat /\ count[i] <= size[i]
          /\ size[i] + 3 <= Len(file)
      BY <1>1, <1>2 DEF Typed, Counting
    <3> QED BY <1>2, <1>4, <1>5, <3>1
  <2> QED BY <1>5, <2>1, <2>2 DEF Counting
<1>9. Windows'
  BY <1>1, <1>2, <1>5 DEF Windows
<1>10. Written'
  <2>1. ASSUME NEW j \in Instances
        PROVE  /\ pc'[j] = "flush" => Tail1(entry'[j]) \in In(file') \cup In(buf'[j])
               /\ pc'[j] \in {"fsync", "return"} => Tail1(entry'[j]) \in In(file')
               /\ pc'[j] = "return" /\ j \notin Batch => Tail1(entry'[j]) \in OnDisk'
    BY <1>1, <1>2, <1>5 DEF Written, OnDisk
  <2>2. ASSUME NEW a \in acks'
        PROVE  Tail1(a.entry) \in In(file') /\ (a.by \notin Batch => Tail1(a.entry) \in OnDisk')
    BY <1>1, <1>2 DEF Written, OnDisk
  <2> QED BY <2>1, <2>2 DEF Written
<1> QED BY <1>6, <1>7, <1>8, <1>9, <1>10 DEF IInv

\* append() raises: at the flush, or at the fsync.
LEMMA FailsKeeps ==
    ASSUME IInv, NEW i \in Instances, FlushFails(i) \/ FsyncFails(i)
    PROVE  IInv'
<1> DEFINE to == IF i \in Batch THEN "idle" ELSE "close"
<1>1. Typed /\ Locking /\ Counting /\ Windows /\ Written
  BY DEF IInv
<1>2. /\ pc[i] \in {"flush", "fsync"} /\ pc' = [pc EXCEPT ![i] = to] /\ flock' = None
      /\ entry' = [entry EXCEPT ![i] = None] /\ faulted' \in {TRUE, faulted}
      /\ UNCHANGED <<file, durable, up, count, last, size, pending, buf, acks>>
  BY DEF FlushFails, FsyncFails, Goto, counters
<1>3. to \in {"idle", "close"}
  OBVIOUS
<1> HIDE DEF to
<1>4. flock = i /\ up[i]
  BY <1>1, <1>2 DEF Locking, Inside
<1>5. /\ pc'[i] = to /\ entry'[i] = None
      /\ \A j \in Instances \ {i} : pc'[j] = pc[j] /\ entry'[j] = entry[j]
  BY <1>1, <1>2 DEF Typed
<1>6. Typed'
  BY <1>1, <1>2, <1>3 DEF Typed, Inside
<1>7. Locking'
  BY <1>1, <1>2, <1>3, <1>4, <1>5 DEF Locking, Inside
<1>8. Counting'
  BY <1>1, <1>2, <1>3, <1>5 DEF Counting
<1>9. Windows'
  BY <1>1, <1>2, <1>3, <1>5 DEF Windows
<1>10. Written'
  BY <1>1, <1>2, <1>3, <1>5 DEF Written, OnDisk
<1> QED BY <1>6, <1>7, <1>8, <1>9, <1>10 DEF IInv

LEMMA CloseSyncKeeps ==
    ASSUME IInv, NEW i \in Instances, NEW n \in 0..Len(buf[i]), CloseSync(i, n)
    PROVE  IInv'
<1> DEFINE out == SubSeq(buf[i], 1, n)
<1>1. Typed /\ Locking /\ Counting /\ Windows /\ Written
  BY DEF IInv
<1>2. /\ pc[i] = "close" /\ pc' = [pc EXCEPT ![i] = "idle"]
      /\ file' = file \o out /\ buf' = [buf EXCEPT ![i] = << >>]
      /\ UNCHANGED <<durable, flock, up, count, last, size, pending, entry, acks, faulted>>
  BY DEF CloseSync, CloseFile, Goto, counters
<1>3. out \in Text /\ << >> \in Text
  BY <1>1, Split DEF Typed, Text
<1> HIDE DEF out
<1>4. /\ file' \in Text /\ durable' \in 0..Len(file') /\ Len(file') = Len(file) + Len(out)
      /\ Len(file) \in Nat /\ Len(out) \in Nat /\ In(file') = In(file) \cup In(out) /\ OnDisk' = OnDisk
  BY <1>1, <1>2, <1>3, FileGrows
<1>5. /\ pc'[i] = "idle" /\ buf'[i] = << >>
      /\ \A j \in Instances \ {i} : pc'[j] = pc[j] /\ buf'[j] = buf[j]
  BY <1>1, <1>2 DEF Typed
<1>6. Typed'
  BY <1>1, <1>2, <1>3, <1>4 DEF Typed, Inside
<1>7. Locking'
  BY <1>1, <1>2, <1>5 DEF Locking, Inside
<1>8. Counting'
  <2>1. ASSUME NEW j \in Instances
        PROVE  /\ Len(last'[j]) = count'[j] /\ count'[j] <= size'[j] /\ size'[j] <= Len(file')
               /\ entry'[j] # None => entry'[j].idx = count'[j]
    BY <1>1, <1>2, <1>4 DEF Counting, Typed
  <2>2. ASSUME NEW j \in Instances \ {i}
        PROVE  /\ pc'[j] = "flush" => size'[j] + 3 <= Len(file') + Len(buf'[j])
               /\ pc'[j] \in {"fsync", "return"} => buf'[j] = << >> /\ size'[j] + 3 <= Len(file')
    <3>1. size[j] \in Nat /\ Len(buf[j]) \in Nat
      BY <1>1 DEF Typed, Text
    <3>2. size'[j] = size[j] /\ buf'[j] = buf[j] /\ pc'[j] = pc[j]
      BY <1>2, <1>5
    <3>3. /\ pc[j] = "flush" => size[j] + 3 <= Len(file) + Len(buf[j])
          /\ pc[j] \in {"fsync", "return"} => buf[j] = << >> /\ size[j] + 3 <= Len(file)
      BY <1>1 DEF Counting
    <3>4. \A w \in Nat : size[j] + 3 <= Len(file) + w => size[j] + 3 <= Len(file') + w
      BY <1>4, <3>1
    <3>5. size[j] + 3 <= Len(file) => size[j] + 3 <= Len(file')
      BY <1>4, <3>1
    <3> QED BY <1>2, <3>1, <3>2, <3>3, <3>4, <3>5
  <2> QED BY <1>5, <2>1, <2>2 DEF Counting
<1>9. Windows'
  <2>1. ASSUME NEW j \in Instances PROVE pending'[j] <= Len(file')
    BY <1>1, <1>2, <1>4 DEF Windows, Typed
  <2> QED BY <1>1, <1>2, <1>5, <2>1 DEF Windows
<1>10. Written'
  BY <1>1, <1>2, <1>4, <1>5 DEF Written
<1> QED BY <1>6, <1>7, <1>8, <1>9, <1>10 DEF IInv


LEMMA CloseBatchKeeps ==
    ASSUME IInv, NEW i \in Instances, NEW n \in 0..Len(buf[i]), CloseBatch(i, n)
    PROVE  IInv'
<1> DEFINE out == SubSeq(buf[i], 1, n)
           to  == IF n < Len(buf[i]) THEN "closed" ELSE "idle"
           dur == IF pending[i] > 0 THEN Len(file) ELSE durable
<1>1. Typed /\ Locking /\ Counting /\ Windows /\ Written
  BY DEF IInv
<1>2. /\ pc[i] = "idle" /\ pc' = [pc EXCEPT ![i] = to] /\ up[i] /\ i \in Batch
      /\ durable' = dur /\ pending' = [pending EXCEPT ![i] = 0]
      /\ file' = file \o out /\ buf' = [buf EXCEPT ![i] = << >>]
      /\ UNCHANGED <<flock, up, count, last, size, entry, acks, faulted>>
  BY DEF CloseBatch, CloseFile, Goto, counters
<1>3. out \in Text /\ << >> \in Text /\ file \in Text
  BY <1>1, Split DEF Typed, Text
<1>4. to \in {"closed", "idle"} /\ dur \in durable..Len(file)
  <2>1. durable \in 0..Len(file) /\ Len(file) \in Nat
    BY <1>1, <1>3 DEF Typed, Text
  <2> QED BY <2>1
<1> HIDE DEF out, to, dur
<1>5. /\ file' \in Text /\ Len(file') = Len(file) + Len(out)
      /\ Len(file) \in Nat /\ Len(out) \in Nat /\ In(file') = In(file) \cup In(out)
      /\ \A k \in 1..Len(file) : file'[k] = file[k]
  BY <1>2, <1>3, Grown
<1>6. durable' \in 0..Len(file') /\ OnDisk \subseteq OnDisk'
  <2>1. durable \in 0..Len(file)
    BY <1>1 DEF Typed
  <2>2. durable' \in 0..Len(file') /\ durable' \in durable..Len(file)
    BY <1>2, <1>4, <1>5, <2>1
  <2>3. ASSUME NEW k \in 1..durable PROVE k \in 1..durable' /\ file'[k] = file[k]
    BY <1>5, <2>1, <2>2
  <2> QED BY <2>2, <2>3 DEF OnDisk
<1>7. /\ pc'[i] = to /\ buf'[i] = << >> /\ pending'[i] = 0
      /\ \A j \in Instances \ {i} : pc'[j] = pc[j] /\ buf'[j] = buf[j] /\ pending'[j] = pending[j]
  BY <1>1, <1>2 DEF Typed
<1>8. Typed'
  BY <1>1, <1>2, <1>3, <1>4, <1>5, <1>6 DEF Typed, Inside
<1>9. Locking'
  BY <1>1, <1>2, <1>4, <1>7 DEF Locking, Inside
<1>10. Counting'
  <2>1. ASSUME NEW j \in Instances
        PROVE  /\ Len(last'[j]) = count'[j] /\ count'[j] <= size'[j] /\ size'[j] <= Len(file')
               /\ entry'[j] # None => entry'[j].idx = count'[j]
    BY <1>1, <1>2, <1>5 DEF Counting, Typed
  <2>2. ASSUME NEW j \in Instances \ {i}
        PROVE  /\ pc'[j] = "flush" => size'[j] + 3 <= Len(file') + Len(buf'[j])
               /\ pc'[j] \in {"fsync", "return"} => buf'[j] = << >> /\ size'[j] + 3 <= Len(file')
    <3>1. size[j] \in Nat /\ Len(buf[j]) \in Nat
      BY <1>1 DEF Typed, Text
    <3>2. size'[j] = size[j] /\ buf'[j] = buf[j] /\ pc'[j] = pc[j]
      BY <1>2, <1>7
    <3>3. /\ pc[j] = "flush" => size[j] + 3 <= Len(file) + Len(buf[j])
          /\ pc[j] \in {"fsync", "return"} => buf[j] = << >> /\ size[j] + 3 <= Len(file)
      BY <1>1 DEF Counting
    <3>4. \A w \in Nat : size[j] + 3 <= Len(file) + w => size[j] + 3 <= Len(file') + w
      BY <1>5, <3>1
    <3>5. size[j] + 3 <= Len(file) => size[j] + 3 <= Len(file')
      BY <1>5, <3>1
    <3> QED BY <1>2, <3>1, <3>2, <3>3, <3>4, <3>5
  <2> QED BY <1>4, <1>7, <2>1, <2>2 DEF Counting
<1>11. Windows'
  <2>1. ASSUME NEW j \in Instances PROVE pending'[j] <= Len(file')
    BY <1>1, <1>2, <1>5, <1>7 DEF Windows, Typed
  <2> QED BY <1>1, <1>2, <1>7, <2>1 DEF Windows
<1>12. Written'
  <2>1. ASSUME NEW j \in Instances
        PROVE  /\ pc'[j] = "flush" => Tail1(entry'[j]) \in In(file') \cup In(buf'[j])
               /\ pc'[j] \in {"fsync", "return"} => Tail1(entry'[j]) \in In(file')
               /\ pc'[j] = "return" /\ j \notin Batch => Tail1(entry'[j]) \in OnDisk'
    BY <1>1, <1>2, <1>4, <1>5, <1>6, <1>7 DEF Written
  <2>2. ASSUME NEW a \in acks'
        PROVE  Tail1(a.entry) \in In(file') /\ (a.by \notin Batch => Tail1(a.entry) \in OnDisk')
    BY <1>1, <1>2, <1>5, <1>6 DEF Written
  <2> QED BY <2>1, <2>2 DEF Written
<1> QED BY <1>8, <1>9, <1>10, <1>11, <1>12 DEF IInv

LEMMA CloseAgainKeeps ==
    ASSUME IInv, NEW i \in Instances, CloseAgain(i)
    PROVE  IInv'
<1>1. Typed /\ Locking /\ Counting /\ Windows /\ Written
  BY DEF IInv
<1>2. /\ pc[i] = "closed" /\ pc' = [pc EXCEPT ![i] = "idle"]
      /\ UNCHANGED <<file, durable, flock, up, count, last, size, pending, buf, entry, acks, faulted>>
  BY DEF CloseAgain, Goto, counters
<1>3. pc'[i] = "idle" /\ \A j \in Instances \ {i} : pc'[j] = pc[j]
  BY <1>1, <1>2 DEF Typed
<1>4. Typed'
  BY <1>1, <1>2 DEF Typed, Inside
<1>5. Locking'
  BY <1>1, <1>2, <1>3 DEF Locking, Inside
<1>6. Counting'
  BY <1>1, <1>2, <1>3 DEF Counting
<1>7. Windows'
  BY <1>1, <1>2, <1>3 DEF Windows
<1>8. Written'
  BY <1>1, <1>2, <1>3 DEF Written, OnDisk
<1> QED BY <1>4, <1>5, <1>6, <1>7, <1>8 DEF IInv

\* What a stop does to the processes; the dead start from nothing.
LEMMA Stopped ==
    ASSUME IInv, NEW Dead \in SUBSET Instances, Stop(Dead)
    PROVE  /\ flock' \in Instances \cup {None}
           /\ up' \in [Instances -> BOOLEAN] /\ count' \in [Instances -> Nat]
           /\ last' \in [Instances -> Digest] /\ size' \in [Instances -> Nat]
           /\ pending' \in [Instances -> Nat] /\ buf' \in [Instances -> Text]
           /\ pc' \in [Instances -> Inside \cup {"idle", "close", "closed"}]
           /\ entry' \in [Instances -> Made \cup {None}] /\ faulted' \in BOOLEAN
           /\ Locking'
           /\ \A j \in Dead : /\ pc'[j] = "idle" /\ entry'[j] = None /\ last'[j] = GENESIS
                              /\ Len(last'[j]) = 0 /\ count'[j] = 0 /\ size'[j] = 0
                              /\ pending'[j] = 0
           /\ \A j \in Instances \ Dead :
                 /\ pc'[j] = pc[j] /\ entry'[j] = entry[j] /\ last'[j] = last[j]
                 /\ count'[j] = count[j] /\ size'[j] = size[j] /\ buf'[j] = buf[j]
                 /\ pending'[j] = pending[j]
<1>1. Typed /\ Locking /\ Counting /\ Windows /\ Written
  BY DEF IInv
<1>2. /\ faulted' = TRUE /\ flock' = IF flock \in Dead THEN None ELSE flock
      /\ up' = [i \in Instances |-> up[i] /\ i \notin Dead]
      /\ count' = [i \in Instances |-> IF i \in Dead THEN 0 ELSE count[i]]
      /\ last' = [i \in Instances |-> IF i \in Dead THEN GENESIS ELSE last[i]]
      /\ size' = [i \in Instances |-> IF i \in Dead THEN 0 ELSE size[i]]
      /\ pending' = [i \in Instances |-> IF i \in Dead THEN 0 ELSE pending[i]]
      /\ buf' = [i \in Instances |-> IF i \in Dead THEN << >> ELSE buf[i]]
      /\ pc' = [i \in Instances |-> IF i \in Dead THEN "idle" ELSE pc[i]]
      /\ entry' = [i \in Instances |-> IF i \in Dead THEN None ELSE entry[i]]
  BY DEF Stop
<1>3. GENESIS \in Digest /\ Len(GENESIS) = 0 /\ << >> \in Text
  BY DEF GENESIS, Digest, Text
<1>4. /\ flock' \in Instances \cup {None} /\ faulted' \in BOOLEAN
      /\ up' \in [Instances -> BOOLEAN] /\ count' \in [Instances -> Nat]
      /\ last' \in [Instances -> Digest] /\ size' \in [Instances -> Nat]
  BY <1>1, <1>2, <1>3 DEF Typed
<1>5. /\ pending' \in [Instances -> Nat] /\ buf' \in [Instances -> Text]
      /\ pc' \in [Instances -> Inside \cup {"idle", "close", "closed"}]
      /\ entry' \in [Instances -> Made \cup {None}]
  BY <1>1, <1>2, <1>3 DEF Typed
<1>6. ASSUME NEW j \in Dead
      PROVE  /\ pc'[j] = "idle" /\ entry'[j] = None /\ last'[j] = GENESIS
             /\ Len(last'[j]) = 0 /\ count'[j] = 0 /\ size'[j] = 0 /\ pending'[j] = 0 /\ flock' # j
  BY <1>2, <1>3
<1>7. ASSUME NEW j \in Instances \ Dead
      PROVE  /\ pc'[j] = pc[j] /\ entry'[j] = entry[j] /\ last'[j] = last[j]
             /\ count'[j] = count[j] /\ size'[j] = size[j] /\ buf'[j] = buf[j]
             /\ pending'[j] = pending[j] /\ up'[j] = up[j] /\ (flock' = j <=> flock = j)
  BY <1>1, <1>2 DEF Typed
<1>8. Locking'
  <2>1. ASSUME NEW j \in Dead
        PROVE  /\ flock' = j <=> pc'[j] \in Inside
               /\ flock' = j <=> entry'[j] # None
               /\ pc'[j] # "idle" => up'[j]
    BY <1>6 DEF Inside
  <2>2. ASSUME NEW j \in Instances \ Dead
        PROVE  /\ flock' = j <=> pc'[j] \in Inside
               /\ flock' = j <=> entry'[j] # None
               /\ pc'[j] # "idle" => up'[j]
    BY <1>1, <1>7 DEF Locking
  <2> QED BY <2>1, <2>2 DEF Locking
<1> QED BY <1>4, <1>5, <1>6, <1>7, <1>8

LEMMA KillKeeps ==
    ASSUME IInv, NEW i \in Instances, Kill(i)
    PROVE  IInv'
<1>1. Typed /\ Locking /\ Counting /\ Windows /\ Written
  BY DEF IInv
<1>2. Stop({i}) /\ {i} \in SUBSET Instances /\ UNCHANGED <<file, durable, acks>>
  BY DEF Kill
<1>3. OnDisk' = OnDisk
  BY <1>2 DEF OnDisk
<1>4. /\ Locking'
      /\ pc'[i] = "idle" /\ entry'[i] = None /\ Len(last'[i]) = 0 /\ count'[i] = 0 /\ size'[i] = 0
      /\ pending'[i] = 0
      /\ \A j \in Instances \ {i} :
            /\ pc'[j] = pc[j] /\ entry'[j] = entry[j] /\ last'[j] = last[j]
            /\ count'[j] = count[j] /\ size'[j] = size[j] /\ buf'[j] = buf[j]
            /\ pending'[j] = pending[j]
  BY <1>2, Stopped
<1>5. Typed'
  BY <1>1, <1>2, Stopped DEF Typed
<1>6. Counting'
  <2>1. Len(file) \in Nat
    BY <1>1 DEF Typed, Text
  <2>2. ASSUME NEW j \in Instances \ {i}
        PROVE  /\ Len(last'[j]) = count'[j] /\ count'[j] <= size'[j] /\ size'[j] <= Len(file')
               /\ entry'[j] # None => entry'[j].idx = count'[j]
               /\ pc'[j] = "flush" => size'[j] + 3 <= Len(file') + Len(buf'[j])
               /\ pc'[j] \in {"fsync", "return"} => buf'[j] = << >> /\ size'[j] + 3 <= Len(file')
    <3>1. /\ pc'[j] = pc[j] /\ entry'[j] = entry[j] /\ last'[j] = last[j] /\ file' = file
          /\ count'[j] = count[j] /\ size'[j] = size[j] /\ buf'[j] = buf[j]
      BY <1>2, <1>4
    <3> QED BY <1>1, <3>1 DEF Counting
  <2> QED BY <1>2, <1>4, <2>1, <2>2 DEF Counting
<1>7. Windows'
  <2>1. Len(file) \in Nat
    BY <1>1 DEF Typed, Text
  <2> QED BY <1>1, <1>2, <1>4, <2>1 DEF Windows
<1>8. Written'
  BY <1>1, <1>2, <1>3, <1>4 DEF Written
<1> QED BY <1>4, <1>5, <1>6, <1>7, <1>8 DEF IInv

LEMMA PowerLossKeeps ==
    ASSUME IInv, PowerLoss
    PROVE  IInv'
<1>1. Typed /\ Locking /\ Counting /\ Windows /\ Written
  BY DEF IInv
<1>2. Stop(Instances) /\ Instances \in SUBSET Instances /\ acks' = {a \in acks : a.by \notin Batch}
  BY DEF PowerLoss
<1>3. PICK k \in durable..Len(file) : file' = SubSeq(file, 1, k) /\ durable' = k
  BY DEF PowerLoss
<1>4. file \in Text /\ durable \in 0..Len(file) /\ Len(file) \in Nat /\ k \in 0..Len(file)
  BY <1>1, <1>3 DEF Typed, Text
<1>5. file' \in Text /\ Len(file') = k /\ \A j \in 1..k : file'[j] = file[j]
  BY <1>3, <1>4, Split
<1>6. OnDisk \subseteq OnDisk' /\ OnDisk' = In(file')
  <2>1. DOMAIN file' = 1..k
    BY <1>5 DEF Text
  <2>2. \A j \in 1..durable : j \in 1..k
    BY <1>3, <1>4
  <2> QED BY <1>3, <1>5, <2>1, <2>2 DEF OnDisk, In
<1>7. /\ Locking'
      /\ \A j \in Instances : pc'[j] = "idle" /\ entry'[j] = None /\ Len(last'[j]) = 0
                              /\ count'[j] = 0 /\ size'[j] = 0 /\ pending'[j] = 0
  BY <1>2, Stopped
<1>8. Typed'
  <2>1. durable' \in 0..Len(file')
    BY <1>3, <1>4, <1>5
  <2>2. acks' \subseteq [by : Instances, entry : Made]
    BY <1>1, <1>2 DEF Typed
  <2> QED BY <1>2, <1>5, <2>1, <2>2, Stopped DEF Typed
<1>9. Counting'
  <2>1. Len(file') \in Nat
    BY <1>4, <1>5
  <2> QED BY <1>7, <2>1 DEF Counting
<1>10. Written'
  <2>1. ASSUME NEW a \in acks'
        PROVE  Tail1(a.entry) \in In(file') /\ (a.by \notin Batch => Tail1(a.entry) \in OnDisk')
    BY <1>1, <1>2, <1>6 DEF Written
  <2> QED BY <1>7, <2>1 DEF Written
<1>11. Windows'
  <2>1. Len(file') \in Nat
    BY <1>4, <1>5
  <2> QED BY <1>7, <2>1 DEF Windows
<1> QED BY <1>7, <1>8, <1>9, <1>10, <1>11 DEF IInv

LEMMA NextKeeps == IInv /\ [Next]_vars => IInv'
<1> SUFFICES ASSUME IInv, [Next]_vars PROVE IInv'
  OBVIOUS
<1>1. ASSUME NEW i \in Instances, Start(i) PROVE IInv'
  BY <1>1, StartKeeps
<1>2. ASSUME NEW i \in Instances, NEW d \in Data, Begin(i, d) PROVE IInv'
  BY <1>2, BeginKeeps
<1>3. ASSUME NEW i \in Instances, NEW n \in 1..Len(buf[i]), FlushSome(i, n) PROVE IInv'
  BY <1>3, FlushSomeKeeps
<1>4. ASSUME NEW i \in Instances, Fsync(i) \/ FsyncFails(i) \/ Return(i) \/ FlushFails(i) \/ Flush(i)
      PROVE  IInv'
  BY <1>4, FsyncKeeps, ReturnKeeps, FailsKeeps, FlushKeeps
<1>5. ASSUME NEW i \in Instances, NEW n \in 0..Len(buf[i]), CloseSync(i, n) \/ CloseBatch(i, n)
      PROVE  IInv'
  BY <1>5, CloseSyncKeeps, CloseBatchKeeps
<1>6. ASSUME NEW i \in Instances, CloseAgain(i) \/ Kill(i) PROVE IInv'
  BY <1>6, CloseAgainKeeps, KillKeeps
<1>7. CASE PowerLoss
  BY <1>7, PowerLossKeeps
<1>8. CASE UNCHANGED vars
  BY <1>8 DEF IInv, Typed, Locking, Counting, Windows, Written, OnDisk, vars
<1> QED BY <1>1, <1>2, <1>3, <1>4, <1>5, <1>6, <1>7, <1>8 DEF Next

-----------------------------------------------------------------------------
(* Theorems *)

\* Whatever fails, and whatever a failed flush leaves behind: each instance's
\* counters describe a part of the file, and every entry that append() returned
\* is on the file (ledger.py:263-280, 320-375).
THEOREM IOInvariant == Spec => []IInv
<1> QED BY InitKeeps, NextKeeps, PTL DEF Spec

\* The type invariant, with what the flock and the counters owe the file: the
\* holder is the instance inside append(), no counter is past the end, the lines
\* waiting for an fsync are on the file however often it failed, and none waits
\* at a closed handle (ledger.py:265-280, 320-375).
THEOREM IOTypeOK == Spec => []TypeOK
<1>1. IInv => TypeOK
  <2> SUFFICES ASSUME IInv PROVE TypeOK
    OBVIOUS
  <2>1. Typed /\ Locking /\ Counting /\ Windows
    BY DEF IInv
  <2>2. ASSUME NEW i \in Instances
        PROVE  /\ pc[i] \in {"idle", "flush", "fsync", "return", "close", "closed"}
               /\ flock = i <=> pc[i] \in {"flush", "fsync", "return"}
               /\ flock = i <=> entry[i] # None
               /\ pc[i] # "idle" => up[i]
    BY <2>1 DEF Typed, Locking, Inside
  <2>3. ASSUME NEW i \in Instances
        PROVE  /\ size[i] \in 0..Len(file) /\ count[i] \in 0..size[i]
               /\ pending[i] \in 0..Len(file)
               /\ i \notin Batch \/ pc[i] = "closed" => pending[i] = 0
    <3>1. size[i] \in Nat /\ count[i] \in Nat /\ pending[i] \in Nat /\ Len(file) \in Nat
      BY <2>1 DEF Typed, Text
    <3> QED BY <2>1, <3>1 DEF Counting, Windows
  <2>4. durable \in 0..Len(file) /\ flock \in Instances \cup {None}
    BY <2>1 DEF Typed
  <2> QED BY <2>2, <2>3, <2>4 DEF TypeOK
<1> QED BY <1>1, IOInvariant, PTL

\* _replay, which does not look at the stored idx (ledger.py:297-318), takes a
\* file exactly when verify_text (ledger.py:469-501) does.
THEOREM IOLoaderAgrees == Spec => []LoaderAgreesWithVerify
<1>1. IInv => LoaderAgreesWithVerify
  BY LoaderVerify DEF IInv, Typed, LoaderAgreesWithVerify
<1> QED BY <1>1, IOInvariant, PTL

\* Loss is never silent: a file that verify() accepts holds every entry that
\* append() returned, each at its idx (ledger.py:336-383).
THEOREM IOVerifiedComplete == Spec => []VerifiedMeansComplete
<1>1. IInv => VerifiedMeansComplete
  <2> SUFFICES ASSUME IInv, Verifies(file), NEW a \in acks PROVE OnFile(a)
    BY DEF VerifiedMeansComplete
  <2>1. file \in Text /\ Tail1(a.entry) \in In(file) /\ AllParse(file) /\ VerifyText(Entries(file))
    BY DEF IInv, Typed, Written, Verifies
  <2> DEFINE es == Entries(file)
  <2>2. PICK k \in 1..Len(es) : es[k] = a.entry
    BY <2>1, EntriesMade
  <2>3. es[k].idx = k - 1 /\ Len(es) \in Nat
    <3>1. Len(es) \in Nat
      BY <2>1, EntriesMade
    <3> QED BY <2>1, <3>1 DEF VerifyText
  <2> HIDE DEF es
  <2>4. a.entry.idx < Len(es) /\ a.entry.idx + 1 = k
    BY <2>2, <2>3
  <2> QED BY <2>2, <2>4 DEF OnFile, es
<1> QED BY <1>1, IOInvariant, PTL


-----------------------------------------------------------------------------
(* While nothing fails: whole lines only *)

\* f is the text of the entries es, line after line.
IsText(f, es) ==
    /\ f \in Text /\ es \in Seq(Made) /\ Len(f) = 3 * Len(es)
    /\ \A k \in 1..Len(es) : /\ f[3 * k - 2] = Head1(es[k])
                             /\ f[3 * k - 1] = Tail1(es[k])
                             /\ f[3 * k] = LF

LineIn(es, k) == <<Head1(es[k]), Tail1(es[k])>>

\* Three pieces, one more line.
LEMMA TakeLine ==
    ASSUME NEW cut \in Cuts, cut.open = << >>, NEW e \in Made
    PROVE  LET last3 == Take(Take(Take(cut, Head1(e)), Tail1(e)), LF) IN
           last3.open = << >> /\ last3.done = Append(cut.done, <<Head1(e), Tail1(e)>>)
<1> DEFINE one == Take(cut, Head1(e))
           two == Take(one, Tail1(e))
           three == Take(two, LF)
<1>1. Head1(e) # LF /\ Tail1(e) # LF
  BY PieceFacts
<1>2. one.done = cut.done /\ one.open = <<Head1(e)>>
  BY <1>1 DEF Take
<1>3. two.done = cut.done /\ two.open = <<Head1(e), Tail1(e)>>
  <2> HIDE DEF one
  <2>1. two.done = one.done /\ two.open = Append(one.open, Tail1(e))
    BY <1>1 DEF Take
  <2>2. ASSUME NEW h, NEW t PROVE Append(<<h>>, t) = <<h, t>>
    <3> DEFINE S == {h, t}
               a == Append(<<h>>, t)
    <3>1. <<h>> \in Seq(S) /\ t \in S /\ <<h, t>> \in Seq(S)
      OBVIOUS
    <3>2. a \in Seq(S) /\ Len(a) = 2 /\ a[1] = h /\ a[2] = t
      BY <3>1, AppendProperties
    <3> HIDE DEF S, a
    <3>3. \A k \in 1..Len(a) : a[k] = <<h, t>>[k]
      BY <3>2
    <3> QED BY <3>1, <3>2, <3>3, SeqEqual DEF a
  <2> QED BY <1>2, <2>1, <2>2
<1>4. three.open = << >> /\ three.done = Append(cut.done, <<Head1(e), Tail1(e)>>)
  <2> HIDE DEF two
  <2> QED BY <1>3 DEF Take, Ended
<1> QED BY <1>4

LEMMA TextLines ==
    ASSUME NEW f, NEW es, IsText(f, es)
    PROVE  Len(Lines(f)) = Len(es) /\ \A k \in 1..Len(es) : Lines(f)[k] = LineIn(es, k)
<1>1. /\ f \in Text /\ es \in Seq(Made) /\ Len(es) \in Nat /\ Len(f) = 3 * Len(es)
      /\ \A k \in 1..Len(es) : es[k] \in Made
  BY DEF IsText
<1>2. PICK cut \in [0..Len(f) -> Cuts] :
              /\ cut[0] = NoCut
              /\ \A n \in 1..Len(f) : cut[n] = Take(cut[n - 1], f[n])
              /\ Lines(f) = Ended(cut[Len(f)])
  BY <1>1, LinesDefined
<1> DEFINE Upto(n) == /\ cut[3 * n].open = << >> /\ Len(cut[3 * n].done) = n
                      /\ \A k \in 1..n : cut[3 * n].done[k] = LineIn(es, k)
           Good == {n \in 0..Len(es) : Upto(n)}
<1>3. 0 \in Good
  <2>1. cut[3 * 0] = NoCut /\ 0 \in 0..Len(es)
    BY <1>1, <1>2
  <2> QED BY <2>1 DEF NoCut
<1>4. ASSUME NEW n \in 0..(Len(es) - 1), n \in Good PROVE n + 1 \in Good
  <2> DEFINE was == cut[3 * n]
             now == cut[3 * (n + 1)]
             e == es[n + 1]
  <2>1. /\ n \in Nat /\ n + 1 \in 1..Len(es) /\ n + 1 \in 0..Len(es) /\ e \in Made
        /\ 3 * n \in 0..Len(f) /\ 3 * n + 1 \in 1..Len(f) /\ 3 * n + 2 \in 1..Len(f)
        /\ 3 * n + 3 \in 1..Len(f) /\ 3 * (n + 1) = 3 * n + 3
        /\ (3 * n + 1) - 1 = 3 * n /\ (3 * n + 2) - 1 = 3 * n + 1 /\ (3 * n + 3) - 1 = 3 * n + 2
        /\ 3 * (n + 1) - 2 = 3 * n + 1 /\ 3 * (n + 1) - 1 = 3 * n + 2
    BY <1>1
  <2>2. was \in Cuts /\ was.open = << >> /\ Len(was.done) = n /\ \A k \in 1..n : was.done[k] = LineIn(es, k)
    BY <1>2, <1>4, <2>1
  <2>3. f[3 * n + 1] = Head1(e) /\ f[3 * n + 2] = Tail1(e) /\ f[3 * n + 3] = LF
    BY <2>1 DEF IsText
  <2>4. /\ cut[3 * n + 1] = Take(was, Head1(e))
        /\ cut[3 * n + 2] = Take(cut[3 * n + 1], Tail1(e))
        /\ now = Take(cut[3 * n + 2], LF)
    <3>1. cut[3 * n + 1] = Take(cut[3 * n], f[3 * n + 1])
      BY <1>2, <2>1
    <3>2. cut[3 * n + 2] = Take(cut[3 * n + 1], f[3 * n + 2])
      BY <1>2, <2>1
    <3>3. cut[3 * n + 3] = Take(cut[3 * n + 2], f[3 * n + 3])
      BY <1>2, <2>1
    <3> QED BY <2>1, <2>3, <3>1, <3>2, <3>3
  <2> HIDE DEF was, now, e
  <2>5. now.open = << >> /\ now.done = Append(was.done, <<Head1(e), Tail1(e)>>)
    BY <2>1, <2>2, <2>4, TakeLine
  <2>6. was.done \in Seq(Line)
    BY <2>2 DEF Cuts
  <2>7. <<Head1(e), Tail1(e)>> = LineIn(es, n + 1)
    BY DEF LineIn, e
  <2>8. /\ Len(now.done) = n + 1 /\ now.done[n + 1] = LineIn(es, n + 1)
        /\ \A k \in 1..n : now.done[k] = LineIn(es, k)
    <3> DEFINE L == was.done
               l == <<Head1(e), Tail1(e)>>
    <3> HIDE DEF L, l
    <3>1. L \in Seq(Line) /\ Len(L) = n /\ now.done = Append(L, l) /\ l \in Line
      <4>1. Head1(e) \in Piece \ {LF} /\ Tail1(e) \in Piece \ {LF}
        BY <2>1, PieceFacts
      <4> QED BY <2>2, <2>5, <2>6, <4>1 DEF L, l, Line
    <3>2. /\ Len(Append(L, l)) = n + 1 /\ Append(L, l)[n + 1] = l
          /\ \A k \in 1..n : Append(L, l)[k] = L[k]
      BY <3>1, AppendProperties
    <3> QED BY <2>2, <2>7, <3>1, <3>2 DEF L, l
  <2>9. \A k \in 1..(n + 1) : k \in 1..n \/ k = n + 1
    BY <2>1
  <2> QED BY <2>1, <2>5, <2>8, <2>9 DEF now
<1>5. Len(es) \in Good
  <2>1. 0 \in Int /\ Len(es) \in Int /\ Len(es) \in 0..Len(es)
    BY <1>1
  <2> HIDE DEF Good
  <2> QED BY <1>3, <1>4, <2>1, Upward
<1>6. Lines(f) = cut[Len(f)].done
  BY <1>1, <1>2, <1>5 DEF Ended
<1> QED BY <1>1, <1>5, <1>6

\* Such a text has the entries it was made of.
LEMMA TextEntries ==
    ASSUME NEW f, NEW es, IsText(f, es)
    PROVE  AllParse(f) /\ Entries(f) = es
<1>1. /\ Len(Lines(f)) = Len(es) /\ \A k \in 1..Len(es) : Lines(f)[k] = LineIn(es, k)
  BY TextLines
<1>2. /\ Lines(f) \in Seq(Line) /\ DOMAIN Lines(f) = 1..Len(es)
      /\ es \in Seq(Made) /\ DOMAIN es = 1..Len(es) /\ Len(es) \in Nat
  BY <1>1, LinesHold DEF IsText
<1>3. ASSUME NEW k \in 1..Len(es)
      PROVE  1 \in DOMAIN Lines(f)[k] /\ Lines(f)[k][1].of = es[k]
             /\ Lines(f)[k] = <<Head1(es[k]), Tail1(es[k])>>
  BY <1>1 DEF LineIn, Head1
<1>4. AllParse(f)
  BY <1>2, <1>3 DEF AllParse, Parses
<1>5. Entries(f) \in Seq(Made) /\ Len(Entries(f)) = Len(es) /\ \A k \in 1..Len(es) : Entries(f)[k] = es[k]
  <2>1. f \in Text
    BY DEF IsText
  <2>2. Entries(f) \in Seq(Made) /\ Len(Entries(f)) = Len(es)
    BY <1>1, <1>4, <2>1, EntriesMade
  <2> QED BY <1>2, <1>3, <2>2 DEF Entries
<1>6. Entries(f) = es
  BY <1>2, <1>5, SeqEqual
<1> QED BY <1>4, <1>6

\* What follows the first part of a concatenation is the second part, place by
\* place (the text of a line is read at its offset in the file).
LEMMA GrownAt ==
    ASSUME NEW f \in Text, NEW t \in Text
    PROVE  \A k \in 1..Len(t) : (f \o t)[Len(f) + k] = t[k]
BY DEF Text

LEMMA TextGrows ==
    ASSUME NEW f, NEW es, IsText(f, es), NEW e \in Made
    PROVE  IsText(f \o LineOf(e), Append(es, e))
<1> DEFINE g == f \o LineOf(e)
           gs == Append(es, e)
           n == Len(es)
<1>1. f \in Text /\ es \in Seq(Made) /\ n \in Nat /\ Len(f) = 3 * n
  BY DEF IsText
<1>2. LineOf(e) \in Text /\ Len(LineOf(e)) = 3
  BY LineFacts
<1>3. /\ gs \in Seq(Made) /\ Len(gs) = n + 1 /\ gs[n + 1] = e /\ \A k \in 1..n : gs[k] = es[k]
  BY <1>1
<1>4. g \in Text /\ Len(g) = 3 * n + 3 /\ \A k \in 1..(3 * n) : g[k] = f[k]
  <2> DEFINE t == LineOf(e)
  <2>1. t \in Text /\ Len(t) = 3
    BY <1>2
  <2> HIDE DEF t
  <2>2. f \o t \in Text /\ Len(f \o t) = Len(f) + Len(t) /\ \A k \in 1..Len(f) : (f \o t)[k] = f[k]
    BY <1>1, <2>1, Grown
  <2> QED BY <1>1, <2>1, <2>2 DEF t
<1>5. g[3 * n + 1] = Head1(e) /\ g[3 * n + 2] = Tail1(e) /\ g[3 * n + 3] = LF
  <2> DEFINE t == LineOf(e)
  <2>1. \A k \in 1..3 : g[Len(f) + k] = t[k]
    <3>1. t \in Text /\ Len(t) = 3
      BY <1>2
    <3> HIDE DEF t
    <3>2. \A k \in 1..Len(t) : (f \o t)[Len(f) + k] = t[k]
      BY <1>1, <3>1, GrownAt
    <3> QED BY <3>1, <3>2 DEF t
  <2> HIDE DEF g
  <2> QED BY <1>1, <2>1 DEF LineOf
<1> HIDE DEF g, gs, n
<1>6. ASSUME NEW k \in 1..(n + 1)
      PROVE  /\ g[3 * k - 2] = Head1(gs[k]) /\ g[3 * k - 1] = Tail1(gs[k]) /\ g[3 * k] = LF
  <2>1. CASE k = n + 1
    <3>1. 3 * k - 2 = 3 * n + 1 /\ 3 * k - 1 = 3 * n + 2 /\ 3 * k = 3 * n + 3
      BY <1>1, <2>1
    <3> QED BY <1>3, <1>5, <2>1, <3>1
  <2>2. CASE k # n + 1
    <3>1. /\ k \in 1..n /\ 3 * k - 2 \in 1..(3 * n) /\ 3 * k - 1 \in 1..(3 * n)
          /\ 3 * k \in 1..(3 * n)
      BY <1>1, <2>2
    <3>2. f[3 * k - 2] = Head1(es[k]) /\ f[3 * k - 1] = Tail1(es[k]) /\ f[3 * k] = LF
      BY <3>1 DEF IsText, n
    <3> QED BY <1>3, <1>4, <3>1, <3>2
  <2> QED BY <2>1, <2>2
<1>7. Len(g) = 3 * Len(gs)
  BY <1>1, <1>3, <1>4
<1> QED BY <1>3, <1>4, <1>6, <1>7 DEF IsText, g, gs

LEMMA TextTail ==
    ASSUME NEW f, NEW es, IsText(f, es), NEW n \in 0..Len(es)
    PROVE  IsText(SubSeq(f, 3 * n + 1, Len(f)), SubSeq(es, n + 1, Len(es)))
<1> DEFINE g == SubSeq(f, 3 * n + 1, Len(f))
           gs == SubSeq(es, n + 1, Len(es))
           m == Len(es) - n
<1>1. f \in Text /\ es \in Seq(Made) /\ Len(es) \in Nat /\ Len(f) = 3 * Len(es)
      /\ n \in Nat /\ m \in Nat /\ 3 * n \in 0..Len(f)
  BY DEF IsText
<1>2. g \in Text /\ Len(g) = 3 * m /\ \A k \in 1..(3 * m) : g[k] = f[3 * n + k]
  <2> DEFINE c == 3 * n
  <2>1. Len(f) - c = 3 * m /\ c \in 0..Len(f)
    BY <1>1
  <2> HIDE DEF c, m
  <2>2. /\ SubSeq(f, c + 1, Len(f)) \in Text /\ Len(SubSeq(f, c + 1, Len(f))) = Len(f) - c
        /\ \A k \in 1..(Len(f) - c) : SubSeq(f, c + 1, Len(f))[k] = f[c + k]
    BY <1>1, <2>1, Split
  <2> QED BY <2>1, <2>2 DEF c
<1>3. gs \in Seq(Made) /\ Len(gs) = m /\ \A k \in 1..m : gs[k] = es[n + k]
  BY <1>1
<1> HIDE DEF g, gs
<1>4. ASSUME NEW k \in 1..m
      PROVE  /\ g[3 * k - 2] = Head1(gs[k]) /\ g[3 * k - 1] = Tail1(gs[k]) /\ g[3 * k] = LF
  <2>1. /\ n + k \in 1..Len(es)
        /\ 3 * k - 2 \in 1..(3 * m) /\ 3 * k - 1 \in 1..(3 * m) /\ 3 * k \in 1..(3 * m)
        /\ 3 * n + (3 * k - 2) = 3 * (n + k) - 2 /\ 3 * n + (3 * k - 1) = 3 * (n + k) - 1
        /\ 3 * n + 3 * k = 3 * (n + k)
    BY <1>1
  <2>2. /\ f[3 * (n + k) - 2] = Head1(es[n + k]) /\ f[3 * (n + k) - 1] = Tail1(es[n + k])
        /\ f[3 * (n + k)] = LF
    BY <2>1 DEF IsText
  <2>3. /\ g[3 * k - 2] = f[3 * n + (3 * k - 2)] /\ g[3 * k - 1] = f[3 * n + (3 * k - 1)]
        /\ g[3 * k] = f[3 * n + 3 * k] /\ gs[k] = es[n + k]
    BY <1>2, <1>3, <2>1
  <2> QED BY <2>1, <2>2, <2>3
<1> QED BY <1>2, <1>3, <1>4 DEF IsText, g, gs


\* The hash that follows the first n entries.
Link(es, n) == IF n = 0 THEN GENESIS ELSE es[n].self_hash

\* Unless something failed, the file is the text of a chain, to which the holder
\* of the flock has added its entry and is writing its line; each instance's
\* counters describe a number of whole lines.
Aligned(es, i) ==
    /\ pc[i] # "closed"
    /\ size[i] = 3 * count[i] /\ count[i] <= Len(es) /\ last[i] = Link(es, count[i])
    /\ flock # i => buf[i] = << >>
    /\ flock = i => /\ IsText(file \o buf[i], es) /\ Len(es) = count[i] + 1
                    /\ entry[i] = es[Len(es)]

Orderly(es) ==
    /\ VerifyText(es)
    /\ flock = None => IsText(file, es)
    /\ \A i \in Instances : Aligned(es, i)

Whole == ~faulted => \E es \in Seq(Made) : Orderly(es)

LEMMA InitWhole == Init => Whole
<1> SUFFICES ASSUME Init PROVE Orderly(<< >>) /\ << >> \in Seq(Made)
  BY DEF Whole
<1>1. << >> \in Text /\ << >> \in Seq(Made) /\ Len(<< >>) = 0
  BY DEF Text
<1>2. IsText(<< >>, << >>) /\ VerifyText(<< >>)
  BY <1>1 DEF IsText, VerifyText
<1> QED BY <1>1, <1>2 DEF Init, Orderly, Aligned, Link

LEMMA StartWhole ==
    ASSUME IInv, NEW es \in Seq(Made), Orderly(es), NEW i \in Instances, Start(i)
    PROVE  Orderly(es)'
<1>1. /\ flock = None
      /\ count' = [count EXCEPT ![i] = Len(Entries(file))]
      /\ last' = [last EXCEPT ![i] = LastHash(Entries(file))]
      /\ size' = [size EXCEPT ![i] = Len(file)]
      /\ UNCHANGED <<file, flock, buf, pc, entry>>
  BY DEF Start
<1>2. Typed
  BY DEF IInv
<1>3. IsText(file, es) /\ Entries(file) = es /\ Len(es) \in Nat
  BY <1>1, TextEntries DEF Orderly
<1>4. Len(file) = 3 * Len(es) /\ LastHash(es) = Link(es, Len(es))
  <2>1. es = << >> <=> Len(es) = 0
    OBVIOUS
  <2> QED BY <1>3, <2>1 DEF IsText, LastHash, Link
<1>5. /\ count'[i] = Len(es) /\ last'[i] = Link(es, Len(es)) /\ size'[i] = 3 * Len(es)
      /\ \A j \in Instances \ {i} : count'[j] = count[j] /\ last'[j] = last[j] /\ size'[j] = size[j]
  BY <1>1, <1>2, <1>3, <1>4 DEF Typed
<1>6. ASSUME NEW j \in Instances PROVE Aligned(es, j)'
  <2>1. flock # j /\ Aligned(es, j)
    BY <1>1 DEF Orderly
  <2>2. Len(es) <= Len(es)
    BY <1>3
  <2>3. CASE j = i
    BY <1>1, <1>5, <2>1, <2>2, <2>3 DEF Aligned
  <2>4. CASE j # i
    BY <1>1, <1>5, <2>1, <2>4 DEF Aligned
  <2> QED BY <2>3, <2>4
<1>7. VerifyText(es)' /\ IsText(file, es)'
  <2>1. VerifyText(es) /\ file' = file
    BY <1>1 DEF Orderly
  <2> QED BY <1>3, <2>1
<1> QED BY <1>6, <1>7 DEF Orderly

\* What append() finds after its count, and the entry it makes of it.
LEMMA NextWhole ==
    ASSUME NEW f, NEW es, IsText(f, es), VerifyText(es), NEW i \in Instances,
           count[i] \in 0..Len(es), size[i] = 3 * count[i], last[i] = Link(es, count[i])
    PROVE  LET rest == SubSeq(f, size[i] + 1, Len(f)) IN
           NextIdx(i, rest) = Len(es) /\ NextPrev(i, rest) = Link(es, Len(es))
<1> DEFINE n == count[i]
           rest == SubSeq(f, size[i] + 1, Len(f))
           new == SubSeq(es, n + 1, Len(es))
<1>1. n \in 0..Len(es) /\ es \in Seq(Made) /\ Len(es) \in Nat /\ rest = SubSeq(f, 3 * n + 1, Len(f))
  BY DEF IsText
<1>2. new \in Seq(Made) /\ Len(new) = Len(es) - n /\ \A k \in 1..(Len(es) - n) : new[k] = es[n + k]
  BY <1>1
<1> HIDE DEF n, rest, new
<1>3. IsText(rest, new)
  BY <1>1, TextTail DEF new
<1>4. Entries(rest) = new /\ Len(Lines(rest)) = Len(new) /\ rest \in Text
  BY <1>3, TextEntries, TextLines, ZenonT(30) DEF IsText
<1>5. NextIdx(i, rest) = Len(es)
  BY <1>1, <1>2, <1>4 DEF NextIdx, n
<1>6. NextPrev(i, rest) = Link(es, Len(es))
  <2>1. Lines(rest) \in Seq(Line)
    BY <1>4, LinesHold
  <2>2. CASE Len(new) = 0
    <3>1. n = Len(es) /\ Len(Lines(rest)) = 0
      BY <1>1, <1>2, <1>4, <2>2
    <3>2. Lines(rest) = << >>
      BY <2>1, <3>1
    <3> QED BY <3>1, <3>2 DEF NextPrev, n
  <2>3. CASE Len(new) # 0
    <3>a. Len(new) \in 1..(Len(es) - n) /\ n + Len(new) = Len(es) /\ Len(es) # 0
      BY <1>1, <1>2, <2>3
    <3>b. Len(Lines(rest)) # 0
      BY <1>4, <2>3
    <3>1. Lines(rest) # << >> /\ new # << >> /\ Len(new) \in 1..(Len(es) - n) /\ n + Len(new) = Len(es)
          /\ Len(es) # 0
      BY <2>3, <3>a, <3>b
    <3>2. new[Len(new)] = es[Len(es)]
      BY <1>2, <3>1
    <3> QED BY <1>4, <3>1, <3>2 DEF NextPrev, LastHash, Link
  <2> QED BY <2>2, <2>3
<1> QED BY <1>5, <1>6 DEF rest

LEMMA BeginWhole ==
    ASSUME IInv, NEW es \in Seq(Made), Orderly(es), NEW i \in Instances, NEW d \in Data, Begin(i, d)
    PROVE  \E more \in Seq(Made) : Orderly(more)'
<1> DEFINE rest == SubSeq(file, size[i] + 1, Len(file))
           e    == NewEntry(NextIdx(i, rest), d, NextPrev(i, rest))
           n    == Len(es)
           more == Append(es, e)
<1>1. /\ pc[i] = "idle" /\ pc' = [pc EXCEPT ![i] = "flush"] /\ flock = None /\ flock' = i
      /\ count' = [count EXCEPT ![i] = e.idx] /\ last' = [last EXCEPT ![i] = e.prev_hash]
      /\ size' = [size EXCEPT ![i] = Len(file)] /\ entry' = [entry EXCEPT ![i] = e]
      /\ buf' = [buf EXCEPT ![i] = @ \o LineOf(e)] /\ UNCHANGED <<file, faulted>>
  BY DEF Begin, Goto
<1>2. Typed
  BY DEF IInv
<1>3. IsText(file, es) /\ VerifyText(es) /\ n \in Nat /\ Len(file) = 3 * n
  BY <1>1 DEF Orderly, IsText
<1>4. count[i] \in 0..n /\ size[i] = 3 * count[i] /\ last[i] = Link(es, count[i]) /\ buf[i] = << >>
  <2>1. count[i] \in Nat /\ flock # i
    BY <1>1, <1>2 DEF Typed
  <2> QED BY <1>3, <2>1 DEF Orderly, Aligned
<1>5. NextIdx(i, rest) = n /\ NextPrev(i, rest) = Link(es, n)
  BY <1>3, <1>4, NextWhole
<1>6. e = NewEntry(n, d, Link(es, n))
  BY <1>5
<1> HIDE DEF rest, e, n, more
<1>7. Link(es, n) \in Digest /\ Len(Link(es, n)) = n
  <2>1. CASE n = 0
    BY <2>1 DEF Link, GENESIS, Digest
  <2>2. CASE n # 0
    <3>1. n \in 1..n /\ es[n] \in Made /\ es[n].idx = n - 1
      BY <1>3, <2>2 DEF VerifyText, n
    <3>2. es[n].self_hash \in Digest /\ Len(es[n].self_hash) = n
      BY <1>3, <3>1, MadeFacts
    <3> QED BY <2>2, <3>2 DEF Link
  <2> QED BY <2>1, <2>2
<1>8. e \in Made /\ e.idx = n /\ e.prev_hash = Link(es, n)
  BY <1>6, <1>7, NewIsMade
<1>9. /\ more \in Seq(Made) /\ Len(more) = n + 1 /\ more[n + 1] = e /\ \A k \in 1..n : more[k] = es[k]
  BY <1>3, <1>8 DEF more, n
<1>10. VerifyText(more)
  <2>1. ASSUME NEW k \in 1..(n + 1)
        PROVE  /\ more[k].idx = k - 1 /\ more[k].prev_hash = PrevOf(more, k)
               /\ more[k].self_hash = HashEntry(more[k].idx, more[k].data, more[k].prev_hash)
    <3>1. CASE k = n + 1
      <4>1. more[k] = e /\ e.idx = k - 1 /\ e.self_hash = HashEntry(e.idx, e.data, e.prev_hash)
        BY <1>3, <1>8, <1>9, <3>1, MadeFacts
      <4>2. PrevOf(more, k) = Link(es, n)
        <5>1. CASE n = 0
          BY <3>1, <5>1 DEF PrevOf, Link
        <5>2. CASE n # 0
          <6>1. k # 1 /\ k - 1 = n /\ n \in 1..n
            BY <1>3, <3>1, <5>2
          <6> QED BY <1>9, <5>2, <6>1 DEF PrevOf, Link
        <5> QED BY <5>1, <5>2
      <4> QED BY <1>8, <4>1, <4>2
    <3>2. CASE k # n + 1
      <4>1. k \in 1..n /\ (k # 1 => k - 1 \in 1..n)
        BY <1>3, <3>2
      <4>2. PrevOf(more, k) = PrevOf(es, k)
        BY <1>9, <4>1 DEF PrevOf
      <4> QED BY <1>3, <1>9, <4>1, <4>2 DEF VerifyText, n
    <3> QED BY <3>1, <3>2
  <2> QED BY <1>9, <2>1 DEF VerifyText
<1>11. IsText(file \o LineOf(e), more)
  BY <1>3, <1>8, TextGrows DEF more
<1>12. /\ pc'[i] = "flush" /\ count'[i] = n /\ last'[i] = Link(es, n) /\ size'[i] = 3 * n
       /\ entry'[i] = e /\ buf'[i] = LineOf(e)
       /\ \A j \in Instances \ {i} :
             /\ pc'[j] = pc[j] /\ count'[j] = count[j] /\ last'[j] = last[j]
             /\ size'[j] = size[j] /\ entry'[j] = entry[j] /\ buf'[j] = buf[j]
  <2>1. << >> \o LineOf(e) = LineOf(e)
    BY <1>8, LineFacts, ConcatEmptySeq DEF Text
  <2> QED BY <1>1, <1>2, <1>3, <1>4, <1>8, <2>1 DEF Typed
<1>13. \A k \in 0..n : Link(more, k) = Link(es, k)
  <2>1. \A k \in 0..n : k # 0 => k \in 1..n
    BY <1>3
  <2> QED BY <1>9, <2>1 DEF Link
<1>14. ASSUME NEW j \in Instances \ {i}
       PROVE  /\ pc'[j] # "closed" /\ size'[j] = 3 * count'[j]
              /\ count'[j] <= n + 1 /\ last'[j] = Link(more, count'[j])
              /\ buf'[j] = << >> /\ flock' # j
  <2>1. count[j] \in Nat /\ flock # j
    BY <1>1, <1>2 DEF Typed
  <2>2. /\ pc[j] # "closed" /\ size[j] = 3 * count[j] /\ count[j] <= n
        /\ last[j] = Link(es, count[j]) /\ buf[j] = << >>
    BY <2>1 DEF Orderly, Aligned, n
  <2> QED BY <1>1, <1>3, <1>12, <1>13, <2>1, <2>2
<1>15. /\ n <= n + 1 /\ n \in 0..n
  BY <1>3
<1>16. PICK ms \in Seq(Made) : ms = more
  BY <1>9
<1>17. VerifyText(ms)' /\ flock' # None
  BY <1>1, <1>10, <1>16
<1>18. ASSUME NEW j \in Instances PROVE Aligned(ms, j)'
  <2>1. CASE j = i
    <3>1. IsText(file' \o buf'[i], ms)
      BY <1>1, <1>11, <1>12, <1>16
    <3>2. Len(ms) = n + 1 /\ ms[Len(ms)] = e /\ Link(ms, n) = Link(es, n)
      BY <1>9, <1>13, <1>15, <1>16
    <3> QED BY <1>1, <1>12, <1>15, <2>1, <3>1, <3>2 DEF Aligned
  <2>2. CASE j # i
    <3>1. Len(ms) = n + 1
      BY <1>9, <1>16
    <3> QED BY <1>14, <1>16, <2>2, <3>1 DEF Aligned
  <2> QED BY <2>1, <2>2
<1>19. Orderly(ms)'
  BY <1>17, <1>18 DEF Orderly
<1> QED BY <1>19


LEMMA FlushSomeWhole ==
    ASSUME IInv, NEW es \in Seq(Made), Orderly(es), NEW i \in Instances,
           NEW n \in 1..Len(buf[i]), FlushSome(i, n)
    PROVE  Orderly(es)'
<1> DEFINE b == buf[i]
           out == SubSeq(b, 1, n)
           kept == SubSeq(b, n + 1, Len(b))
<1>1. /\ pc[i] = "flush" /\ file' = file \o out /\ buf' = [buf EXCEPT ![i] = kept]
      /\ pc'[i] \in Inside /\ \A j \in Instances \ {i} : pc'[j] = pc[j]
      /\ UNCHANGED <<flock, count, last, size, entry>>
  <2>1. Typed
    BY DEF IInv
  <2> QED BY <2>1 DEF FlushSome, WriteOut, Goto, counters, Typed, Inside
<1>2. flock = i
  BY <1>1 DEF IInv, Locking, Inside
<1>3. /\ b \in Text /\ n \in 0..Len(b) /\ file \in Text /\ buf'[i] = kept
      /\ \A j \in Instances \ {i} : buf'[j] = buf[j]
  BY <1>1 DEF IInv, Typed, Text
<1> HIDE DEF b
<1>4. file' \o buf'[i] = file \o b
  <2>1. out \in Text /\ kept \in Text
    BY <1>3, Split
  <2>2. out \o kept = b
    <3>1. b \in Seq(Piece) /\ Len(b) \in Nat
      BY <1>3 DEF Text
    <3>2. /\ out \o kept \in Seq(Piece) /\ Len(out \o kept) = Len(out) + Len(kept)
          /\ \A k \in 1..(Len(out) + Len(kept)) :
                (out \o kept)[k] = IF k <= Len(out) THEN out[k] ELSE kept[k - Len(out)]
      <4> HIDE DEF out, kept
      <4> QED BY <2>1, ConcatProperties DEF Text
    <3>3. Len(out) = n /\ Len(kept) = Len(b) - n
      BY <1>3, Split
    <3>4. \A k \in 1..n : out[k] = b[k]
      BY <1>3, Split
    <3>5. \A k \in 1..(Len(b) - n) : kept[k] = b[n + k]
      BY <1>3, Split
    <3> HIDE DEF out, kept
    <3>6. Len(out \o kept) = Len(b)
      BY <1>3, <3>1, <3>2, <3>3
    <3>7. ASSUME NEW k \in 1..Len(b) PROVE (out \o kept)[k] = b[k]
      <4>1. k \in 1..(Len(out) + Len(kept))
        BY <1>3, <3>1, <3>3
      <4>2. CASE k <= n
        BY <3>2, <3>3, <3>4, <4>1, <4>2
      <4>3. CASE ~(k <= n)
        <5>1. k - n \in 1..(Len(b) - n) /\ n + (k - n) = k
          BY <1>3, <3>1, <4>3
        <5> QED BY <3>2, <3>3, <3>5, <4>1, <4>3, <5>1
      <4> QED BY <4>2, <4>3
    <3> QED BY <3>1, <3>2, <3>6, <3>7, SeqEqual
  <2> HIDE DEF out, kept
  <2>3. (file \o out) \o kept = file \o (out \o kept)
    <3>1. file \in Seq(Piece) /\ out \in Seq(Piece) /\ kept \in Seq(Piece)
      BY <1>3, <2>1 DEF Text
    <3> QED BY ONLY <3>1, ConcatAssociative, SMTT(20)
  <2> QED BY <1>1, <1>3, <2>2, <2>3
<1>5. VerifyText(es)' /\ flock' # None
  <2>1. VerifyText(es)
    BY DEF Orderly
  <2> QED BY <1>1, <1>2, <2>1
<1>6. ASSUME NEW j \in Instances PROVE Aligned(es, j)'
  <2>1. Aligned(es, j)
    BY DEF Orderly
  <2>2. CASE j = i
    <3>1. IsText(file' \o buf'[i], es)
      BY <1>2, <1>4, <2>1, <2>2 DEF Aligned, b
    <3> QED BY <1>1, <1>2, <2>1, <2>2, <3>1 DEF Aligned, Inside
  <2>3. CASE j # i
    BY <1>1, <1>2, <1>3, <2>1, <2>3 DEF Aligned
  <2> QED BY <2>2, <2>3
<1> QED BY <1>5, <1>6 DEF Orderly

LEMMA FsyncWhole ==
    ASSUME IInv, NEW es \in Seq(Made), Orderly(es), NEW i \in Instances, Fsync(i)
    PROVE  Orderly(es)'
<1>1. /\ pc' = [pc EXCEPT ![i] = "return"]
      /\ UNCHANGED <<file, flock, count, last, size, buf, entry>>
  BY DEF Fsync, Goto, counters
<1>2. \A j \in Instances : pc'[j] = pc[j] \/ pc'[j] = "return"
  BY <1>1 DEF IInv, Typed
<1>3. VerifyText(es)' /\ (flock' = None => IsText(file', es))
  <2>1. VerifyText(es) /\ (flock = None => IsText(file, es))
    BY DEF Orderly
  <2> QED BY <1>1, <2>1
<1>4. ASSUME NEW j \in Instances PROVE Aligned(es, j)'
  <2>1. Aligned(es, j)
    BY DEF Orderly
  <2> QED BY <1>1, <1>2, <2>1 DEF Aligned
<1> QED BY <1>3, <1>4 DEF Orderly

LEMMA ReturnWhole ==
    ASSUME IInv, NEW es \in Seq(Made), Orderly(es), NEW i \in Instances, Return(i)
    PROVE  Orderly(es)'
<1>1. /\ pc[i] = "return" /\ pc' = [pc EXCEPT ![i] = "idle"] /\ flock' = None
      /\ count' = [count EXCEPT ![i] = @ + 1]
      /\ last' = [last EXCEPT ![i] = entry[i].self_hash]
      /\ size' = [size EXCEPT ![i] = @ + 3]
      /\ entry' = [entry EXCEPT ![i] = None]
      /\ UNCHANGED <<file, buf>>
  <2>1. Len(LineOf(entry[i])) = 3
    BY DEF LineOf
  <2> QED BY <2>1 DEF Return, Goto
<1>2. flock = i /\ buf[i] = << >> /\ file \in Text /\ count[i] \in Nat
  BY <1>1 DEF IInv, Locking, Counting, Inside, Typed
<1>3. Aligned(es, i) /\ VerifyText(es) /\ Len(es) \in Nat
  BY DEF Orderly
<1>4. IsText(file, es) /\ Len(es) = count[i] + 1 /\ entry[i] = es[Len(es)] /\ size[i] = 3 * count[i]
  <2>1. file \o << >> = file
    BY <1>2, ConcatEmptySeq DEF Text
  <2> QED BY <1>2, <1>3, <2>1 DEF Aligned
<1>5. /\ pc'[i] = "idle" /\ count'[i] = Len(es) /\ last'[i] = Link(es, Len(es))
      /\ size'[i] = 3 * Len(es)
      /\ \A j \in Instances \ {i} :
            /\ pc'[j] = pc[j] /\ count'[j] = count[j] /\ last'[j] = last[j]
            /\ size'[j] = size[j] /\ entry'[j] = entry[j]
  <2>1. /\ pc'[i] = "idle" /\ count'[i] = count[i] + 1 /\ last'[i] = entry[i].self_hash
        /\ size'[i] = size[i] + 3
        /\ \A j \in Instances \ {i} :
            /\ pc'[j] = pc[j] /\ count'[j] = count[j] /\ last'[j] = last[j]
            /\ size'[j] = size[j] /\ entry'[j] = entry[j]
    BY <1>1 DEF IInv, Typed
  <2>2. Len(es) # 0 /\ 3 * Len(es) = 3 * count[i] + 3
    BY <1>2, <1>4
  <2>3. Link(es, Len(es)) = entry[i].self_hash
    BY <1>4, <2>2 DEF Link
  <2>4. size'[i] = 3 * Len(es) /\ count'[i] = Len(es)
    BY <1>4, <2>1, <2>2
  <2> QED BY <2>1, <2>3, <2>4
<1>6. \A j \in Instances : flock' # j
  BY <1>1
<1>7. VerifyText(es)' /\ IsText(file', es)
  BY <1>1, <1>3, <1>4
<1>8. ASSUME NEW j \in Instances PROVE Aligned(es, j)'
  <2>1. Aligned(es, j)
    BY DEF Orderly
  <2>2. CASE j = i
    <3>1. /\ pc'[i] # "closed" /\ size'[i] = 3 * count'[i] /\ last'[i] = Link(es, count'[i])
          /\ count'[i] <= Len(es) /\ flock' # i /\ buf'[i] = << >>
      <4>1. Len(es) \in Nat
        BY <1>3
      <4>2. count'[i] = Len(es) /\ size'[i] = 3 * Len(es)
        BY <1>5
      <4>3. pc'[i] # "closed" /\ last'[i] = Link(es, count'[i]) /\ flock' # i /\ buf'[i] = << >>
        BY <1>1, <1>2, <1>5, <1>6
      <4> QED BY <4>1, <4>2, <4>3
    <3> QED BY <2>2, <3>1 DEF Aligned
  <2>3. CASE j # i
    BY <1>1, <1>2, <1>5, <1>6, <2>1, <2>3 DEF Aligned
  <2> QED BY <2>2, <2>3
<1> QED BY <1>7, <1>8 DEF Orderly

\* An fsync that fails leaves the whole line on the file.
LEMMA FsyncFailsWhole ==
    ASSUME IInv, NEW es \in Seq(Made), Orderly(es), NEW i \in Instances, FsyncFails(i)
    PROVE  Orderly(es)'
<1>1. /\ pc[i] = "fsync" /\ flock' = None
      /\ UNCHANGED <<file, buf, count, last, size>>
      /\ \A j \in Instances : pc'[j] = pc[j] \/ pc'[j] \in {"idle", "close"}
  <2>1. pc \in [Instances -> Inside \cup {"idle", "close", "closed"}]
    BY DEF IInv, Typed
  <2> QED BY <2>1 DEF FsyncFails, Goto, counters
<1>2. flock = i /\ buf[i] = << >> /\ file \in Text /\ count[i] \in Nat
  BY <1>1 DEF IInv, Locking, Counting, Inside, Typed
<1>3. Aligned(es, i) /\ VerifyText(es) /\ Len(es) \in Nat
  BY DEF Orderly
<1>4. IsText(file, es)
  <2>1. file \o << >> = file
    BY <1>2, ConcatEmptySeq DEF Text
  <2> QED BY <1>2, <1>3, <2>1 DEF Aligned
<1>5. \A j \in Instances : flock' # j
  BY <1>1
<1>6. VerifyText(es)' /\ IsText(file', es)
  BY <1>1, <1>3, <1>4
<1>7. ASSUME NEW j \in Instances PROVE Aligned(es, j)'
  <2>1. Aligned(es, j) /\ (j = i => buf[j] = << >>) /\ (j # i => flock # j)
    BY <1>2 DEF Orderly
  <2>2. pc'[j] # "closed"
    BY <1>1, <2>1 DEF Aligned
  <2> QED BY <1>1, <1>5, <2>1, <2>2 DEF Aligned
<1> QED BY <1>6, <1>7 DEF Orderly

\* A file object that no flush failed for keeps nothing.
LEMMA CloseWhole ==
    ASSUME IInv, NEW es \in Seq(Made), Orderly(es), NEW i \in Instances,
           NEW n \in 0..Len(buf[i]), CloseSync(i, n) \/ CloseBatch(i, n)
    PROVE  Orderly(es)'
<1>1. flock # i
  BY DEF CloseSync, CloseBatch, Goto, IInv, Locking, Inside
<1>2. Aligned(es, i) /\ buf[i] = << >>
  BY <1>1 DEF Orderly, Aligned
<1>3. n = 0 /\ ~(n < Len(buf[i])) /\ SubSeq(buf[i], 1, n) = << >>
  BY <1>2
<1>4. /\ UNCHANGED <<flock, count, last, size, entry>> /\ file' = file \o << >> /\ buf' = buf
      /\ pc' = [pc EXCEPT ![i] = "idle"]
  <2>1. /\ pc' = [pc EXCEPT ![i] = IF n < Len(buf[i]) THEN "closed" ELSE "idle"]
           \/ pc' = [pc EXCEPT ![i] = "idle"]
        /\ file' = file \o SubSeq(buf[i], 1, n) /\ buf' = [buf EXCEPT ![i] = << >>]
        /\ UNCHANGED <<flock, count, last, size, entry>>
    BY DEF CloseSync, CloseBatch, CloseFile, Goto, counters
  <2>2. buf \in [Instances -> Text]
    BY DEF IInv, Typed
  <2>3. buf' = buf
    BY <1>2, <2>1, <2>2
  <2> QED BY <1>3, <2>1, <2>3
<1>5. file' = file
  <2>1. file \in Seq(Piece)
    BY DEF IInv, Typed, Text
  <2> QED BY <1>4, <2>1, ConcatEmptySeq
<1>6. \A j \in Instances : pc'[j] = "idle" \/ pc'[j] = pc[j]
  BY <1>4 DEF IInv, Typed
<1>7. VerifyText(es)' /\ (flock' = None => IsText(file', es))
  <2>1. VerifyText(es) /\ (flock = None => IsText(file, es))
    BY DEF Orderly
  <2> QED BY <1>4, <1>5, <2>1
<1>8. ASSUME NEW j \in Instances PROVE Aligned(es, j)'
  <2>1. Aligned(es, j)
    BY DEF Orderly
  <2> QED BY <1>4, <1>5, <1>6, <2>1 DEF Aligned
<1> QED BY <1>7, <1>8 DEF Orderly

\* Two writes and a newline are one line for whoever holds the flock.
LEMMA NextWholeKeeps == IInv /\ Whole /\ [Next]_vars => Whole'
<1> SUFFICES ASSUME IInv, Whole, [Next]_vars, ~faulted'
             PROVE  \E es \in Seq(Made) : Orderly(es)'
  BY DEF Whole
<1>1. CASE faulted
  BY <1>1, ZenonT(30) DEF Next, Start, Begin, FlushSome, Fsync, FsyncFails, Return, FlushFails, Flush,
              CloseSync, CloseBatch, CloseAgain, Kill, PowerLoss, Stop, vars
<1>2. CASE ~faulted
  <2>1. PICK es \in Seq(Made) : Orderly(es)
    BY <1>2 DEF Whole
  <2>2. ASSUME NEW i \in Instances, Start(i) PROVE Orderly(es)'
    BY <2>1, <2>2, StartWhole
  <2>3. ASSUME NEW i \in Instances, NEW d \in Data, Begin(i, d)
        PROVE  \E more \in Seq(Made) : Orderly(more)'
    BY <2>1, <2>3, BeginWhole
  <2>4. ASSUME NEW i \in Instances, NEW n \in 1..Len(buf[i]), FlushSome(i, n) PROVE Orderly(es)'
    BY <2>1, <2>4, FlushSomeWhole
  <2>5. ASSUME NEW i \in Instances, Fsync(i) \/ FsyncFails(i) \/ Return(i) PROVE Orderly(es)'
    BY <2>1, <2>5, FsyncWhole, FsyncFailsWhole, ReturnWhole
  <2>6. ASSUME NEW i \in Instances, FlushFails(i) PROVE FALSE
    BY <2>6 DEF FlushFails
  <2>7. ASSUME NEW i \in Instances, Flush(i) PROVE Orderly(es)'
    BY <2>1, <2>7 DEF Flush, counters, Orderly, Aligned
  <2>8. ASSUME NEW i \in Instances, NEW n \in 0..Len(buf[i]), CloseSync(i, n) \/ CloseBatch(i, n)
        PROVE  Orderly(es)'
    BY <2>1, <2>8, CloseWhole
  <2>9. ASSUME NEW i \in Instances, CloseAgain(i) PROVE FALSE
    BY <2>1, <2>9 DEF CloseAgain, Goto, Orderly, Aligned
  <2>10. ASSUME NEW i \in Instances, Kill(i) PROVE FALSE
    BY <2>10 DEF Kill, Stop
  <2>11. CASE PowerLoss
    BY <2>11 DEF PowerLoss, Stop
  <2>12. CASE UNCHANGED vars
    BY <2>1, <2>12 DEF vars, Orderly, Aligned
  <2> QED BY <2>1, <2>2, <2>3, <2>4, <2>5, <2>6, <2>7, <2>8, <2>9, <2>10, <2>11, <2>12 DEF Next
<1> QED BY <1>1, <1>2

\* While nothing failed, whoever takes the flock finds whole lines that make a
\* chain which verifies, though a line takes several writes (ledger.py:336-375).
THEOREM IOSnapshots == Spec => []SnapshotsAreWhole
<1>1. IInv /\ Whole => SnapshotsAreWhole
  <2> SUFFICES ASSUME Whole, ~faulted, flock = None PROVE Verifies(file)
    BY DEF SnapshotsAreWhole
  <2>1. PICK es \in Seq(Made) : VerifyText(es) /\ IsText(file, es)
    BY DEF Whole, Orderly
  <2> QED BY <2>1, TextEntries DEF Verifies
<1>2. Spec => [](IInv /\ Whole)
  BY InitKeeps, InitWhole, NextKeeps, NextWholeKeeps, PTL DEF Spec
<1> QED BY <1>1, <1>2, PTL

=============================================================================
