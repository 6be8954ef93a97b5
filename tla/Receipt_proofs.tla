--------------------------- MODULE Receipt_proofs ---------------------------
(* Theorems about Receipt, for texts, buffers and pipes of any size. *)
EXTENDS Receipt, SequenceTheorems, TLAPS

USE ReceiptAssumption

-----------------------------------------------------------------------------
(* Sequences: the first n pieces and the rest *)

\* Taking the first n pieces of a sequence and dropping them, index by index.
LEMMA FirstRest ==
    ASSUME NEW s \in Seq(Piece), NEW n \in 0..Len(s)
    PROVE  /\ First(s, n) \in Seq(Piece) /\ Len(First(s, n)) = n
           /\ Rest(s, n) \in Seq(Piece) /\ Len(Rest(s, n)) = Len(s) - n
           /\ \A j \in 1..n : First(s, n)[j] = s[j]
           /\ \A j \in 1..(Len(s) - n) : Rest(s, n)[j] = s[n + j]
  <1>1. Len(s) \in Nat /\ n \in Nat /\ n <= Len(s)
    BY LenProperties
  <1>2. First(s, n) \in Seq(Piece) /\ Len(First(s, n)) = n /\ \A j \in 1..n : First(s, n)[j] = s[j]
    <2>1. CASE n = 0
      BY <1>1, <2>1, SMT DEF First
    <2>2. CASE n # 0
      BY <1>1, <2>2, SMT DEF First
    <2> QED BY <2>1, <2>2
  <1>3. Rest(s, n) \in Seq(Piece) /\ Len(Rest(s, n)) = Len(s) - n
        /\ \A j \in 1..(Len(s) - n) : Rest(s, n)[j] = s[n + j]
    BY <1>1, SMT DEF Rest
  <1> QED BY <1>2, <1>3

\* Concatenation, index by index.
LEMMA Cat ==
    ASSUME NEW s \in Seq(Piece), NEW t \in Seq(Piece)
    PROVE  /\ s \o t \in Seq(Piece) /\ Len(s \o t) = Len(s) + Len(t)
           /\ \A j \in 1..Len(s) : (s \o t)[j] = s[j]
           /\ \A j \in 1..Len(t) : (s \o t)[Len(s) + j] = t[j]
  BY ConcatProperties, LenProperties, SMT

\* The two parts make the whole.
LEMMA Join ==
    ASSUME NEW s \in Seq(Piece), NEW n \in 0..Len(s)
    PROVE  First(s, n) \o Rest(s, n) = s
  <1>0. Len(s) \in Nat /\ n \in Nat /\ n <= Len(s)
    BY LenProperties
  <1> DEFINE f == First(s, n)
             r == Rest(s, n)
             l == f \o r
  <1>1. /\ f \in Seq(Piece) /\ Len(f) = n /\ r \in Seq(Piece) /\ Len(r) = Len(s) - n
        /\ \A j \in 1..n : f[j] = s[j]
        /\ \A j \in 1..(Len(s) - n) : r[j] = s[n + j]
    BY FirstRest
  <1> HIDE DEF f, r
  <1>2. l \in Seq(Piece) /\ Len(l) = Len(s)
    BY <1>0, <1>1, SMT
  <1>3. ASSUME NEW j \in 1..Len(s) PROVE l[j] = s[j]
    <2>1. CASE j <= n
      BY <1>0, <1>1, <2>1, SMT
    <2>2. CASE j > n
      <3>1. j - n \in 1..Len(r) /\ j = Len(f) + (j - n)
        BY <1>0, <1>1, <2>2
      <3>2. l[Len(f) + (j - n)] = r[j - n]
        BY <1>1, <3>1, Cat
      <3>3. r[j - n] = s[n + (j - n)]
        BY <1>1, <3>1
      <3>4. n + (j - n) = j
        BY <1>0
      <3> QED BY <3>1, <3>2, <3>3, <3>4
    <2>3. j <= n \/ j > n
      BY <1>0
    <2> QED BY <2>1, <2>2, <2>3
  <1>4. l = s
    BY <1>2, <1>3, SeqEqual
  <1> QED BY <1>4 DEF f, r

\* Pieces that go from the front of a buffer to the end of the sink stay where
\* they are in the whole.
LEMMA Move ==
    ASSUME NEW s \in Seq(Piece), NEW b \in Seq(Piece), NEW n \in 0..Len(b)
    PROVE  (s \o First(b, n)) \o Rest(b, n) = s \o b
  <1> DEFINE f == First(b, n)
             r == Rest(b, n)
  <1>1. f \in Seq(Piece) /\ r \in Seq(Piece)
    BY FirstRest
  <1>2. f \o r = b
    BY Join
  <1> HIDE DEF f, r
  <1>3. (s \o f) \o r = s \o (f \o r)
    BY <1>1, ConcatAssociative, SMTT(20)
  <1> QED BY <1>2, <1>3 DEF f, r

-----------------------------------------------------------------------------
(* Tails of the receipt *)

\* The receipt is a sequence of pieces; its whole and its end are tails.
LEMMA ReceiptSeq ==
    /\ ReceiptText \in Seq(Piece) /\ Len(ReceiptText) = Length
    /\ \A j \in 1..Length : ReceiptText[j] = <<"receipt", j>>
    /\ CallerText \in Seq(Piece) /\ AllFromCaller(CallerText)
  <1>1. ReceiptText \in [1..Length -> Piece] /\ CallerText \in [1..Held -> Piece]
    BY DEF ReceiptText, CallerText, Piece
  <1>2. ReceiptText \in Seq(Piece) /\ Len(ReceiptText) = Length
    BY <1>1, SMT DEF ReceiptText
  <1>3. CallerText \in Seq(Piece) /\ Len(CallerText) = Held
    BY <1>1, SMT DEF CallerText
  <1>4. \A j \in 1..Length : ReceiptText[j] = <<"receipt", j>>
    BY DEF ReceiptText
  <1>5. AllFromCaller(CallerText)
    BY <1>3 DEF AllFromCaller, CallerText
  <1> QED BY <1>2, <1>3, <1>4, <1>5

\* A tail, read by index.
LEMMA TailAt ==
    ASSUME NEW s \in Seq(Piece), IsTail(s)
    PROVE  \A j \in 1..Len(s) : s[j] = ReceiptText[Length - Len(s) + j]
  <1>1. Len(s) \in Nat /\ Length - Len(s) \in 0..Length /\ s = Rest(ReceiptText, Length - Len(s))
    BY LenProperties DEF IsTail
  <1>2. \A j \in 1..(Length - (Length - Len(s))) :
            Rest(ReceiptText, Length - Len(s))[j] = ReceiptText[(Length - Len(s)) + j]
    BY <1>1, ReceiptSeq, FirstRest
  <1>3. Length - (Length - Len(s)) = Len(s)
    BY <1>1
  <1> QED BY <1>1, <1>2, <1>3

\* What reads like a tail is one.
LEMMA TailFrom ==
    ASSUME NEW s \in Seq(Piece), Len(s) <= Length,
           \A j \in 1..Len(s) : s[j] = ReceiptText[Length - Len(s) + j]
    PROVE  IsTail(s)
  <1> DEFINE r == Rest(ReceiptText, Length - Len(s))
  <1>1. Len(s) \in Nat /\ Length - Len(s) \in 0..Length
    BY LenProperties
  <1>2. /\ r \in Seq(Piece) /\ Len(r) = Length - (Length - Len(s))
        /\ \A j \in 1..(Length - (Length - Len(s))) : r[j] = ReceiptText[(Length - Len(s)) + j]
    BY <1>1, ReceiptSeq, FirstRest
  <1>3. Length - (Length - Len(s)) = Len(s)
    BY <1>1
  <1> HIDE DEF r
  <1>4. s = r
    BY <1>2, <1>3, SeqEqual
  <1> QED BY <1>4 DEF IsTail, r

\* What is left of a tail is a tail.
LEMMA TailRest ==
    ASSUME NEW s \in Seq(Piece), IsTail(s), NEW n \in 0..Len(s)
    PROVE  IsTail(Rest(s, n))
  <1> DEFINE r == Rest(s, n)
  <1>1. /\ r \in Seq(Piece) /\ Len(r) = Len(s) - n
        /\ \A j \in 1..(Len(s) - n) : r[j] = s[n + j]
    BY FirstRest
  <1>2. Len(s) \in Nat /\ Len(s) <= Length /\ n \in Nat /\ n <= Len(s)
    BY LenProperties DEF IsTail
  <1> HIDE DEF r
  <1>3. \A j \in 1..Len(s) : s[j] = ReceiptText[Length - Len(s) + j]
    BY TailAt
  <1>4. ASSUME NEW j \in 1..Len(r) PROVE r[j] = ReceiptText[Length - Len(r) + j]
    <2>1. n + j \in 1..Len(s) /\ j \in 1..(Len(s) - n) /\ Length - Len(s) + (n + j) = Length - Len(r) + j
      BY <1>1, <1>2
    <2> QED BY <1>1, <1>3, <2>1
  <1>5. Len(r) <= Length
    BY <1>1, <1>2
  <1>6. IsTail(r)
    BY <1>1, <1>4, <1>5, TailFrom
  <1> QED BY <1>6 DEF r

\* There is one tail of each length.
LEMMA TailUnique ==
    ASSUME NEW s \in Seq(Piece), IsTail(s), NEW t \in Seq(Piece), IsTail(t), Len(s) = Len(t)
    PROVE  s = t
  BY DEF IsTail

\* However much of a call was taken, what is left of `data` by the count the
\* call reports is what the call has not taken: nothing is sent twice.
LEMMA CountIsRight ==
    ASSUME NEW d \in Seq(Piece), IsTail(d), NEW left \in Seq(Piece), IsTail(left), Len(left) <= Len(d)
    PROVE  Rest(d, Len(d) - Len(left)) = left
  <1>1. Len(d) \in Nat /\ Len(left) \in Nat /\ Len(d) - Len(left) \in 0..Len(d)
    BY LenProperties
  <1>2. /\ Rest(d, Len(d) - Len(left)) \in Seq(Piece) /\ IsTail(Rest(d, Len(d) - Len(left)))
        /\ Len(Rest(d, Len(d) - Len(left))) = Len(d) - (Len(d) - Len(left))
    BY <1>1, FirstRest, TailRest
  <1>3. Len(d) - (Len(d) - Len(left)) = Len(left)
    BY <1>1
  <1> QED BY <1>2, <1>3, TailUnique

\* The empty sequence is a tail, and the only one of length 0.
LEMMA EmptyTail == << >> \in Seq(Piece) /\ Len(<< >>) = 0 /\ IsTail(<< >>)
  <1>1. << >> \in Seq(Piece) /\ Len(<< >>) = 0
    BY EmptySeq
  <1>2. \A j \in 1..Len(<< >>) : << >>[j] = ReceiptText[Length - Len(<< >>) + j]
    BY <1>1
  <1>3. Len(<< >>) <= Length
    BY <1>1
  <1> QED BY <1>1, <1>2, <1>3, TailFrom

\* A call that is taken whole leaves nothing of `data`.
LEMMA AllTaken ==
    ASSUME NEW d \in Seq(Piece), IsTail(d)
    PROVE  Rest(d, Len(d) - Len(<< >>)) = << >>
  <1> DEFINE e == << >>
  <1>1. e \in Seq(Piece) /\ Len(e) = 0 /\ IsTail(e)
    BY EmptyTail
  <1>2. Len(d) \in Nat
    BY LenProperties
  <1> HIDE DEF e
  <1>3. Len(e) <= Len(d)
    BY <1>1, <1>2
  <1>4. Rest(d, Len(d) - Len(e)) = e
    BY <1>1, <1>3, CountIsRight
  <1> QED BY <1>4 DEF e

\* Sending the front of the tail that comes next keeps the pieces in order.
LEMMA Extend ==
    ASSUME NEW g \in Seq(Piece), NEW k \in 0..Len(g), InOrder(g, k),
           NEW a \in Seq(Piece), IsTail(a), Len(g) - k + Len(a) = Length,
           NEW n \in 0..Len(a)
    PROVE  /\ g \o First(a, n) \in Seq(Piece)
           /\ Len(g \o First(a, n)) = Len(g) + n
           /\ InOrder(g \o First(a, n), k)
  <1> DEFINE f == First(a, n)
             h == g \o f
  <1>0. Len(g) \in Nat /\ k \in Nat /\ k <= Len(g) /\ Len(a) \in Nat /\ n \in Nat /\ n <= Len(a)
    BY LenProperties
  <1>1. f \in Seq(Piece) /\ Len(f) = n /\ \A j \in 1..n : f[j] = a[j]
    BY FirstRest
  <1> HIDE DEF f
  <1>2. /\ h \in Seq(Piece) /\ Len(h) = Len(g) + n
        /\ \A j \in 1..Len(g) : h[j] = g[j]
        /\ \A j \in 1..n : h[Len(g) + j] = f[j]
    BY <1>1, Cat
  <1> HIDE DEF h
  <1>3. ASSUME NEW j \in 1..k PROVE h[j][1] = "caller"
    <2>1. j \in 1..Len(g)
      BY <1>0
    <2>2. h[j] = g[j]
      BY <1>2, <2>1
    <2>3. g[j][1] = "caller"
      BY DEF InOrder
    <2> QED BY <2>2, <2>3
  <1>4. ASSUME NEW j \in (k + 1)..Len(h) PROVE h[j] = ReceiptText[j - k]
    <2>1. CASE j <= Len(g)
      BY <1>0, <1>2, <2>1 DEF InOrder
    <2>2. CASE j > Len(g)
      <3> DEFINE i == j - Len(g)
      <3>1. i \in 1..n /\ i \in 1..Len(a) /\ j = Len(g) + i /\ Length - Len(a) + i = j - k
        <4>1. j \in Int /\ j >= k + 1 /\ j <= Len(g) + n
          BY <1>0, <1>2
        <4> QED BY <1>0, <2>2, <4>1
      <3>2. a[i] = ReceiptText[Length - Len(a) + i]
        BY <3>1, TailAt
      <3> HIDE DEF i
      <3>3. h[j] = f[i] /\ f[i] = a[i]
        BY <1>1, <1>2, <3>1
      <3> QED BY <3>1, <3>2, <3>3
    <2> QED BY <1>0, <1>2, <2>1, <2>2
  <1>5. Len(h) - k <= Length
    BY <1>0, <1>2
  <1>6. InOrder(h, k)
    BY <1>3, <1>4, <1>5 DEF InOrder
  <1> QED BY <1>2, <1>6 DEF h, f

\* Text that is all the caller's is in order before the receipt is begun.
LEMMA CallerInOrder ==
    ASSUME NEW g \in Seq(Piece), AllFromCaller(g)
    PROVE  Len(g) \in 0..Len(g) /\ InOrder(g, Len(g))
  <1>1. Len(g) \in Nat
    BY LenProperties
  <1> QED BY <1>1 DEF InOrder, AllFromCaller

\* Text of the caller's, cut or put together, is the caller's.
LEMMA CallerParts ==
    ASSUME NEW s \in Seq(Piece), AllFromCaller(s), NEW t \in Seq(Piece), AllFromCaller(t),
           NEW n \in 0..Len(t)
    PROVE  AllFromCaller(s \o t) /\ AllFromCaller(First(t, n)) /\ AllFromCaller(Rest(t, n))
  <1>0. Len(s) \in Nat /\ Len(t) \in Nat /\ n \in Nat /\ n <= Len(t)
    BY LenProperties
  <1>1. ASSUME NEW j \in 1..Len(s \o t) PROVE (s \o t)[j][1] = "caller"
    <2>0. Len(s \o t) = Len(s) + Len(t)
      BY Cat
    <2>1. CASE j <= Len(s)
      <3>1. j \in 1..Len(s)
        BY <1>0, <2>0, <2>1
      <3>2. (s \o t)[j] = s[j]
        BY <3>1, Cat
      <3> QED BY <3>1, <3>2 DEF AllFromCaller
    <2>2. CASE ~(j <= Len(s))
      <3> DEFINE i == j - Len(s)
      <3>1. i \in 1..Len(t) /\ j = Len(s) + i
        BY <1>0, <2>0, <2>2
      <3> HIDE DEF i
      <3>2. (s \o t)[Len(s) + i] = t[i]
        BY <3>1, Cat
      <3> QED BY <3>1, <3>2 DEF AllFromCaller
    <2> QED BY <2>1, <2>2
  <1>2. AllFromCaller(First(t, n))
    <2>1. Len(First(t, n)) = n /\ \A j \in 1..n : First(t, n)[j] = t[j]
      BY FirstRest
    <2>2. \A j \in 1..n : j \in 1..Len(t)
      BY <1>0
    <2> QED BY <2>1, <2>2 DEF AllFromCaller
  <1>3. AllFromCaller(Rest(t, n))
    <2>1. Len(Rest(t, n)) = Len(t) - n /\ \A j \in 1..(Len(t) - n) : Rest(t, n)[j] = t[n + j]
      BY FirstRest
    <2>2. \A j \in 1..(Len(t) - n) : n + j \in 1..Len(t)
      BY <1>0
    <2>3. ASSUME NEW j \in 1..Len(Rest(t, n)) PROVE Rest(t, n)[j][1] = "caller"
      <3>1. j \in 1..(Len(t) - n) /\ n + j \in 1..Len(t)
        BY <2>1, <2>2
      <3>2. Rest(t, n)[j] = t[n + j]
        BY <2>1, <3>1
      <3> QED BY <3>1, <3>2 DEF AllFromCaller
    <2> QED BY <2>3 DEF AllFromCaller
  <1> QED BY <1>1, <1>2, <1>3 DEF AllFromCaller

-----------------------------------------------------------------------------
(* What the phases keep, whatever the action *)

\* The lengths are numbers, and what is given is a sequence of pieces.
LEMMA Lengths ==
    ASSUME TypeOK
    PROVE  /\ Len(sink) \in Nat /\ Len(buffer) \in Nat /\ Len(arg) \in Nat /\ Len(data) \in Nat
           /\ Given \in Seq(Piece) /\ Len(Given) \in Nat /\ Len(Given) = Len(sink) + Len(buffer)
           /\ room \in Nat
  <1>1. sink \in Seq(Piece) /\ buffer \in Seq(Piece) /\ arg \in Seq(Piece) /\ data \in Seq(Piece)
    BY DEF TypeOK
  <1>2. Given \in Seq(Piece) /\ Len(Given) = Len(sink) + Len(buffer)
    BY <1>1, Cat DEF Given
  <1>3. room \in Nat
    BY DEF TypeOK
  <1> QED BY <1>1, <1>2, <1>3, LenProperties

\* Before the receipt is begun, all that is given is the caller's.
LEMMA GivenIsCallers ==
    ASSUME IInv, pc \in TextPCs
    PROVE  AllFromCaller(Given)
  <1>1. PICK k \in 0..Len(Given) : InOrder(Given, k) /\ k = Len(Given)
    BY DEF IInv, Conserved
  <1> QED BY <1>1 DEF InOrder, AllFromCaller

\* A step of the text layer: more of the caller's text is given, or lost.
LEMMA TextStep ==
    ASSUME IInv, pc \in TextPCs, pc' \in TextPCs, out' = out, ~out.raw,
           NEW n \in 0..Len(arg), Given' = Given \o First(arg, n),
           arg' = Rest(arg, n) \/ arg' = << >>, data' = data
    PROVE  arg' \in Seq(Piece) /\ data' \in Seq(Piece) /\ TextPhase' /\ WritePhase' /\ Conserved'
  <1>1. /\ arg \in Seq(Piece) /\ data \in Seq(Piece) /\ Given \in Seq(Piece)
        /\ AllFromCaller(Given) /\ AllFromCaller(arg) /\ data = ReceiptText
    BY Lengths, GivenIsCallers DEF IInv, TypeOK, TextPhase
  <1>2. First(arg, n) \in Seq(Piece) /\ Rest(arg, n) \in Seq(Piece)
    BY <1>1, FirstRest
  <1>3. AllFromCaller(First(arg, n)) /\ AllFromCaller(Rest(arg, n))
    BY <1>1, CallerParts
  <1>4. << >> \in Seq(Piece) /\ AllFromCaller(<< >>)
    BY EmptyTail DEF AllFromCaller
  <1>5. arg' \in Seq(Piece) /\ AllFromCaller(arg')
    BY <1>2, <1>3, <1>4
  <1>6. 0 \in 0..Len(First(arg, n))
    BY <1>2, LenProperties
  <1>7. Given' \in Seq(Piece) /\ AllFromCaller(Given')
    BY <1>1, <1>2, <1>3, <1>6, Cat, CallerParts
  <1>8. pc' \notin WritePCs /\ pc' \notin {"flush", "wait_flush", "exit", "done"}
    BY DEF TextPCs, WritePCs
  <1>9. Conserved'
    <2>1. Len(Given') \in 0..Len(Given') /\ InOrder(Given', Len(Given'))
      BY <1>7, CallerInOrder
    <2>2. InOrder(Given, Len(Given))'
      BY <2>1 DEF InOrder, ReceiptText
    <2> QED BY <1>8, <2>1, <2>2 DEF Conserved
  <1> QED BY <1>1, <1>5, <1>8, <1>9 DEF TextPhase, WritePhase, AllFromCaller, ReceiptText

\* A step of the loop: the next pieces of the receipt are given, and `data` and
\* the call in progress go on from where they end.
LEMMA WriteStep ==
    ASSUME IInv, pc \in WritePCs, pc' \in WritePCs,
           NEW n \in 0..Len(arg), Given' = Given \o First(arg, n),
           arg' = Rest(arg, n), data' = data \/ data' = Rest(arg, n),
           pc' = "wait_write" => arg' = data'
    PROVE  /\ arg' \in Seq(Piece) /\ data' \in Seq(Piece) /\ Len(arg') <= Len(data')
           /\ TextPhase' /\ WritePhase' /\ Conserved'
  <1>1. /\ arg \in Seq(Piece) /\ data \in Seq(Piece) /\ Given \in Seq(Piece)
        /\ IsTail(data) /\ IsTail(arg) /\ Len(arg) <= Len(data)
    BY Lengths DEF IInv, TypeOK, WritePhase, WritePCs
  <1>2. Len(arg) \in Nat /\ Len(data) \in Nat /\ n \in Nat /\ n <= Len(arg)
    BY <1>1, LenProperties
  <1>3. Rest(arg, n) \in Seq(Piece) /\ Len(Rest(arg, n)) = Len(arg) - n /\ IsTail(Rest(arg, n))
    BY <1>1, FirstRest, TailRest
  <1>4. /\ arg' \in Seq(Piece) /\ Len(arg') = Len(arg) - n /\ IsTail(arg')
        /\ data' \in Seq(Piece) /\ IsTail(data')
    BY <1>1, <1>3
  <1>5. Len(arg') <= Len(data')
    <2>1. CASE data' = data
      BY <1>1, <1>2, <1>4, <2>1
    <2>2. CASE data' = Rest(arg, n)
      BY <1>2, <1>3, <1>4, <2>2
    <2> QED BY <2>1, <2>2
  <1>6. PICK k \in 0..Len(Given) : InOrder(Given, k) /\ Len(Given) - k + Len(arg) = Length
    BY DEF IInv, Conserved
  <1>7. /\ Given' \in Seq(Piece) /\ Len(Given') = Len(Given) + n /\ InOrder(Given', k)
    BY <1>1, <1>6, Extend
  <1>8. pc' \notin TextPCs /\ pc' \notin {"flush", "wait_flush", "exit", "done"}
    BY DEF TextPCs, WritePCs
  <1>9. Conserved'
    <2>1. k \in 0..Len(Given') /\ Len(Given') - k + Len(arg') = Length
      <3>1. Len(Given) \in Nat /\ k \in Nat /\ k <= Len(Given)
        BY <1>1, LenProperties
      <3>2. Len(Given') = Len(Given) + n /\ Len(arg') = Len(arg) - n
        BY <1>4, <1>7
      <3>3. Len(Given) - k + Len(arg) = Length
        BY <1>6
      <3>4. /\ k \in 0..(Len(Given) + n)
            /\ (Len(Given) + n) - k + (Len(arg) - n) = Length
        BY <1>2, <3>1, <3>3, SMTT(20)
      <3> QED BY <3>2, <3>4
    <2>2. InOrder(Given, k)'
      BY <1>7 DEF InOrder, ReceiptText
    <2> QED BY <1>8, <2>1, <2>2 DEF Conserved
  <1>10. TextPhase' /\ WritePhase'
    BY <1>4, <1>8 DEF TextPhase, WritePhase, IsTail, Rest, ReceiptText
  <1> QED BY <1>4, <1>5, <1>9, <1>10

-----------------------------------------------------------------------------
(* One lemma per action *)

\* Pieces sent from the buffer stay where they are in what is given.
LEMMA DrainStep ==
    ASSUME IInv, NEW n \in 1..PipeSize, Drain(n)
    PROVE  IInv'
  <1>0. TypeOK /\ n \in 0..Len(buffer) /\ n \in Nat /\ n <= room /\ ~Broken
    BY Lengths DEF IInv, Drain, Takes
  <1>1. /\ sink \in Seq(Piece) /\ buffer \in Seq(Piece)
        /\ First(buffer, n) \in Seq(Piece)
        /\ Rest(buffer, n) \in Seq(Piece) /\ Len(Rest(buffer, n)) = Len(buffer) - n
    BY <1>0, FirstRest DEF TypeOK
  <1>2. Given' = Given
    BY <1>0, <1>1, Move DEF Drain, Given
  <1>3. sink' \in Seq(Piece) /\ buffer' \in Seq(Piece) /\ Len(buffer') <= Len(buffer)
    BY <1>0, <1>1, Cat, Lengths DEF Drain
  <1>4. /\ pc \notin {"done"} /\ (pc = "exit" => ~nulled) /\ buffer # << >>
    BY DEF Drain, Draining, Spills, Writing
  <1>5. pc # "exit"
    BY <1>0, <1>4 DEF IInv, Outcome
  <1>6. TypeOK'
    <2>1. room' \in 0..PipeSize
      BY <1>0 DEF Drain, TypeOK
    <2>2. Len(buffer') <= BufSize
      BY <1>0, <1>3, Lengths, LenProperties DEF TypeOK
    <2> QED BY <1>3, <2>1, <2>2 DEF IInv, TypeOK, Drain, world, ending
  <1>7. TextPhase' /\ WritePhase' /\ Conserved'
    BY <1>2 DEF IInv, TextPhase, WritePhase, Conserved, InOrder, IsTail, AllFromCaller, Drain, world, ending
  <1>8. Outcome'
    BY <1>4, <1>5 DEF IInv, Outcome, Drain, world, ending
  <1> QED BY <1>6, <1>7, <1>8 DEF IInv

\* The empty stream writes nothing: a call in progress has a stream below it.
LEMMA HasStream ==
    ASSUME IInv, Writing
    PROVE  /\ out.kind # "none" /\ pc \in {"text", "write"} /\ exit = verdict /\ ~nulled
  BY DEF IInv, Outcome, Writing

\* The buffered writer takes the rest of the call.
LEMMA BufferedStep ==
    ASSUME IInv, Buffered
    PROVE  IInv'
  <1>0. TypeOK /\ Writing /\ Fits
    BY DEF IInv, Buffered
  <1>1. /\ sink \in Seq(Piece) /\ buffer \in Seq(Piece) /\ arg \in Seq(Piece) /\ data \in Seq(Piece)
        /\ Len(arg) \in 0..Len(arg) /\ First(arg, Len(arg)) = arg
        /\ Rest(arg, Len(arg)) \in Seq(Piece) /\ Len(Rest(arg, Len(arg))) = Len(arg) - Len(arg)
    BY <1>0, Lengths, FirstRest, SubSeqFull DEF TypeOK, First
  <1>2. Rest(arg, Len(arg)) = << >>
    BY <1>0, <1>1, Lengths, EmptySeq
  <1>3. Given' = Given \o First(arg, Len(arg))
    <2>1. Given' = sink \o (buffer \o arg)
      BY DEF Buffered, Given, world
    <2>2. sink \o (buffer \o arg) = (sink \o buffer) \o arg
      <3>1. sink \in Seq(Piece) /\ buffer \in Seq(Piece) /\ arg \in Seq(Piece)
        BY <1>1
      <3> QED BY <3>1, ConcatAssociative, SMTT(20)
    <2> QED BY <1>1, <2>1, <2>2 DEF Given
  <1>4. buffer' \in Seq(Piece) /\ Len(buffer') <= BufSize
    <2>1. buffer' \in Seq(Piece) /\ Len(buffer') = Len(buffer) + Len(arg)
      BY <1>1, Cat DEF Buffered
    <2>2. Len(arg) <= BufSize - Len(buffer)
      BY <1>0 DEF Fits
    <2> QED BY <1>0, <2>1, <2>2, Lengths
  <1>5. /\ arg' \in Seq(Piece) /\ data' \in Seq(Piece) /\ TextPhase' /\ WritePhase' /\ Conserved'
        /\ pc = "write" => Len(arg') <= Len(data')
    <2>1. CASE pc = "text"
      <3>1. data' = data /\ arg' = << >> /\ pc' = pc
        BY <2>1 DEF Buffered, Accounted
      <3>2. out' = out /\ ~out.raw
        BY <1>0 DEF Buffered, Fits, world
      <3> QED BY <1>1, <1>3, <2>1, <3>1, <3>2, TextStep DEF TextPCs
    <2>2. CASE pc = "write"
      <3>1. IsTail(data)
        BY <2>2 DEF IInv, WritePhase, WritePCs
      <3>2. Rest(data, Len(data) - Len(<< >>)) = << >>
        BY <1>1, <3>1, AllTaken
      <3>3. data' = << >> /\ arg' = << >> /\ pc' = pc
        BY <2>2, <3>2 DEF Buffered, Accounted
      <3> QED BY <1>1, <1>2, <1>3, <2>2, <3>3, WriteStep DEF WritePCs
    <2> QED BY <1>0, <2>1, <2>2 DEF Writing
  <1>6. TypeOK'
    BY <1>0, <1>4, <1>5 DEF TypeOK, Buffered, Writing, world, ending
  <1>7. Outcome'
    BY <1>0, HasStream DEF IInv, Outcome, Buffered, world, ending
  <1> QED BY <1>5, <1>6, <1>7 DEF IInv

\* What a write(2) takes from the call itself, with the buffer empty.
LEMMA DirectGiven ==
    ASSUME IInv, Direct, NEW n \in Nat, n <= Len(arg), sink' = sink \o First(arg, n), buffer' = buffer
    PROVE  /\ n \in 0..Len(arg) /\ sink' \in Seq(Piece) /\ Given' = Given \o First(arg, n)
           /\ Rest(arg, n) \in Seq(Piece)
  <1>1. /\ sink \in Seq(Piece) /\ arg \in Seq(Piece) /\ Len(arg) \in Nat /\ buffer = << >>
    BY Lengths DEF IInv, TypeOK, Direct
  <1>2. n \in 0..Len(arg)
    BY <1>1
  <1>3. First(arg, n) \in Seq(Piece) /\ Rest(arg, n) \in Seq(Piece)
    BY <1>1, <1>2, FirstRest
  <1>4. sink' \in Seq(Piece)
    BY <1>1, <1>3, Cat
  <1>5. Given' = sink' /\ Given = sink
    BY <1>1, <1>4, ConcatEmptySeq DEF Given
  <1> QED BY <1>2, <1>3, <1>4, <1>5

LEMMA PassThroughStep ==
    ASSUME IInv, NEW n \in 1..PipeSize, PassThrough(n)
    PROVE  IInv'
  <1>0. /\ TypeOK /\ Direct /\ Writing /\ n \in Nat /\ n <= room /\ n <= Len(arg) /\ ~Broken
    BY Lengths DEF IInv, PassThrough, Direct, Spills, Takes
  <1>1. /\ n \in 0..Len(arg) /\ sink' \in Seq(Piece) /\ Given' = Given \o First(arg, n)
        /\ Rest(arg, n) \in Seq(Piece) /\ arg \in Seq(Piece) /\ data \in Seq(Piece)
    BY <1>0, DirectGiven DEF PassThrough, TypeOK
  <1>2. arg' = Rest(arg, n) /\ pc' = pc
    BY DEF PassThrough
  <1>3. /\ arg' \in Seq(Piece) /\ data' \in Seq(Piece) /\ TextPhase' /\ WritePhase' /\ Conserved'
        /\ pc = "write" => Len(arg') <= Len(data')
    <2>1. CASE pc = "text"
      <3>1. data' = data
        BY <2>1 DEF PassThrough, Accounted
      <3>2. out' = out /\ ~out.raw
        BY DEF PassThrough, world
      <3> QED BY <1>1, <1>2, <2>1, <3>1, <3>2, TextStep DEF TextPCs
    <2>2. CASE pc = "write"
      <3>1. IsTail(data)
        BY <2>2 DEF IInv, WritePhase, WritePCs
      <3>2. Rest(data, Len(data) - Len(<< >>)) = << >>
        BY <1>1, <3>1, AllTaken
      <3>3. data' = data \/ data' = Rest(arg, n)
        BY <1>2, <2>2, <3>2 DEF PassThrough, Accounted
      <3> QED BY <1>1, <1>2, <2>2, <3>3, WriteStep DEF WritePCs
    <2> QED BY <1>0, <2>1, <2>2 DEF Writing
  <1>4. TypeOK'
    <2>1. room' \in 0..PipeSize
      BY <1>0 DEF PassThrough, TypeOK
    <2> QED BY <1>0, <1>1, <1>3, <2>1 DEF TypeOK, PassThrough, Writing, world, ending
  <1>5. Outcome'
    BY <1>0, HasStream DEF IInv, Outcome, PassThrough, world, ending
  <1> QED BY <1>3, <1>4, <1>5 DEF IInv

LEMMA RawWriteStep ==
    ASSUME IInv, NEW n \in 1..PipeSize, RawWrite(n)
    PROVE  IInv'
  <1>0. /\ TypeOK /\ Direct /\ Writing /\ n \in Nat /\ n <= room /\ n <= Len(arg) /\ ~Broken
    BY Lengths DEF IInv, RawWrite, Direct, Spills, Takes
  <1>1. /\ n \in 0..Len(arg) /\ sink' \in Seq(Piece) /\ Given' = Given \o First(arg, n)
        /\ Rest(arg, n) \in Seq(Piece) /\ Len(Rest(arg, n)) = Len(arg) - n
        /\ arg \in Seq(Piece) /\ data \in Seq(Piece)
    BY <1>0, DirectGiven, FirstRest DEF RawWrite, TypeOK
  <1>2. pc' = pc /\ arg' = data'
    BY DEF RawWrite
  <1>3. pc = "write"
    BY <1>0 DEF IInv, TextPhase, TextPCs, RawWrite, Writing
  <1>4. /\ arg' \in Seq(Piece) /\ data' \in Seq(Piece) /\ TextPhase' /\ WritePhase' /\ Conserved'
        /\ Len(arg') <= Len(data')
    <2>1. IsTail(data) /\ IsTail(arg) /\ Len(arg) <= Len(data)
      BY <1>0, <1>3 DEF IInv, TypeOK, WritePhase, WritePCs
    <2>2. IsTail(Rest(arg, n)) /\ Len(Rest(arg, n)) <= Len(data)
      BY <1>0, <1>1, <2>1, TailRest, Lengths
    <2>3. data' = Rest(arg, n)
      BY <1>1, <1>3, <2>1, <2>2, CountIsRight DEF RawWrite, Accounted
    <2> QED BY <1>1, <1>2, <1>3, <2>3, WriteStep DEF WritePCs
  <1>5. TypeOK'
    <2>1. room' \in 0..PipeSize
      BY <1>0 DEF RawWrite, TypeOK
    <2> QED BY <1>0, <1>1, <1>3, <1>4, <2>1 DEF TypeOK, RawWrite, world, ending
  <1>6. Outcome'
    BY <1>0, HasStream DEF IInv, Outcome, RawWrite, world, ending
  <1> QED BY <1>4, <1>5, <1>6 DEF IInv

\* A blocked write: what the buffer has space for is in it, the rest is counted
\* as not taken.
LEMMA WouldBlockStep ==
    ASSUME IInv, WouldBlock
    PROVE  IInv'
  <1> DEFINE space == IF out.raw THEN 0 ELSE BufSize - Len(buffer)
             left == Rest(arg, space)
  <1>0. /\ TypeOK /\ Writing /\ ~Fits /\ out' = out
        /\ buffer' = buffer \o First(arg, space) /\ sink' = sink
        /\ data' = Accounted(left)
        /\ arg' = IF pc = "text" THEN << >> ELSE data'
        /\ pc' = IF pc = "text" THEN "wait_text" ELSE "wait_write"
    BY DEF IInv, WouldBlock, Spills, world
  <1>1. /\ sink \in Seq(Piece) /\ buffer \in Seq(Piece) /\ arg \in Seq(Piece) /\ data \in Seq(Piece)
        /\ Len(arg) \in Nat /\ Len(buffer) \in Nat /\ Len(buffer) <= BufSize
    BY <1>0, Lengths DEF TypeOK
  <1>2. space \in 0..Len(arg) /\ (~out.raw => Len(buffer) + space <= BufSize) /\ (out.raw => space = 0)
    <2>1. CASE out.raw
      BY <1>1, <2>1
    <2>2. CASE ~out.raw
      <3>1. ~(Len(arg) <= BufSize - Len(buffer))
        BY <1>0, <2>2 DEF Fits
      <3> QED BY <1>1, <2>2, <3>1
    <2> QED BY <2>1, <2>2
  <1> HIDE DEF space
  <1>3. /\ First(arg, space) \in Seq(Piece) /\ Len(First(arg, space)) = space
        /\ left \in Seq(Piece) /\ Len(left) = Len(arg) - space
    BY <1>1, <1>2, FirstRest
  <1>4. Given' = Given \o First(arg, space)
    <2>1. Given' = sink \o (buffer \o First(arg, space))
      BY <1>0 DEF Given
    <2>2. sink \o (buffer \o First(arg, space)) = (sink \o buffer) \o First(arg, space)
      <3> DEFINE f == First(arg, space)
      <3>1. sink \in Seq(Piece) /\ buffer \in Seq(Piece) /\ f \in Seq(Piece)
        BY <1>1, <1>3
      <3> HIDE DEF f
      <3>2. sink \o (buffer \o f) = (sink \o buffer) \o f
        BY <3>1, ConcatAssociative
      <3> QED BY <3>2 DEF f
    <2> QED BY <2>1, <2>2 DEF Given
  <1>5. buffer' \in Seq(Piece) /\ Len(buffer') <= BufSize
    <2>1. buffer' \in Seq(Piece) /\ Len(buffer') = Len(buffer) + space
      <3> DEFINE f == First(arg, space)
      <3>1. f \in Seq(Piece) /\ Len(f) = space /\ buffer' = buffer \o f
        BY <1>0, <1>3
      <3> HIDE DEF f
      <3> QED BY <1>1, <3>1, Cat
    <2> QED BY <1>1, <1>2, <2>1
  <1>6. /\ arg' \in Seq(Piece) /\ data' \in Seq(Piece) /\ TextPhase' /\ WritePhase' /\ Conserved'
        /\ pc = "write" => Len(arg') <= Len(data')
    <2>1. CASE pc = "text"
      <3>1. data' = data /\ arg' = << >> /\ pc' = "wait_text"
        BY <1>0, <2>1 DEF Accounted
      <3>2. ~out.raw
        BY <1>0, <2>1 DEF IInv, TextPhase, TextPCs, Writing
      <3> QED BY <1>0, <1>2, <1>4, <2>1, <3>1, <3>2, TextStep DEF TextPCs
    <2>2. CASE pc = "write"
      <3>1. IsTail(data) /\ IsTail(arg) /\ Len(arg) <= Len(data)
        BY <1>0, <2>2 DEF IInv, TypeOK, WritePhase, WritePCs
      <3>2. IsTail(left) /\ Len(left) <= Len(data)
        <4>1. IsTail(left)
          BY <1>1, <1>2, <3>1, TailRest
        <4>2. space \in Nat /\ Len(data) \in Nat
          BY <1>0, <1>2, Lengths
        <4> QED BY <1>1, <1>3, <3>1, <4>1, <4>2
      <3>3. data' = left
        <4>1. Rest(data, Len(data) - Len(left)) = left
          BY <1>1, <1>3, <3>1, <3>2, CountIsRight
        <4> QED BY <1>0, <2>2, <4>1 DEF Accounted
      <3>4. arg' = left /\ pc' = "wait_write"
        BY <1>0, <2>2, <3>3
      <3> QED BY <1>2, <1>4, <2>2, <3>3, <3>4, WriteStep DEF WritePCs
    <2> QED BY <1>0, <2>1, <2>2 DEF Writing
  <1>7. pc \in {"text", "write"}
    BY <1>0 DEF Writing
  <1>8. TypeOK'
    <2>1. /\ sink' = sink /\ out' = out /\ reader' = reader /\ verdict' = verdict
          /\ room' = room /\ exit' = exit /\ nulled' = nulled
      BY DEF WouldBlock, world, ending
    <2>2. pc' \in {"wait_text", "wait_write"} /\ (pc' = "wait_write" => pc = "write")
      BY <1>0, <1>7
    <2> QED BY <1>0, <1>5, <1>6, <2>1, <2>2 DEF TypeOK, PCs
  <1>9. Outcome'
    BY <1>0, <1>7, HasStream DEF IInv, Outcome, WouldBlock, world, ending
  <1> QED BY <1>6, <1>8, <1>9 DEF IInv

LEMMA FlushWouldBlockStep ==
    ASSUME IInv, FlushWouldBlock
    PROVE  IInv'
  <1>1. /\ sink' = sink /\ buffer' = buffer /\ arg' = arg /\ data' = data /\ out' = out /\ reader' = reader
        /\ verdict' = verdict /\ room' = room /\ exit' = exit /\ nulled' = nulled /\ Given' = Given
        /\ (pc = "textflush" /\ pc' = "wait_text") \/ (pc = "flush" /\ pc' = "wait_flush")
    BY DEF FlushWouldBlock, Goto, world, ending, Given
  <1>2. TypeOK'
    BY <1>1 DEF IInv, TypeOK, PCs
  <1>3. TextPhase' /\ WritePhase'
    BY <1>1 DEF IInv, TextPhase, WritePhase, TextPCs, WritePCs, AllFromCaller, ReceiptText
  <1>4. Conserved'
    BY <1>1 DEF IInv, Conserved, InOrder, TextPCs, WritePCs, ReceiptText
  <1>5. Outcome'
    BY <1>1 DEF IInv, Outcome
  <1> QED BY <1>2, <1>3, <1>4, <1>5 DEF IInv

LEMMA WaitStep ==
    ASSUME IInv, Wait
    PROVE  IInv'
  <1>1. /\ sink' = sink /\ buffer' = buffer /\ arg' = arg /\ data' = data /\ out' = out /\ reader' = reader
        /\ verdict' = verdict /\ room' = room /\ exit' = exit /\ nulled' = nulled /\ Given' = Given
        /\ \/ pc = "wait_text" /\ pc' = "text"
           \/ pc = "wait_write" /\ pc' = "write"
           \/ pc = "wait_flush" /\ pc' = "flush"
    BY DEF Wait, Goto, world, ending, Given
  <1>2. TypeOK'
    BY <1>1 DEF IInv, TypeOK, PCs
  <1>3. TextPhase' /\ WritePhase'
    BY <1>1 DEF IInv, TextPhase, WritePhase, TextPCs, WritePCs, AllFromCaller, ReceiptText, IsTail, Rest
  <1>4. Conserved'
    BY <1>1 DEF IInv, Conserved, InOrder, TextPCs, WritePCs, ReceiptText
  <1>5. Outcome'
    BY <1>1 DEF IInv, Outcome
  <1> QED BY <1>2, <1>3, <1>4, <1>5 DEF IInv

LEMMA TextHandedStep ==
    ASSUME IInv, TextHanded
    PROVE  IInv'
  <1>1. /\ sink' = sink /\ buffer' = buffer /\ arg' = arg /\ data' = data /\ out' = out /\ reader' = reader
        /\ verdict' = verdict /\ room' = room /\ exit' = exit /\ nulled' = nulled /\ Given' = Given
        /\ pc = "text" /\ pc' = "textflush" /\ out.kind # "none"
    BY DEF TextHanded, Goto, world, ending, Given
  <1>2. TypeOK'
    BY <1>1 DEF IInv, TypeOK, PCs
  <1>3. TextPhase' /\ WritePhase'
    BY <1>1 DEF IInv, TextPhase, WritePhase, TextPCs, WritePCs, AllFromCaller, ReceiptText
  <1>4. Conserved'
    BY <1>1 DEF IInv, Conserved, InOrder, TextPCs, WritePCs, ReceiptText
  <1>5. Outcome'
    BY <1>1 DEF IInv, Outcome
  <1> QED BY <1>2, <1>3, <1>4, <1>5 DEF IInv

\* The first write() call begins with the whole receipt, after the caller's text.
LEMMA TextFlushedStep ==
    ASSUME IInv, TextFlushed
    PROVE  IInv'
  <1>1. /\ sink' = sink /\ buffer' = buffer /\ arg' = data /\ data' = data /\ out' = out /\ reader' = reader
        /\ verdict' = verdict /\ room' = room /\ exit' = exit /\ nulled' = nulled /\ Given' = Given
        /\ pc = "textflush" /\ pc' = "write"
    BY DEF TextFlushed, Goto, world, ending, Given
  <1>2. /\ TypeOK /\ data = ReceiptText /\ data \in Seq(Piece) /\ Len(data) = Length
    BY <1>1, ReceiptSeq DEF IInv, TypeOK, TextPhase, TextPCs
  <1>3. IsTail(data)
    <2>1. \A j \in 1..Len(data) : data[j] = ReceiptText[Length - Len(data) + j]
      BY <1>2
    <2> QED BY <1>2, <2>1, TailFrom
  <1>4. TypeOK'
    BY <1>1, <1>2 DEF TypeOK, PCs
  <1>5. TextPhase' /\ WritePhase'
    BY <1>1, <1>3 DEF TextPhase, WritePhase, TextPCs, WritePCs, IsTail, Rest, ReceiptText
  <1>6. Conserved'
    <2>1. PICK k \in 0..Len(Given) : InOrder(Given, k) /\ k = Len(Given)
      BY <1>1 DEF IInv, Conserved, TextPCs
    <2>2. Len(Given) - k + Len(arg') = Length
      BY <1>1, <1>2, <2>1, Lengths
    <2>3. InOrder(Given, k)'
      BY <1>1, <2>1 DEF InOrder, ReceiptText
    <2> QED BY <1>1, <2>1, <2>2, <2>3 DEF Conserved, TextPCs
  <1>7. Outcome'
    BY <1>1 DEF IInv, Outcome
  <1> QED BY <1>4, <1>5, <1>6, <1>7 DEF IInv

\* With nothing left of `data`, the whole receipt is given.
LEMMA DataWrittenStep ==
    ASSUME IInv, DataWritten
    PROVE  IInv'
  <1>1. /\ sink' = sink /\ buffer' = buffer /\ arg' = arg /\ data' = data /\ out' = out /\ reader' = reader
        /\ verdict' = verdict /\ room' = room /\ exit' = exit /\ nulled' = nulled /\ Given' = Given
        /\ pc = "write" /\ pc' = "flush" /\ data = << >>
    BY DEF DataWritten, Goto, world, ending, Given
  <1>2. TypeOK /\ arg = << >> /\ Len(arg) = 0
    <2>1. TypeOK /\ arg \in Seq(Piece) /\ Len(arg) <= Len(data)
      BY <1>1 DEF IInv, TypeOK
    <2>2. Len(data) = 0
      BY <1>1, EmptySeq
    <2> QED BY <2>1, <2>2, EmptySeq, LenProperties
  <1>3. TypeOK'
    BY <1>1, <1>2 DEF TypeOK, PCs
  <1>4. TextPhase' /\ WritePhase'
    BY <1>1 DEF TextPhase, WritePhase, TextPCs, WritePCs
  <1>5. Conserved'
    <2>1. PICK k \in 0..Len(Given) : InOrder(Given, k) /\ Len(Given) - k + Len(arg) = Length
      BY <1>1 DEF IInv, Conserved, WritePCs
    <2>2. Len(Given) - k = Length
      BY <1>2, <2>1, Lengths
    <2>3. InOrder(Given, k)'
      BY <1>1, <2>1 DEF InOrder, ReceiptText
    <2> QED BY <1>1, <2>1, <2>2, <2>3 DEF Conserved, TextPCs, WritePCs
  <1>6. Outcome'
    BY <1>1 DEF IInv, Outcome
  <1> QED BY <1>3, <1>4, <1>5, <1>6 DEF IInv

LEMMA FlushedStep ==
    ASSUME IInv, Flushed
    PROVE  IInv'
  <1>1. /\ sink' = sink /\ buffer' = buffer /\ arg' = arg /\ data' = data /\ out' = out /\ reader' = reader
        /\ verdict' = verdict /\ room' = room /\ exit' = exit /\ nulled' = nulled /\ Given' = Given
        /\ pc = "flush" /\ pc' = "exit" /\ buffer = << >>
    BY DEF Flushed, Goto, world, ending, Given
  <1>2. TypeOK'
    BY <1>1 DEF IInv, TypeOK, PCs
  <1>3. TextPhase' /\ WritePhase'
    BY <1>1 DEF TextPhase, WritePhase, TextPCs, WritePCs
  <1>4. Conserved'
    BY <1>1 DEF IInv, Conserved, InOrder, TextPCs, WritePCs, ReceiptText
  <1>5. Outcome'
    BY <1>1 DEF IInv, Outcome
  <1> QED BY <1>2, <1>3, <1>4, <1>5 DEF IInv

\* A failed write: whatever was given stays in order, and the exit code is 74.
LEMMA FailsStep ==
    ASSUME IInv, Fails
    PROVE  IInv'
  <1>1. /\ sink' = sink /\ buffer' = buffer /\ arg' = arg /\ data' = data /\ out' = out /\ reader' = reader
        /\ verdict' = verdict /\ room' = room /\ Given' = Given
        /\ pc' = "exit" /\ exit' = EX_IOERR /\ nulled' = (out.kind # "none") /\ Broken
    BY DEF Fails, world, Given
  <1>2. TypeOK'
    BY <1>1 DEF IInv, TypeOK, PCs
  <1>3. TextPhase' /\ WritePhase'
    BY <1>1 DEF TextPhase, WritePhase, TextPCs, WritePCs
  <1>4. Conserved'
    BY <1>1 DEF IInv, Conserved, InOrder, TextPCs, WritePCs, ReceiptText, EX_IOERR
  <1>5. Outcome'
    BY <1>1 DEF IInv, Outcome, Broken, EX_IOERR
  <1> QED BY <1>2, <1>3, <1>4, <1>5 DEF IInv

\* Nothing is left to flush at exit, so the code stays what it is.
LEMMA AtExitStep ==
    ASSUME IInv, AtExit
    PROVE  IInv'
  <1>1. ~Draining
    BY DEF AtExit, Goto, Draining, Spills, Writing, IInv, Outcome
  <1>2. /\ sink' = sink /\ buffer' = buffer /\ arg' = arg /\ data' = data /\ out' = out /\ reader' = reader
        /\ verdict' = verdict /\ room' = room /\ exit' = exit /\ nulled' = nulled /\ Given' = Given
        /\ pc = "exit" /\ pc' = "done"
    BY <1>1 DEF AtExit, Goto, world, Given
  <1>3. TypeOK'
    BY <1>2 DEF IInv, TypeOK, PCs
  <1>4. TextPhase' /\ WritePhase'
    BY <1>2 DEF TextPhase, WritePhase, TextPCs, WritePCs
  <1>5. Conserved'
    BY <1>2 DEF IInv, Conserved, InOrder, TextPCs, WritePCs, ReceiptText
  <1>6. Outcome'
    BY <1>2 DEF IInv, Outcome, Broken
  <1> QED BY <1>3, <1>4, <1>5, <1>6 DEF IInv

\* The reader's steps: a pipe that is broken stays broken.
LEMMA ReaderStep ==
    ASSUME IInv, Reads \/ Leaves
    PROVE  IInv'
  <1>1. /\ sink' = sink /\ buffer' = buffer /\ arg' = arg /\ data' = data /\ out' = out
        /\ verdict' = verdict /\ exit' = exit /\ nulled' = nulled /\ Given' = Given /\ pc' = pc
        /\ out.kind = "pipe" /\ reader
    BY DEF Reads, Leaves, ending, Given
  <1>2. room' \in 0..PipeSize /\ reader' \in BOOLEAN
    <2>1. CASE Reads
      <3>1. PICK n \in 1..(PipeSize - room) : room' = room + n
        BY <2>1 DEF Reads
      <3> QED BY <2>1, <3>1 DEF IInv, TypeOK, Reads
    <2>2. CASE Leaves
      BY <2>2 DEF IInv, TypeOK, Leaves
    <2> QED BY <2>1, <2>2
  <1>3. TypeOK'
    BY <1>1, <1>2 DEF IInv, TypeOK
  <1>4. TextPhase' /\ WritePhase'
    BY <1>1 DEF IInv, TextPhase, WritePhase, AllFromCaller, ReceiptText, IsTail, Rest
  <1>5. Conserved'
    BY <1>1 DEF IInv, Conserved, InOrder, ReceiptText
  <1>6. Outcome'
    <2>1. ~Broken
      BY <1>1 DEF Broken
    <2> QED BY <1>1, <2>1 DEF IInv, Outcome
  <1> QED BY <1>3, <1>4, <1>5, <1>6 DEF IInv

-----------------------------------------------------------------------------
(* Theorems *)

LEMMA InitInv == Init => IInv
  <1> SUFFICES ASSUME Init PROVE IInv
    OBVIOUS
  <1>1. arg \in Seq(Piece) /\ AllFromCaller(arg) /\ (out.raw => arg = << >>) /\ (out.kind = "none" => arg = << >>)
    BY ReceiptSeq, EmptyTail DEF Init, AllFromCaller
  <1>2. sink = << >> /\ buffer = << >> /\ << >> \in Seq(Piece) /\ Len(<< >>) = 0 /\ data = ReceiptText
    BY EmptyTail DEF Init
  <1>3. TypeOK
    <2>1. Len(buffer) <= BufSize
      <3>1. Len(buffer) = 0
        BY <1>2
      <3> QED BY <3>1
    <2>2. /\ sink \in Seq(Piece) /\ buffer \in Seq(Piece) /\ data \in Seq(Piece)
      BY <1>2, ReceiptSeq
    <2>3. /\ out \in Streams /\ room \in 0..PipeSize /\ reader \in BOOLEAN /\ nulled \in BOOLEAN
          /\ pc = "text" /\ verdict \in Verdicts /\ exit \in Verdicts
      BY DEF Init
    <2> QED BY <1>1, <2>1, <2>2, <2>3 DEF TypeOK, PCs
  <1>4. TextPhase /\ WritePhase /\ Outcome
    BY <1>1, <1>2 DEF Init, TextPhase, WritePhase, WritePCs, Outcome
  <1>5. Conserved
    <2>1. Given \in Seq(Piece) /\ Given = << >>
      BY <1>2, ConcatEmptySeq DEF Given
    <2>2. AllFromCaller(Given)
      BY <1>2, <2>1 DEF AllFromCaller
    <2>3. Len(Given) \in 0..Len(Given) /\ InOrder(Given, Len(Given))
      BY <2>1, <2>2, CallerInOrder
    <2> QED BY <2>3 DEF Init, Conserved, WritePCs
  <1> QED BY <1>3, <1>4, <1>5 DEF IInv

LEMMA NextInv == IInv /\ [Next]_vars => IInv'
  <1> SUFFICES ASSUME IInv, [Next]_vars PROVE IInv'
    OBVIOUS
  <1>1. CASE Process
    BY <1>1, BufferedStep, DrainStep, PassThroughStep, RawWriteStep, WouldBlockStep, FlushWouldBlockStep,
       WaitStep, TextHandedStep, TextFlushedStep, DataWrittenStep, FlushedStep, FailsStep, AtExitStep
       DEF Process
  <1>2. CASE Reads \/ Leaves
    BY <1>2, ReaderStep
  <1>3. CASE UNCHANGED vars
    <2>1. /\ sink' = sink /\ buffer' = buffer /\ arg' = arg /\ data' = data /\ out' = out /\ reader' = reader
          /\ verdict' = verdict /\ room' = room /\ exit' = exit /\ nulled' = nulled /\ Given' = Given /\ pc' = pc
      BY <1>3 DEF vars, Given
    <2>2. TypeOK'
      BY <2>1 DEF IInv, TypeOK
    <2>3. TextPhase' /\ WritePhase'
      BY <2>1 DEF IInv, TextPhase, WritePhase, AllFromCaller, ReceiptText, IsTail, Rest
    <2>4. Conserved'
      BY <2>1 DEF IInv, Conserved, InOrder, ReceiptText
    <2>5. Outcome'
      BY <2>1 DEF IInv, Outcome, Broken
    <2> QED BY <2>2, <2>3, <2>4, <2>5 DEF IInv
  <1> QED BY <1>1, <1>2, <1>3 DEF Next

\* At every moment, whatever stdout is and whoever reads it, nothing is lost,
\* doubled or out of order on the way from main() to the system.
THEOREM ReceiptInvariant == Spec => []IInv
  <1> QED BY InitInv, NextInv, PTL DEF Spec

\* The buffer stays within its capacity and the text in its order of pieces,
\* and nothing is left of the receipt when its last flush begins
\* (verifier.py:620-676).
THEOREM ReceiptTypeOK == Spec => []TypeOK
  <1>1. IInv => TypeOK
    BY DEF IInv
  <1> QED BY <1>1, ReceiptInvariant, PTL

\* What the system has taken is a prefix of the receipt after some of the
\* caller's text, after any number of short, blocked and retried writes.
THEOREM ReceiptIsInOrder == Spec => []ReceiptInOrder
  <1>1. IInv => ReceiptInOrder
    <2> SUFFICES ASSUME IInv PROVE ReceiptInOrder
      OBVIOUS
    <2>1. PICK k \in 0..Len(Given) : InOrder(Given, k)
      BY DEF IInv, Conserved
    <2>2. /\ sink \in Seq(Piece) /\ buffer \in Seq(Piece) /\ Len(sink) \in Nat /\ Len(buffer) \in Nat
          /\ Len(Given) = Len(sink) + Len(buffer)
          /\ \A j \in 1..Len(sink) : Given[j] = sink[j]
      BY Lengths, Cat DEF IInv, TypeOK, Given
    <2>3. CASE k <= Len(sink)
      <3>1. k \in Nat /\ k \in 0..Len(sink) /\ Len(sink) - k <= Length
        BY <2>1, <2>2, <2>3 DEF InOrder
      <3>2. \A j \in 1..k : sink[j][1] = "caller"
        <4>1. ASSUME NEW j \in 1..k PROVE sink[j][1] = "caller"
          <5>1. j \in 1..Len(sink)
            BY <2>2, <3>1
          <5>2. Given[j] = sink[j] /\ Given[j][1] = "caller"
            BY <2>1, <2>2, <5>1 DEF InOrder
          <5> QED BY <5>2
        <4> QED BY <4>1
      <3>3. \A j \in (k + 1)..Len(sink) : sink[j] = ReceiptText[j - k]
        BY <2>1, <2>2, <3>1 DEF InOrder
      <3>4. InOrder(sink, k)
        BY <3>1, <3>2, <3>3 DEF InOrder
      <3> QED BY <3>1, <3>4 DEF ReceiptInOrder
    <2>4. CASE k > Len(sink)
      <3>1. \A j \in 1..Len(sink) : sink[j][1] = "caller"
        BY <2>1, <2>2, <2>4 DEF InOrder
      <3>2. InOrder(sink, Len(sink))
        BY <2>2, <3>1, CallerInOrder DEF AllFromCaller
      <3> QED BY <2>2, <3>2 DEF ReceiptInOrder
    <2> QED BY <2>1, <2>2, <2>3, <2>4
  <1> QED BY <1>1, ReceiptInvariant, PTL

\* A verdict's exit code means the system has the whole receipt.
THEOREM ReceiptVerdict == Spec => []VerdictMeansWritten
  <1>1. IInv => VerdictMeansWritten
    <2> SUFFICES ASSUME IInv, pc = "done", exit \in Verdicts
                 PROVE  /\ exit = verdict
                        /\ Len(sink) >= Length
                        /\ \A j \in 1..Length : sink[Len(sink) - Length + j] = ReceiptText[j]
      BY DEF VerdictMeansWritten
    <2>1. exit = verdict /\ buffer = << >> /\ exit # EX_IOERR
      BY DEF IInv, Outcome, Verdicts, EX_IOERR
    <2>2. PICK k \in 0..Len(Given) : InOrder(Given, k) /\ Len(Given) - k = Length
      BY <2>1 DEF IInv, Conserved
    <2>3. Given = sink /\ Len(sink) \in Nat
      BY <2>1, Lengths, ConcatEmptySeq DEF IInv, TypeOK, Given
    <2>4. k \in Nat /\ k <= Len(sink) /\ Len(sink) - Length = k
      BY <2>2, <2>3
    <2>5. ASSUME NEW j \in 1..Length PROVE sink[Len(sink) - Length + j] = ReceiptText[j]
      <3>1. k + j \in (k + 1)..Len(sink) /\ (k + j) - k = j
        BY <2>2, <2>3, <2>4
      <3>2. sink[k + j] = ReceiptText[(k + j) - k]
        BY <2>2, <2>3, <3>1 DEF InOrder
      <3> QED BY <2>4, <3>1, <3>2
    <2> QED BY <2>1, <2>4, <2>5
  <1> QED BY <1>1, ReceiptInvariant, PTL

\* 74 is the only other exit code, and stdout is then really beyond writing.
THEOREM ReceiptGivesUp == Spec => []GivesUpOnlyWhenBroken
  <1>1. IInv => GivesUpOnlyWhenBroken
    BY DEF IInv, Outcome, GivesUpOnlyWhenBroken
  <1> QED BY <1>1, ReceiptInvariant, PTL
=============================================================================
