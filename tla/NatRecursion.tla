---------------------------- MODULE NatRecursion ----------------------------
(***************************************************************************)
(* Induction over the naturals without an operator for the induction       *)
(* hypothesis, which is a set here, and what a function defined by         *)
(* recursion on its index needs: that one exists.                          *)
(***************************************************************************)
EXTENDS Integers, SequenceTheorems, WellFoundedInduction, TLAPS

\* A set of naturals has a least element.
LEMMA LeastNat ==
    ASSUME NEW T, T \subseteq Nat, T # {}
    PROVE  \E x \in T : \A y \in T : x <= y
<1>1. IsWellFoundedOn(OpToRel(<, Nat), Nat)
  BY NatLessThanWellFounded
<1>2. PICK x \in T : \A y \in T : <<y, x>> \notin OpToRel(<, Nat)
  BY <1>1, WFMin
<1>3. \A y \in T : ~(y < x)
  BY <1>2 DEF OpToRel
<1> QED BY <1>3

\* Induction from a to b: `Holds` is the set of indexes at which the claim does.
LEMMA Upward ==
    ASSUME NEW a \in Int, NEW b \in Int, NEW Holds,
           a \in Holds,
           \A i \in a..(b - 1) : i \in Holds => i + 1 \in Holds
    PROVE  \A i \in a..b : i \in Holds
<1> DEFINE Fails == {i \in Nat : a + i <= b /\ a + i \notin Holds}
<1>1. CASE Fails = {}
  <2>1. ASSUME NEW i \in a..b PROVE i \in Holds
    <3>1. i - a \in Nat /\ a + (i - a) = i /\ i <= b
      OBVIOUS
    <3> QED BY <3>1, <1>1
  <2> QED BY <2>1
<1>2. CASE Fails # {}
  <2>1. PICK m \in Fails : \A k \in Fails : m <= k
    <3>1. Fails \subseteq Nat
      OBVIOUS
    <3> HIDE DEF Fails
    <3> QED BY <3>1, <1>2, LeastNat
  <2>2. m # 0
    BY <2>1
  <2>3. m - 1 \in Nat /\ m - 1 \notin Fails
    BY <2>1, <2>2
  <2>4. a + (m - 1) \in a..(b - 1) /\ a + (m - 1) \in Holds /\ a + (m - 1) + 1 = a + m
    BY <2>1, <2>3
  <2> QED BY <2>1, <2>4
<1> QED BY <1>1, <1>2

\* Induction from what is below.
LEMMA FromBelow ==
    ASSUME NEW N \in Nat, NEW Holds,
           \A c \in 1 .. N : (\A d \in 1 .. (c - 1) : d \in Holds) => c \in Holds
    PROVE  \A c \in 1 .. N : c \in Holds
<1> DEFINE Below == {m \in 0 .. N : \A d \in 1 .. m : d \in Holds}
<1>1. 0 \in Below
  OBVIOUS
<1>2. ASSUME NEW m \in 0 .. (N - 1), m \in Below PROVE m + 1 \in Below
  <2>1. m + 1 \in 1 .. N /\ (m + 1) - 1 = m
    OBVIOUS
  <2>2. m + 1 \in Holds
    BY <1>2, <2>1
  <2>3. \A d \in 1 .. (m + 1) : d \in 1 .. m \/ d = m + 1
    OBVIOUS
  <2> QED BY <1>2, <2>1, <2>2, <2>3
<1>3. 0 \in Int /\ N \in Int /\ N \in 0 .. N
  OBVIOUS
<1>4. N \in Below
  <2> HIDE DEF Below
  <2> QED BY <1>1, <1>2, <1>3, Upward
<1> QED BY <1>4

\* The functions on 0..n that start at `base` and go on by `step`.
Runs(V, base, step, n) ==
    {f \in [0..n -> V] : f[0] = base /\ \A i \in 1..n : f[i] = step[i][f[i - 1]]}

\* A recursion on the index defines a function.
LEMMA RunExists ==
    ASSUME NEW V, NEW base \in V, NEW n \in Nat, NEW step \in [1..n -> [V -> V]]
    PROVE  Runs(V, base, step, n) # {}
<1> DEFINE Defined == {m \in 0..n : Runs(V, base, step, m) # {}}
<1>1. 0 \in Defined
  <2>1. [i \in 0..0 |-> base] \in Runs(V, base, step, 0)
    BY DEF Runs
  <2> QED BY <2>1
<1>2. ASSUME NEW k \in 0..(n - 1), k \in Defined PROVE k + 1 \in Defined
  <2>1. PICK f : f \in Runs(V, base, step, k)
    BY <1>2
  <2> DEFINE m == k + 1
             g == [i \in 0..m |-> IF i = m THEN step[m][f[k]] ELSE f[i]]
  <2>2. m \in 1..n /\ m \in 0..n /\ f[k] \in V /\ m - 1 = k
    BY <1>2, <2>1 DEF Runs
  <2>3. g \in [0..m -> V]
    <3>1. \A i \in 0..m : i # m => f[i] \in V
      BY <2>1, <2>2 DEF Runs
    <3>2. step[m][f[k]] \in V
      BY <2>2
    <3> QED BY <3>1, <3>2
  <2>4. g[0] = base
    BY <2>1, <2>2 DEF Runs
  <2>5. ASSUME NEW i \in 1..m PROVE g[i] = step[i][g[i - 1]]
    BY <2>1, <2>2 DEF Runs
  <2>6. g \in Runs(V, base, step, m)
    BY <2>3, <2>4, <2>5 DEF Runs
  <2> QED BY <2>2, <2>6
<1>3. \A i \in 0..n : i \in Defined
  <2>1. 0 \in Int /\ n \in Int
    OBVIOUS
  <2> HIDE DEF Defined
  <2> QED BY <2>1, <1>1, <1>2, Upward
<1> QED BY <1>3
-----------------------------------------------------------------------------
(* Sequences over some set: hashes and entries are nested as deep as their   *)
(* histories are long, so no set holds them all.                             *)

IsList(s) == \E S : s \in Seq(S)

LEMMA ListFacts ==
    ASSUME NEW s, IsList(s)
    PROVE  /\ Len(s) \in Nat /\ DOMAIN s = 1 .. Len(s)
           /\ s = [i \in 1 .. Len(s) |-> s[i]]
<1>1. PICK S : s \in Seq(S)
  BY DEF IsList
<1> QED BY <1>1

LEMMA ListOf ==
    ASSUME NEW n \in Nat, NEW s, s = [i \in 1 .. n |-> s[i]]
    PROVE  IsList(s) /\ Len(s) = n
<1> DEFINE S == {s[i] : i \in 1 .. n}
<1>1. s \in [1 .. n -> S]
  OBVIOUS
<1> HIDE DEF S
<1>2. s \in Seq(S)
  BY <1>1, SeqDef
<1>3. DOMAIN s = 1 .. n /\ DOMAIN s = 1 .. Len(s) /\ Len(s) \in Nat
  BY <1>1, <1>2
<1>4. Len(s) = n
  BY <1>3
<1> QED BY <1>2, <1>4 DEF IsList

LEMMA ListAppend ==
    ASSUME NEW s, IsList(s), NEW e
    PROVE  /\ IsList(Append(s, e)) /\ Len(Append(s, e)) = Len(s) + 1
           /\ \A i \in 1 .. Len(s) : Append(s, e)[i] = s[i]
           /\ Append(s, e)[Len(s) + 1] = e
<1>1. PICK S : s \in Seq(S)
  BY DEF IsList
<1> DEFINE T == S \cup {e}
<1>2. s \in Seq(T) /\ e \in T
  BY <1>1, SeqMonotonic
<1> HIDE DEF T
<1>3. Append(s, e) \in Seq(T)
  BY <1>2
<1> QED BY <1>2, <1>3 DEF IsList

LEMMA ListPrefix ==
    ASSUME NEW s, IsList(s), NEW k \in 0 .. Len(s)
    PROVE  /\ IsList(SubSeq(s, 1, k)) /\ Len(SubSeq(s, 1, k)) = k
           /\ \A i \in 1 .. k : SubSeq(s, 1, k)[i] = s[i]
<1>1. PICK S : s \in Seq(S)
  BY DEF IsList
<1>2. SubSeq(s, 1, k) \in Seq(S)
  BY <1>1
<1> QED BY <1>1, <1>2 DEF IsList

LEMMA ListLast ==
    ASSUME NEW s, IsList(s), Len(s) # 0
    PROVE  \E t, e : IsList(t) /\ s = Append(t, e) /\ Len(t) = Len(s) - 1
<1> DEFINE n == Len(s)
           t == SubSeq(s, 1, n - 1)
           u == Append(t, s[n])
<1>1. n \in Nat /\ n - 1 \in 0 .. n /\ DOMAIN s = 1 .. n /\ s = [i \in 1 .. n |-> s[i]]
  BY ListFacts
<1>2. IsList(t) /\ Len(t) = n - 1 /\ \A i \in 1 .. (n - 1) : t[i] = s[i]
  BY <1>1, ListPrefix
<1> HIDE DEF t
<1>3. /\ IsList(u) /\ Len(u) = (n - 1) + 1 /\ u[(n - 1) + 1] = s[n]
      /\ \A i \in 1 .. (n - 1) : u[i] = t[i]
  BY <1>2, ListAppend
<1>4. (n - 1) + 1 = n /\ \A i \in 1 .. n : i = n \/ i \in 1 .. (n - 1)
  BY <1>1
<1> HIDE DEF u
<1>5. Len(u) = n /\ \A i \in 1 .. n : u[i] = s[i]
  BY <1>2, <1>3, <1>4
<1>6. u = [i \in 1 .. n |-> u[i]]
  BY <1>3, <1>5, ListFacts
<1>7. s = u
  <2> HIDE DEF n
  <2> QED BY <1>1, <1>5, <1>6
<1> QED BY <1>2, <1>7 DEF u

LEMMA ListEqual ==
    ASSUME NEW s, IsList(s), NEW t, IsList(t), Len(s) = Len(t),
           \A i \in 1 .. Len(s) : s[i] = t[i]
    PROVE  s = t
BY ListFacts

LEMMA ListExcept ==
    ASSUME NEW s, IsList(s), NEW i \in DOMAIN s, NEW e
    PROVE  LET t == [s EXCEPT ![i] = e] IN
           /\ IsList(t) /\ Len(t) = Len(s) /\ t[i] = e
           /\ \A j \in DOMAIN s : j # i => t[j] = s[j]
<1> DEFINE t == [s EXCEPT ![i] = e]
<1>1. Len(s) \in Nat /\ DOMAIN s = 1 .. Len(s)
  BY ListFacts
<1>2. t = [j \in 1 .. Len(s) |-> t[j]] /\ t[i] = e /\ \A j \in DOMAIN s : j # i => t[j] = s[j]
  BY <1>1
<1> HIDE DEF t
<1>3. IsList(t) /\ Len(t) = Len(s)
  BY <1>1, <1>2, ListOf
<1> QED BY <1>2, <1>3 DEF t

-----------------------------------------------------------------------------
(* Model values *)

\* A model value: no function, hence no digest, list or record.
IsAtom(v) == v # [x \in DOMAIN v |-> v[x]]

LEMMA AtomIsNoList ==
    ASSUME NEW v, IsAtom(v)
    PROVE  ~IsList(v)
<1> SUFFICES ASSUME IsList(v) PROVE FALSE
  OBVIOUS
<1>1. v = [i \in 1 .. Len(v) |-> v[i]] /\ DOMAIN v = 1 .. Len(v)
  BY ListFacts
<1> QED BY <1>1 DEF IsAtom
=============================================================================
