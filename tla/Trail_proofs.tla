---------------------------- MODULE Trail_proofs ----------------------------
(***************************************************************************)
(* Theorems about the hash trees of interop/aat.py, for any number of       *)
(* leaves, and about the exported audit trail and its epochs, for any keys, *)
(* ledger entries, ways of exporting, hosts and bounds.                     *)
(*                                                                         *)
(* Values are nested as deep as a tree has levels or a chain has links, so  *)
(* no set holds them: a list is said to be a sequence over some set.        *)
(***************************************************************************)
EXTENDS AATSession, EpochTree, NatRecursion, FiniteSetTheorems

-----------------------------------------------------------------------------
(* Where a tree splits *)

LEMMA SplitLoop ==
    ASSUME NEW n \in Nat
    PROVE  \E k \in [0 .. n -> Nat] :
              k[0] = 1 /\ (\A i \in 1 .. n : k[i] = Doubled(k[i - 1], n)) /\ Split(n) = k[n]
<1> DEFINE step == [i \in 1 .. n |-> [v \in Nat |-> Doubled(v, n)]]
           Loop(f) == f = [i \in 0 .. n |-> IF i = 0 THEN 1 ELSE Doubled(f[i - 1], n)]
           k == CHOOSE f : Loop(f)
<1>1. step \in [1 .. n -> [Nat -> Nat]] /\ 1 \in Nat
  BY DEF Doubled
<1>2. PICK f : f \in Runs(Nat, 1, step, n)
  <2> HIDE DEF step
  <2>1. Runs(Nat, 1, step, n) # {}
    BY <1>1, RunExists
  <2> QED BY <2>1
<1>3. f \in [0 .. n -> Nat] /\ f[0] = 1 /\ \A i \in 1 .. n : f[i] = step[i][f[i - 1]]
  BY <1>2 DEF Runs
<1>4. \A i \in 1 .. n : f[i] = Doubled(f[i - 1], n)
  <2>1. ASSUME NEW i \in 1 .. n PROVE f[i] = Doubled(f[i - 1], n)
    <3>1. f[i - 1] \in Nat
      BY <1>3
    <3> QED BY <1>3, <3>1
  <2> QED BY <2>1
<1>5. Loop(f)
  <2>1. \A i \in 0 .. n : f[i] = IF i = 0 THEN 1 ELSE Doubled(f[i - 1], n)
    BY <1>3, <1>4
  <2> QED BY <1>3, <2>1
<1>6. Loop(k)
  BY <1>5
<1>7. Split(n) = k[n]
  BY DEF Split
<1> HIDE DEF k, step
<1>8. k[0] = 1 /\ \A i \in 1 .. n : k[i] = Doubled(k[i - 1], n)
  BY <1>6
<1>9. k \in [0 .. n -> Nat]
  <2> DEFINE Counts == {i \in 0 .. n : k[i] \in Nat}
  <2>1. 0 \in Counts
    BY <1>8
  <2>2. ASSUME NEW i \in 0 .. (n - 1), i \in Counts PROVE i + 1 \in Counts
    <3>1. k[i + 1] = Doubled(k[(i + 1) - 1], n) /\ (i + 1) - 1 = i
      BY <1>8
    <3> QED BY <2>2, <3>1 DEF Doubled
  <2>3. 0 \in Int /\ n \in Int
    OBVIOUS
  <2> HIDE DEF Counts
  <2>4. \A i \in 0 .. n : i \in Counts
    BY <2>1, <2>2, <2>3, Upward
  <2>5. \A i \in 0 .. n : k[i] \in Nat
    BY <2>4 DEF Counts
  <2> QED BY <1>6, <2>5
<1> QED BY <1>7, <1>8, <1>9

LEMMA SplitBounds ==
    ASSUME NEW n \in Nat, n >= 2
    PROVE  Split(n) \in 1 .. n - 1
<1>1. PICK k \in [0 .. n -> Nat] :
         k[0] = 1 /\ (\A i \in 1 .. n : k[i] = Doubled(k[i - 1], n)) /\ Split(n) = k[n]
  BY SplitLoop
<1> DEFINE Below == {i \in 0 .. n : k[i] \in 1 .. n - 1}
<1>2. 0 \in Below
  BY <1>1
<1>3. ASSUME NEW i \in 0 .. (n - 1), i \in Below PROVE i + 1 \in Below
  <2>1. k[i + 1] = Doubled(k[i], n)
    <3>1. i + 1 \in 1 .. n /\ (i + 1) - 1 = i
      OBVIOUS
    <3> QED BY <1>1, <3>1
  <2>2. k[i] \in 1 .. n - 1 /\ i + 1 \in 0 .. n
    BY <1>3
  <2>3. Doubled(k[i], n) \in 1 .. n - 1
    BY <2>2 DEF Doubled
  <2> QED BY <2>1, <2>2, <2>3
<1>4. 0 \in Int /\ n \in Int /\ n \in 0 .. n
  OBVIOUS
<1> HIDE DEF Below
<1>5. n \in Below
  BY <1>2, <1>3, <1>4, Upward
<1> QED BY <1>1, <1>5 DEF Below

\* The widths of whole subtrees: w[h] leaves at h levels above the leaves.
IsWidths(w, N) == /\ w \in [0 .. N -> Nat] /\ w[0] = 1
                  /\ \A h \in 1 .. N : w[h] = 2 * w[h - 1]

LEMMA WidthsExist ==
    ASSUME NEW N \in Nat
    PROVE  \E w : IsWidths(w, N)
<1> DEFINE step == [h \in 1 .. N |-> [v \in Nat |-> 2 * v]]
<1>1. step \in [1 .. N -> [Nat -> Nat]] /\ 1 \in Nat
  OBVIOUS
<1>2. PICK w : w \in Runs(Nat, 1, step, N)
  <2> HIDE DEF step
  <2>1. Runs(Nat, 1, step, N) # {}
    BY <1>1, RunExists
  <2> QED BY <2>1
<1>3. w \in [0 .. N -> Nat] /\ w[0] = 1 /\ \A h \in 1 .. N : w[h] = step[h][w[h - 1]]
  BY <1>2 DEF Runs
<1>4. ASSUME NEW h \in 1 .. N PROVE w[h] = 2 * w[h - 1]
  <2>1. w[h - 1] \in Nat
    BY <1>3
  <2> QED BY <1>3, <2>1
<1> QED BY <1>3, <1>4 DEF IsWidths

LEMMA WidthsGrow ==
    ASSUME NEW N \in Nat, NEW w, IsWidths(w, N)
    PROVE  \A h \in 0 .. N : w[h] \in Nat /\ w[h] >= h + 1 /\ \A g \in 0 .. h : w[g] <= w[h]
<1> DEFINE Grows == {h \in 0 .. N : w[h] >= h + 1 /\ \A g \in 0 .. h : w[g] <= w[h]}
<1>1. 0 \in Grows
  BY DEF IsWidths
<1>2. ASSUME NEW h \in 0 .. (N - 1), h \in Grows PROVE h + 1 \in Grows
  <2>1. h + 1 \in 1 .. N /\ (h + 1) - 1 = h /\ w[h] \in Nat /\ h \in Nat
    BY DEF IsWidths
  <2>2. w[h + 1] = 2 * w[h]
    BY <2>1 DEF IsWidths
  <2>3. w[h + 1] >= (h + 1) + 1
    BY <1>2, <2>1, <2>2
  <2>4. ASSUME NEW g \in 0 .. (h + 1) PROVE w[g] <= w[h + 1]
    <3>1. CASE g = h + 1
      BY <2>1, <2>2, <3>1
    <3>2. CASE g # h + 1
      <4>1. g \in 0 .. h /\ w[g] \in Nat
        BY <3>2, <2>1 DEF IsWidths
      <4> QED BY <1>2, <2>1, <2>2, <4>1
    <3> QED BY <3>1, <3>2
  <2> QED BY <2>1, <2>3, <2>4
<1>3. 0 \in Int /\ N \in Int
  OBVIOUS
<1> HIDE DEF Grows
<1>4. \A h \in 0 .. N : h \in Grows
  BY <1>1, <1>2, <1>3, Upward
<1> QED BY <1>4 DEF Grows, IsWidths

\* A tree wider than w[h] and at most twice as wide splits at w[h].
LEMMA SplitAtWidth ==
    ASSUME NEW N \in Nat, NEW w, IsWidths(w, N), NEW h \in 0 .. N,
           NEW c \in Nat, w[h] < c, c <= 2 * w[h]
    PROVE  Split(c) = w[h]
<1>1. PICK k \in [0 .. c -> Nat] :
         k[0] = 1 /\ (\A i \in 1 .. c : k[i] = Doubled(k[i - 1], c)) /\ Split(c) = k[c]
  BY SplitLoop
<1>2. w[h] \in Nat /\ w[h] >= h + 1 /\ \A g \in 0 .. h : w[g] <= w[h]
  BY WidthsGrow
<1>3. h \in Int /\ 0 \in Int /\ c \in Int /\ h <= c /\ h \in 0 .. h /\ c \in h .. c
  BY <1>2
<1> DEFINE Same == {i \in 0 .. h : k[i] = w[i]}
<1>4. 0 \in Same
  BY <1>1 DEF IsWidths
<1>5. ASSUME NEW i \in 0 .. (h - 1), i \in Same PROVE i + 1 \in Same
  <2>1. i + 1 \in 1 .. c /\ i + 1 \in 1 .. N /\ i + 1 \in 0 .. h /\ (i + 1) - 1 = i /\ i \in 0 .. N
    BY <1>3
  <2>2. k[i + 1] = Doubled(w[i], c) /\ w[i + 1] = 2 * w[i] /\ w[i] \in Nat
    BY <1>1, <1>5, <2>1 DEF IsWidths
  <2>3. 2 * w[i] < c
    BY <1>2, <2>1, <2>2
  <2>4. Doubled(w[i], c) = 2 * w[i]
    BY <2>2, <2>3 DEF Doubled
  <2> QED BY <2>1, <2>2, <2>4
<1>6. h \in Same
  <2> HIDE DEF Same
  <2> QED BY <1>3, <1>4, <1>5, Upward
<1> DEFINE Stays == {i \in h .. c : k[i] = w[h]}
<1>7. h \in Stays
  BY <1>3, <1>6
<1>8. ASSUME NEW i \in h .. (c - 1), i \in Stays PROVE i + 1 \in Stays
  <2>1. i + 1 \in 1 .. c /\ i + 1 \in h .. c /\ (i + 1) - 1 = i
    BY <1>3
  <2>2. k[i + 1] = Doubled(w[h], c)
    BY <1>1, <1>8, <2>1
  <2>3. Doubled(w[h], c) = w[h]
    BY <1>2 DEF Doubled
  <2> QED BY <2>1, <2>2, <2>3
<1>9. c \in Stays
  <2> HIDE DEF Stays
  <2> QED BY <1>3, <1>7, <1>8, Upward
<1> QED BY <1>1, <1>9

-----------------------------------------------------------------------------
(* The recursive tree *)

\* The roots of up to m leaves.
RootsUpTo(f, ls, m) ==
    f = [n \in 1 .. m |->
           [lo \in 0 .. Len(ls) - n |->
              IF n = 1 THEN ls[lo + 1]
              ELSE Node(f[Split(n)][lo], f[n - Split(n)][lo + Split(n)])]]

LEMMA RootsDefined ==
    ASSUME NEW ls, NEW N \in Nat
    PROVE  \E f : RootsUpTo(f, ls, N)
<1> DEFINE Defined == {m \in 0 .. N : \E f : RootsUpTo(f, ls, m)}
<1>1. 0 \in Defined
  <2> DEFINE Row(x, n) == [lo \in 0 .. Len(ls) - n |->
                             IF n = 1 THEN ls[lo + 1]
                             ELSE Node(x[Split(n)][lo], x[n - Split(n)][lo + Split(n)])]
             g == [n \in 1 .. 0 |-> n]
  <2>1. g = [n \in 1 .. 0 |-> g[n]] /\ \A n \in 1 .. 0 : g[n] = Row(g, n)
    OBVIOUS
  <2>2. g = [n \in 1 .. 0 |-> Row(g, n)]
    <3> HIDE DEF Row, g
    <3> QED BY <2>1
  <2>3. RootsUpTo(g, ls, 0)
    BY <2>2 DEF RootsUpTo
  <2> QED BY <2>3
<1>2. ASSUME NEW k \in 0 .. (N - 1), k \in Defined PROVE k + 1 \in Defined
  <2>1. PICK f : RootsUpTo(f, ls, k)
    BY <1>2
  <2> DEFINE m == k + 1
             Row(x, n) == [lo \in 0 .. Len(ls) - n |->
                             IF n = 1 THEN ls[lo + 1]
                             ELSE Node(x[Split(n)][lo], x[n - Split(n)][lo + Split(n)])]
             g == [n \in 1 .. m |-> IF n = m THEN Row(f, m) ELSE f[n]]
  <2>2. m \in 0 .. N /\ m \in 1 .. m /\ k \in Nat /\ \A n \in 1 .. m : n # m => n \in 1 .. k
    OBVIOUS
  <2>3. \A n \in 1 .. k : f[n] = Row(f, n)
    BY <2>1 DEF RootsUpTo
  <2>4. g[m] = Row(f, m) /\ \A n \in 1 .. k : g[n] = f[n]
    BY <2>2
  <2>5. g = [n \in 1 .. m |-> g[n]]
    OBVIOUS
  <2> HIDE DEF g
  <2>6. ASSUME NEW n \in 1 .. m PROVE Row(f, n) = Row(g, n)
    <3>1. CASE n = 1
      BY <3>1
    <3>2. CASE n # 1
      <4>1. Split(n) \in 1 .. k /\ n - Split(n) \in 1 .. k
        <5>1. n \in Nat /\ n >= 2
          BY <3>2
        <5>2. Split(n) \in 1 .. n - 1
          BY <5>1, SplitBounds
        <5> QED BY <5>1, <5>2, <2>2
      <4>2. g[Split(n)] = f[Split(n)] /\ g[n - Split(n)] = f[n - Split(n)]
        BY <2>4, <4>1
      <4> QED BY <4>2
    <3> QED BY <3>1, <3>2
  <2>7. ASSUME NEW n \in 1 .. m PROVE g[n] = Row(g, n)
    <3> HIDE DEF Row, m
    <3> QED BY <2>2, <2>3, <2>4, <2>6
  <2>8. g = [n \in 1 .. m |-> Row(g, n)]
    <3> HIDE DEF Row, m
    <3> QED BY <2>5, <2>7
  <2>9. RootsUpTo(g, ls, m)
    BY <2>8 DEF RootsUpTo
  <2> QED BY <2>2, <2>9
<1>3. 0 \in Int /\ N \in Int /\ N \in 0 .. N
  OBVIOUS
<1>4. N \in Defined
  <2> HIDE DEF Defined
  <2> QED BY <1>1, <1>2, <1>3, Upward
<1> QED BY <1>4

LEMMA RootOfPart ==
    ASSUME NEW ls, IsList(ls)
    PROVE  /\ \A lo \in 0 .. Len(ls) - 1 : SubtreeRoot(ls, lo, 1) = ls[lo + 1]
           /\ \A c \in 2 .. Len(ls) : \A lo \in 0 .. Len(ls) - c :
                SubtreeRoot(ls, lo, c) =
                  Node(SubtreeRoot(ls, lo, Split(c)), SubtreeRoot(ls, lo + Split(c), c - Split(c)))
<1> DEFINE N == Len(ls)
           mth == CHOOSE mth : mth = [n \in 1 .. N |->
                    [lo \in 0 .. N - n |->
                       IF n = 1 THEN ls[lo + 1]
                       ELSE Node(mth[Split(n)][lo], mth[n - Split(n)][lo + Split(n)])]]
<1>1. N \in Nat
  BY ListFacts
<1>2. \E f : RootsUpTo(f, ls, N)
  BY <1>1, RootsDefined
<1>3. mth = [n \in 1 .. N |->
               [lo \in 0 .. N - n |->
                  IF n = 1 THEN ls[lo + 1]
                  ELSE Node(mth[Split(n)][lo], mth[n - Split(n)][lo + Split(n)])]]
  BY <1>2 DEF RootsUpTo
<1>4. \A lo, c : c # 0 => SubtreeRoot(ls, lo, c) = mth[c][lo]
  BY DEF SubtreeRoot
<1> HIDE DEF mth
<1>5. ASSUME NEW n \in 1 .. N, NEW lo \in 0 .. N - n
      PROVE  mth[n][lo] = IF n = 1 THEN ls[lo + 1]
                          ELSE Node(mth[Split(n)][lo], mth[n - Split(n)][lo + Split(n)])
  <2>1. mth[n] = [l \in 0 .. N - n |->
                    IF n = 1 THEN ls[l + 1]
                    ELSE Node(mth[Split(n)][l], mth[n - Split(n)][l + Split(n)])]
    BY <1>3
  <2> QED BY <2>1
<1>6. ASSUME NEW lo \in 0 .. N - 1 PROVE SubtreeRoot(ls, lo, 1) = ls[lo + 1]
  BY <1>1, <1>4, <1>5
<1>7. ASSUME NEW c \in 2 .. N, NEW lo \in 0 .. N - c
      PROVE  SubtreeRoot(ls, lo, c) =
               Node(SubtreeRoot(ls, lo, Split(c)), SubtreeRoot(ls, lo + Split(c), c - Split(c)))
  <2>1. Split(c) \in 1 .. c - 1 /\ c \in Nat /\ c \in 1 .. N
    BY <1>1, SplitBounds
  <2>2. c # 0 /\ c # 1 /\ Split(c) # 0 /\ c - Split(c) # 0
    BY <2>1
  <2>3. mth[c][lo] = Node(mth[Split(c)][lo], mth[c - Split(c)][lo + Split(c)])
    BY <1>5, <2>1, <2>2
  <2>4. /\ SubtreeRoot(ls, lo, c) = mth[c][lo]
        /\ SubtreeRoot(ls, lo, Split(c)) = mth[Split(c)][lo]
        /\ SubtreeRoot(ls, lo + Split(c), c - Split(c)) = mth[c - Split(c)][lo + Split(c)]
    BY <1>4, <2>2
  <2> QED BY <2>3, <2>4
<1> QED BY <1>6, <1>7
\* The path within n leaves from the paths within its two parts.
Turn(ls, x, lo, n, below, after) ==
    IF x - lo < Split(n)
    THEN Append(below, PathStep(SubtreeRoot(ls, lo + Split(n), n - Split(n)), "right"))
    ELSE Append(after, PathStep(SubtreeRoot(ls, lo, Split(n)), "left"))

\* The paths of leaf x within up to m leaves.
PathsUpTo(f, ls, x, m) ==
    f = [n \in 1 .. m |->
           [lo \in 0 .. Len(ls) - n |->
              IF n = 1 THEN << >>
              ELSE Turn(ls, x, lo, n, f[Split(n)][lo], f[n - Split(n)][lo + Split(n)])]]

LEMMA PathsDefined ==
    ASSUME NEW ls, NEW x, NEW N \in Nat
    PROVE  \E f : PathsUpTo(f, ls, x, N)
<1> DEFINE Defined == {m \in 0 .. N : \E f : PathsUpTo(f, ls, x, m)}
<1>1. 0 \in Defined
  <2> DEFINE Row(y, n) == [lo \in 0 .. Len(ls) - n |->
                             IF n = 1 THEN << >>
                             ELSE Turn(ls, x, lo, n, y[Split(n)][lo], y[n - Split(n)][lo + Split(n)])]
             g == [n \in 1 .. 0 |-> n]
  <2>1. g = [n \in 1 .. 0 |-> g[n]] /\ \A n \in 1 .. 0 : g[n] = Row(g, n)
    OBVIOUS
  <2>2. g = [n \in 1 .. 0 |-> Row(g, n)]
    <3> HIDE DEF Row, g
    <3> QED BY <2>1
  <2>3. PathsUpTo(g, ls, x, 0)
    BY <2>2 DEF PathsUpTo
  <2> QED BY <2>3
<1>2. ASSUME NEW k \in 0 .. (N - 1), k \in Defined PROVE k + 1 \in Defined
  <2>1. PICK f : PathsUpTo(f, ls, x, k)
    BY <1>2
  <2> DEFINE m == k + 1
             Row(y, n) == [lo \in 0 .. Len(ls) - n |->
                             IF n = 1 THEN << >>
                             ELSE Turn(ls, x, lo, n, y[Split(n)][lo], y[n - Split(n)][lo + Split(n)])]
             g == [n \in 1 .. m |-> IF n = m THEN Row(f, m) ELSE f[n]]
  <2>2. m \in 0 .. N /\ m \in 1 .. m /\ k \in Nat /\ \A n \in 1 .. m : n # m => n \in 1 .. k
    OBVIOUS
  <2>3. \A n \in 1 .. k : f[n] = Row(f, n)
    BY <2>1 DEF PathsUpTo
  <2>4. g[m] = Row(f, m) /\ \A n \in 1 .. k : g[n] = f[n]
    BY <2>2
  <2>5. g = [n \in 1 .. m |-> g[n]]
    OBVIOUS
  <2> HIDE DEF g
  <2>6. ASSUME NEW n \in 1 .. m PROVE Row(f, n) = Row(g, n)
    <3>1. CASE n = 1
      BY <3>1
    <3>2. CASE n # 1
      <4>1. Split(n) \in 1 .. k /\ n - Split(n) \in 1 .. k
        <5>1. n \in Nat /\ n >= 2
          BY <3>2
        <5>2. Split(n) \in 1 .. n - 1
          BY <5>1, SplitBounds
        <5> QED BY <5>1, <5>2, <2>2
      <4>2. g[Split(n)] = f[Split(n)] /\ g[n - Split(n)] = f[n - Split(n)]
        BY <2>4, <4>1
      <4> QED BY <4>2
    <3> QED BY <3>1, <3>2
  <2>7. ASSUME NEW n \in 1 .. m PROVE g[n] = Row(g, n)
    <3> HIDE DEF Row, m
    <3> QED BY <2>2, <2>3, <2>4, <2>6
  <2>8. g = [n \in 1 .. m |-> Row(g, n)]
    <3> HIDE DEF Row, m
    <3> QED BY <2>5, <2>7
  <2>9. PathsUpTo(g, ls, x, m)
    BY <2>8 DEF PathsUpTo
  <2> QED BY <2>2, <2>9
<1>3. 0 \in Int /\ N \in Int /\ N \in 0 .. N
  OBVIOUS
<1>4. N \in Defined
  <2> HIDE DEF Defined
  <2> QED BY <1>1, <1>2, <1>3, Upward
<1> QED BY <1>4

LEMMA PathOfPart ==
    ASSUME NEW ls, IsList(ls), NEW x
    PROVE  /\ \A lo \in 0 .. Len(ls) - 1 : SubtreePath(ls, x, lo, 1) = << >>
           /\ \A c \in 2 .. Len(ls) : \A lo \in 0 .. Len(ls) - c :
                SubtreePath(ls, x, lo, c) =
                  Turn(ls, x, lo, c, SubtreePath(ls, x, lo, Split(c)),
                       SubtreePath(ls, x, lo + Split(c), c - Split(c)))
<1> DEFINE N == Len(ls)
           path == CHOOSE path : path = [n \in 1 .. N |->
                    [lo \in 0 .. N - n |->
                       IF n = 1 THEN << >>
                       ELSE IF x - lo < Split(n)
                       THEN Append(path[Split(n)][lo],
                                   PathStep(SubtreeRoot(ls, lo + Split(n), n - Split(n)), "right"))
                       ELSE Append(path[n - Split(n)][lo + Split(n)],
                                   PathStep(SubtreeRoot(ls, lo, Split(n)), "left"))]]
<1>1. N \in Nat
  BY ListFacts
<1>2. \E f : PathsUpTo(f, ls, x, N)
  BY <1>1, PathsDefined
<1>3. path = [n \in 1 .. N |->
               [lo \in 0 .. N - n |->
                  IF n = 1 THEN << >>
                  ELSE IF x - lo < Split(n)
                  THEN Append(path[Split(n)][lo],
                              PathStep(SubtreeRoot(ls, lo + Split(n), n - Split(n)), "right"))
                  ELSE Append(path[n - Split(n)][lo + Split(n)],
                              PathStep(SubtreeRoot(ls, lo, Split(n)), "left"))]]
  BY <1>2 DEF PathsUpTo, Turn
<1>4. \A lo, c : SubtreePath(ls, x, lo, c) = path[c][lo]
  BY DEF SubtreePath
<1> HIDE DEF path
<1>5. ASSUME NEW n \in 1 .. N, NEW lo \in 0 .. N - n
      PROVE  path[n][lo] = IF n = 1 THEN << >>
                           ELSE Turn(ls, x, lo, n, path[Split(n)][lo],
                                     path[n - Split(n)][lo + Split(n)])
  <2>1. path[n] = [l \in 0 .. N - n |->
                    IF n = 1 THEN << >>
                    ELSE IF x - l < Split(n)
                    THEN Append(path[Split(n)][l],
                                PathStep(SubtreeRoot(ls, l + Split(n), n - Split(n)), "right"))
                    ELSE Append(path[n - Split(n)][l + Split(n)],
                                PathStep(SubtreeRoot(ls, l, Split(n)), "left"))]
    BY <1>3
  <2> QED BY <2>1 DEF Turn
<1>6. ASSUME NEW lo \in 0 .. N - 1 PROVE SubtreePath(ls, x, lo, 1) = << >>
  BY <1>1, <1>4, <1>5
<1>7. ASSUME NEW c \in 2 .. N, NEW lo \in 0 .. N - c
      PROVE  SubtreePath(ls, x, lo, c) =
               Turn(ls, x, lo, c, SubtreePath(ls, x, lo, Split(c)),
                    SubtreePath(ls, x, lo + Split(c), c - Split(c)))
  <2>1. c \in 1 .. N /\ c # 1
    BY <1>1
  <2>2. path[c][lo] = Turn(ls, x, lo, c, path[Split(c)][lo], path[c - Split(c)][lo + Split(c)])
    BY <1>5, <2>1
  <2> QED BY <1>4, <2>2
<1> QED BY <1>6, <1>7

-----------------------------------------------------------------------------
(* What a path leads to *)

JoinsUpTo(f, leaf, p, n) == f = [k \in 0 .. n |-> IF k = 0 THEN leaf ELSE Join(f[k - 1], p[k])]

LEMMA JoinsDefined ==
    ASSUME NEW leaf, NEW p, NEW n \in Nat
    PROVE  \E f : JoinsUpTo(f, leaf, p, n)
<1> DEFINE Defined == {m \in 0 .. n : \E f : JoinsUpTo(f, leaf, p, m)}
<1>1. 0 \in Defined
  <2> DEFINE g == [k \in 0 .. 0 |-> leaf]
  <2>1. JoinsUpTo(g, leaf, p, 0)
    BY DEF JoinsUpTo
  <2> QED BY <2>1
<1>2. ASSUME NEW j \in 0 .. (n - 1), j \in Defined PROVE j + 1 \in Defined
  <2>1. PICK f : JoinsUpTo(f, leaf, p, j)
    BY <1>2
  <2> DEFINE m == j + 1
             g == [k \in 0 .. m |-> IF k = m THEN Join(f[j], p[m]) ELSE f[k]]
  <2>2. m \in 0 .. n /\ m # 0 /\ m - 1 = j /\ \A k \in 0 .. m : k # m => k \in 0 .. j
    OBVIOUS
  <2>3. \A k \in 0 .. j : f[k] = IF k = 0 THEN leaf ELSE Join(f[k - 1], p[k])
    BY <2>1 DEF JoinsUpTo
  <2>4. ASSUME NEW k \in 0 .. m PROVE g[k] = IF k = 0 THEN leaf ELSE Join(g[k - 1], p[k])
    <3>1. CASE k = m
      <4>1. g[m] = Join(f[j], p[m]) /\ m \in 0 .. m
        OBVIOUS
      <4>2. j \in 0 .. m /\ j # m /\ g[j] = f[j]
        OBVIOUS
      <4> QED BY <2>2, <3>1, <4>1, <4>2
    <3>2. CASE k # m
      <4>1. k \in 0 .. j /\ g[k] = f[k]
        BY <2>2, <3>2
      <4>2. k # 0 => k - 1 \in 0 .. m /\ k - 1 # m
        BY <2>2, <4>1
      <4>3. k # 0 => g[k - 1] = f[k - 1]
        BY <4>2
      <4> QED BY <2>3, <4>1, <4>3
    <3> QED BY <3>1, <3>2
  <2>5. g = [k \in 0 .. m |-> g[k]]
    OBVIOUS
  <2> HIDE DEF g
  <2>6. JoinsUpTo(g, leaf, p, m)
    BY <2>4, <2>5 DEF JoinsUpTo
  <2> QED BY <2>2, <2>6
<1>3. 0 \in Int /\ n \in Int /\ n \in 0 .. n
  OBVIOUS
<1>4. n \in Defined
  <2> HIDE DEF Defined
  <2> QED BY <1>1, <1>2, <1>3, Upward
<1> QED BY <1>4

LEMMA RootByJoins ==
    ASSUME NEW leaf, NEW p, IsList(p)
    PROVE  \E f : JoinsUpTo(f, leaf, p, Len(p)) /\ RootFromPath(leaf, p) = f[Len(p)]
<1> DEFINE h == CHOOSE h : h = [k \in 0 .. Len(p) |-> IF k = 0 THEN leaf ELSE Join(h[k - 1], p[k])]
<1>1. \E f : JoinsUpTo(f, leaf, p, Len(p))
  BY ListFacts, JoinsDefined
<1>2. JoinsUpTo(h, leaf, p, Len(p))
  BY <1>1 DEF JoinsUpTo
<1>3. RootFromPath(leaf, p) = h[Len(p)]
  BY DEF RootFromPath
<1> QED BY <1>2, <1>3

\* One step more joins the step's hash to what the path led to.
LEMMA RootFromAppend ==
    ASSUME NEW leaf, NEW p, IsList(p), NEW s
    PROVE  RootFromPath(leaf, Append(p, s)) = Join(RootFromPath(leaf, p), s)
<1> DEFINE q == Append(p, s)
           n == Len(p)
<1>1. /\ IsList(q) /\ Len(q) = n + 1 /\ q[n + 1] = s /\ n \in Nat
      /\ \A k \in 1 .. n : q[k] = p[k]
  BY ListAppend, ListFacts
<1> HIDE DEF q
<1>2. PICK f : JoinsUpTo(f, leaf, p, n) /\ RootFromPath(leaf, p) = f[n]
  BY RootByJoins
<1>3. PICK g : JoinsUpTo(g, leaf, q, n + 1) /\ RootFromPath(leaf, q) = g[n + 1]
  BY <1>1, RootByJoins
<1>4. \A k \in 0 .. n : f[k] = IF k = 0 THEN leaf ELSE Join(f[k - 1], p[k])
  BY <1>2 DEF JoinsUpTo
<1>5. \A k \in 0 .. (n + 1) : g[k] = IF k = 0 THEN leaf ELSE Join(g[k - 1], q[k])
  BY <1>3 DEF JoinsUpTo
<1> HIDE DEF n
<1> DEFINE Same == {k \in 0 .. n : f[k] = g[k]}
<1>6. 0 \in Same
  BY <1>1, <1>4, <1>5
<1>7. ASSUME NEW k \in 0 .. (n - 1), k \in Same PROVE k + 1 \in Same
  <2>1. /\ k + 1 \in 0 .. n /\ k + 1 \in 1 .. n /\ k + 1 \in 0 .. (n + 1)
        /\ k + 1 # 0 /\ (k + 1) - 1 = k
    BY <1>1
  <2>2. f[k + 1] = Join(f[k], p[k + 1]) /\ g[k + 1] = Join(g[k], q[k + 1])
    BY <1>4, <1>5, <2>1
  <2> QED BY <1>1, <1>7, <2>1, <2>2
<1>8. n \in Same
  <2>1. 0 \in Int /\ n \in Int /\ n \in 0 .. n
    BY <1>1
  <2> HIDE DEF Same
  <2> QED BY <1>6, <1>7, <2>1, Upward
<1>9. g[n + 1] = Join(g[n], q[n + 1])
  <2>1. n + 1 \in 0 .. (n + 1) /\ n + 1 # 0 /\ (n + 1) - 1 = n
    BY <1>1
  <2> QED BY <1>5, <2>1
<1> QED BY <1>1, <1>2, <1>3, <1>8, <1>9 DEF q

LEMMA EmptyIsList == IsList(<< >>) /\ Len(<< >>) = 0
<1>1. << >> \in Seq({0}) /\ Len(<< >>) = 0
  OBVIOUS
<1> QED BY <1>1 DEF IsList

LEMMA RootFromNone ==
    ASSUME NEW leaf
    PROVE  RootFromPath(leaf, << >>) = leaf
<1>1. PICK f : JoinsUpTo(f, leaf, << >>, 0) /\ RootFromPath(leaf, << >>) = f[0]
  BY EmptyIsList, RootByJoins
<1>2. f = [k \in 0 .. 0 |-> IF k = 0 THEN leaf ELSE Join(f[k - 1], << >>[k])]
  BY <1>1 DEF JoinsUpTo
<1> QED BY <1>1, <1>2


-----------------------------------------------------------------------------
(* The index a path proves *)

DescentsUpTo(f, p, part, n) ==
    f = [d \in 0 .. n |-> IF d = 0 THEN part ELSE Descend(f[d - 1], p[Len(p) - d + 1])]

LEMMA DescentsDefined ==
    ASSUME NEW part, NEW p, NEW n \in Nat
    PROVE  \E f : DescentsUpTo(f, p, part, n)
<1> DEFINE Defined == {m \in 0 .. n : \E f : DescentsUpTo(f, p, part, m)}
           S(d) == p[Len(p) - d + 1]
<1>1. 0 \in Defined
  <2> DEFINE g == [d \in 0 .. 0 |-> part]
  <2>1. DescentsUpTo(g, p, part, 0)
    BY DEF DescentsUpTo
  <2> QED BY <2>1
<1>2. ASSUME NEW j \in 0 .. (n - 1), j \in Defined PROVE j + 1 \in Defined
  <2>1. PICK f : DescentsUpTo(f, p, part, j)
    BY <1>2
  <2> DEFINE m == j + 1
             g == [d \in 0 .. m |-> IF d = m THEN Descend(f[j], S(m)) ELSE f[d]]
  <2>2. m \in 0 .. n /\ m # 0 /\ m - 1 = j /\ \A d \in 0 .. m : d # m => d \in 0 .. j
    OBVIOUS
  <2>3. \A d \in 0 .. j : f[d] = IF d = 0 THEN part ELSE Descend(f[d - 1], S(d))
    BY <2>1 DEF DescentsUpTo
  <2> HIDE DEF S
  <2>4. \A d \in 0 .. m : g[d] = IF d = 0 THEN part ELSE Descend(g[d - 1], S(d))
    BY <2>2, <2>3
  <2>5. g = [d \in 0 .. m |-> g[d]]
    OBVIOUS
  <2> HIDE DEF g
  <2>6. DescentsUpTo(g, p, part, m)
    BY <2>4, <2>5 DEF DescentsUpTo, S
  <2> QED BY <2>2, <2>6
<1>3. 0 \in Int /\ n \in Int /\ n \in 0 .. n
  OBVIOUS
<1>4. n \in Defined
  <2> HIDE DEF Defined
  <2> QED BY <1>1, <1>2, <1>3, Upward
<1> QED BY <1>4

IndexAt(part) == IF part.size = 1 THEN part.lo ELSE NoIndex

LEMMA IndexByDescents ==
    ASSUME NEW p, IsList(p), NEW part
    PROVE  \E f : DescentsUpTo(f, p, part, Len(p)) /\ IndexWithin(p, part) = IndexAt(f[Len(p)])
<1> DEFINE at == CHOOSE at : at = [d \in 0 .. Len(p) |->
                    IF d = 0 THEN part ELSE Descend(at[d - 1], p[Len(p) - d + 1])]
<1>1. \E f : DescentsUpTo(f, p, part, Len(p))
  BY ListFacts, DescentsDefined
<1>2. DescentsUpTo(at, p, part, Len(p))
  BY <1>1 DEF DescentsUpTo
<1>3. IndexWithin(p, part) = IndexAt(at[Len(p)])
  BY DEF IndexWithin, IndexAt
<1> QED BY <1>2, <1>3

LEMMA IndexOfNone ==
    ASSUME NEW part
    PROVE  IndexWithin(<< >>, part) = IndexAt(part)
<1>1. PICK f : DescentsUpTo(f, << >>, part, 0) /\ IndexWithin(<< >>, part) = IndexAt(f[0])
  BY EmptyIsList, IndexByDescents
<1>2. f = [d \in 0 .. 0 |->
             IF d = 0 THEN part ELSE Descend(f[d - 1], << >>[Len(<< >>) - d + 1])]
  BY <1>1 DEF DescentsUpTo
<1> QED BY <1>1, <1>2

\* The last step is the first of the descent.
LEMMA IndexOfAppend ==
    ASSUME NEW p, IsList(p), NEW s, NEW part
    PROVE  IndexWithin(Append(p, s), part) = IndexWithin(p, Descend(part, s))
<1> DEFINE q == Append(p, s)
           n == Len(p)
           half == Descend(part, s)
<1>1. /\ IsList(q) /\ Len(q) = n + 1 /\ q[n + 1] = s /\ n \in Nat
      /\ \A k \in 1 .. n : q[k] = p[k]
  BY ListAppend, ListFacts
<1> HIDE DEF q
<1>2. PICK f : DescentsUpTo(f, p, half, n) /\ IndexWithin(p, half) = IndexAt(f[n])
  BY IndexByDescents
<1>3. PICK g : DescentsUpTo(g, q, part, n + 1) /\ IndexWithin(q, part) = IndexAt(g[n + 1])
  BY <1>1, IndexByDescents
<1>4. \A d \in 0 .. n : f[d] = IF d = 0 THEN half ELSE Descend(f[d - 1], p[n - d + 1])
  BY <1>2 DEF DescentsUpTo
<1>5. \A d \in 0 .. (n + 1) :
         g[d] = IF d = 0 THEN part ELSE Descend(g[d - 1], q[(n + 1) - d + 1])
  BY <1>1, <1>3 DEF DescentsUpTo
<1> HIDE DEF n
<1> DEFINE Same == {d \in 0 .. n : g[d + 1] = f[d]}
<1>6. 0 \in Same
  <2>1. 1 \in 0 .. (n + 1) /\ 0 \in 0 .. (n + 1) /\ (n + 1) - 1 + 1 = n + 1 /\ 0 \in 0 .. n
        /\ 1 - 1 = 0 /\ 0 + 1 = 1
    BY <1>1
  <2>2. g[1] = Descend(g[0], q[n + 1]) /\ g[0] = part /\ f[0] = half
    BY <1>4, <1>5, <2>1
  <2> QED BY <1>1, <2>1, <2>2
<1>7. ASSUME NEW d \in 0 .. (n - 1), d \in Same PROVE d + 1 \in Same
  <2>1. /\ d + 1 \in 0 .. n /\ (d + 1) + 1 \in 0 .. (n + 1) /\ d + 1 # 0 /\ (d + 1) + 1 # 0
        /\ (d + 1) - 1 = d /\ ((d + 1) + 1) - 1 = d + 1
        /\ n - (d + 1) + 1 = n - d /\ (n + 1) - ((d + 1) + 1) + 1 = n - d /\ n - d \in 1 .. n
    BY <1>1
  <2>2. f[d + 1] = Descend(f[d], p[n - d]) /\ g[(d + 1) + 1] = Descend(g[d + 1], q[n - d])
    BY <1>4, <1>5, <2>1
  <2> QED BY <1>1, <1>7, <2>1, <2>2
<1>8. n \in Same
  <2>1. 0 \in Int /\ n \in Int /\ n \in 0 .. n
    BY <1>1
  <2> HIDE DEF Same
  <2> QED BY <1>6, <1>7, <2>1, Upward
<1> QED BY <1>2, <1>3, <1>8 DEF q

LEMMA DescendTo ==
    ASSUME NEW lo \in Int, NEW size \in Nat, NEW s
    PROVE  /\ size <= 1 => Descend(Part(lo, size), s) = Part(NoIndex, 0)
           /\ size > 1 => /\ Split(size) \in 1 .. size - 1
                          /\ s.side = "right" =>
                               Descend(Part(lo, size), s) = Part(lo, Split(size))
                          /\ s.side # "right" =>
                               Descend(Part(lo, size), s)
                                 = Part(lo + Split(size), size - Split(size))
<1>1. Part(lo, size).lo = lo /\ Part(lo, size).size = size
  BY DEF Part
<1>2. size <= 1 => Descend(Part(lo, size), s) = Part(NoIndex, 0)
  BY <1>1 DEF Descend
<1>3. ASSUME size > 1
      PROVE  /\ Split(size) \in 1 .. size - 1
             /\ s.side = "right" => Descend(Part(lo, size), s) = Part(lo, Split(size))
             /\ s.side # "right" => Descend(Part(lo, size), s)
                                      = Part(lo + Split(size), size - Split(size))
  <2>1. size >= 2 /\ ~(size <= 1)
    BY <1>3
  <2>2. Split(size) \in 1 .. size - 1
    BY <2>1, SplitBounds
  <2> QED BY <1>1, <2>1, <2>2 DEF Descend
<1> QED BY <1>2, <1>3

-----------------------------------------------------------------------------
(* A leaf's path leads to the root and proves the leaf's index *)

Fits(ls, lo, c) ==
    \A x \in lo .. lo + c - 1 :
      /\ IsList(SubtreePath(ls, x, lo, c))
      /\ RootFromPath(ls[x + 1], SubtreePath(ls, x, lo, c)) = SubtreeRoot(ls, lo, c)
      /\ IndexWithin(SubtreePath(ls, x, lo, c), Part(lo, c)) = x

LEMMA PathsFit ==
    ASSUME NEW ls, IsList(ls)
    PROVE  \A c \in 1 .. Len(ls) : \A lo \in 0 .. Len(ls) - c : Fits(ls, lo, c)
<1> DEFINE N == Len(ls)
           P(x, lo, c) == SubtreePath(ls, x, lo, c)
           R(lo, c) == SubtreeRoot(ls, lo, c)
           Holds == {c \in 1 .. N : \A lo \in 0 .. N - c : Fits(ls, lo, c)}
<1>1. N \in Nat
  BY ListFacts
<1>2. ASSUME NEW c \in 1 .. N, \A d \in 1 .. (c - 1) : d \in Holds
      PROVE  c \in Holds
  <2> SUFFICES ASSUME NEW lo \in 0 .. N - c, NEW x \in lo .. lo + c - 1
               PROVE  /\ IsList(P(x, lo, c))
                      /\ RootFromPath(ls[x + 1], P(x, lo, c)) = R(lo, c)
                      /\ IndexWithin(P(x, lo, c), Part(lo, c)) = x
    BY DEF Fits
  <2>1. CASE c = 1
    <3>1. lo \in 0 .. N - 1 /\ x = lo
      BY <1>1, <2>1
    <3>2. P(x, lo, 1) = << >> /\ R(lo, 1) = ls[lo + 1]
      BY <3>1, PathOfPart, RootOfPart
    <3>3. IndexAt(Part(lo, 1)) = lo
      BY DEF IndexAt, Part
    <3> QED BY <2>1, <3>1, <3>2, <3>3, EmptyIsList, RootFromNone, IndexOfNone
  <2>2. CASE c # 1
    <3> DEFINE k == Split(c)
    <3>1. c \in 2 .. N /\ c \in Nat /\ c >= 2 /\ c > 1 /\ lo \in Int
      BY <1>1, <2>2
    <3>2. k \in 1 .. c - 1
      BY <3>1, SplitBounds
    <3>3. /\ P(x, lo, c) = Turn(ls, x, lo, c, P(x, lo, k), P(x, lo + k, c - k))
          /\ R(lo, c) = Node(R(lo, k), R(lo + k, c - k))
      BY <3>1, PathOfPart, RootOfPart
    <3>4. /\ k \in 1 .. (c - 1) /\ lo \in 0 .. N - k
          /\ c - k \in 1 .. (c - 1) /\ lo + k \in 0 .. N - (c - k)
      BY <1>1, <3>1, <3>2
    <3>5. Fits(ls, lo, k) /\ Fits(ls, lo + k, c - k)
      BY <1>2, <3>4
    <3>6. CASE x - lo < k
      <4> DEFINE s == PathStep(R(lo + k, c - k), "right")
                 p == P(x, lo, k)
      <4>1. P(x, lo, c) = Append(p, s)
        BY <3>3, <3>6 DEF Turn
      <4>2. x \in lo .. lo + k - 1
        BY <3>1, <3>2, <3>6
      <4>3. IsList(p) /\ RootFromPath(ls[x + 1], p) = R(lo, k) /\ IndexWithin(p, Part(lo, k)) = x
        BY <3>5, <4>2 DEF Fits
      <4>4. s.side = "right" /\ s.hash = R(lo + k, c - k)
        BY DEF PathStep
      <4> HIDE DEF p, s, P, R, k
      <4>5. IsList(Append(p, s)) /\ RootFromPath(ls[x + 1], Append(p, s)) = Join(R(lo, k), s)
            /\ IndexWithin(Append(p, s), Part(lo, c)) = IndexWithin(p, Descend(Part(lo, c), s))
        BY <4>3, ListAppend, RootFromAppend, IndexOfAppend
      <4>6. Join(R(lo, k), s) = Node(R(lo, k), R(lo + k, c - k))
        BY <4>4 DEF Join
      <4>7. Descend(Part(lo, c), s) = Part(lo, k)
        BY <3>1, <4>4, DescendTo DEF k
      <4> QED BY <3>3, <4>1, <4>3, <4>5, <4>6, <4>7
    <3>7. CASE ~(x - lo < k)
      <4> DEFINE s == PathStep(R(lo, k), "left")
                 p == P(x, lo + k, c - k)
      <4>1. P(x, lo, c) = Append(p, s)
        BY <3>3, <3>7 DEF Turn
      <4>2. x \in lo + k .. (lo + k) + (c - k) - 1
        BY <3>1, <3>2, <3>7
      <4>3. /\ IsList(p) /\ RootFromPath(ls[x + 1], p) = R(lo + k, c - k)
            /\ IndexWithin(p, Part(lo + k, c - k)) = x
        BY <3>5, <4>2 DEF Fits
      <4>4. s.side = "left" /\ s.side # "right" /\ s.hash = R(lo, k)
        BY DEF PathStep
      <4> HIDE DEF p, s, P, R, k
      <4>5. IsList(Append(p, s)) /\ RootFromPath(ls[x + 1], Append(p, s)) = Join(R(lo + k, c - k), s)
            /\ IndexWithin(Append(p, s), Part(lo, c)) = IndexWithin(p, Descend(Part(lo, c), s))
        BY <4>3, ListAppend, RootFromAppend, IndexOfAppend
      <4>6. Join(R(lo + k, c - k), s) = Node(R(lo, k), R(lo + k, c - k))
        BY <4>4 DEF Join
      <4>7. Descend(Part(lo, c), s) = Part(lo + k, c - k)
        BY <3>1, <4>4, DescendTo DEF k
      <4> QED BY <3>3, <4>1, <4>3, <4>5, <4>6, <4>7
    <3> QED BY <3>6, <3>7
  <2> QED BY <2>1, <2>2
<1>3. \A c \in 1 .. N : c \in Holds
  <2> HIDE DEF Holds, N
  <2> QED BY <1>1, <1>2, FromBelow
<1> QED BY <1>3


-----------------------------------------------------------------------------
(* Different leaves, different paths *)

LEMMA NodeParts ==
    /\ \A a, b, c, d : Node(a, b) = Node(c, d) => a = c /\ b = d
    /\ \A a, b, c : LeafHash(c) # Node(a, b)
<1>1. ASSUME NEW a, NEW b, NEW c, NEW d, Node(a, b) = Node(c, d) PROVE a = c /\ b = d
  BY <1>1 DEF Node
<1>2. ASSUME NEW a, NEW b, NEW c PROVE LeafHash(c) # Node(a, b)
  <2>1. LeafHash(c)[1] = "leaf" /\ Node(a, b)[1] = "node"
    BY DEF LeafHash, Node
  <2> QED BY <2>1
<1> QED BY <1>1, <1>2

LEMMA PathIsOneLeafs ==
    ASSUME NEW p, IsList(p), NEW a, NEW b, RootFromPath(a, p) = RootFromPath(b, p)
    PROVE  a = b
<1> DEFINE N == Len(p)
           Holds == {n \in 0 .. N : \A q : IsList(q) /\ Len(q) = n
                                      /\ RootFromPath(a, q) = RootFromPath(b, q) => a = b}
<1>1. N \in Nat
  BY ListFacts
<1>2. 0 \in Holds
  <2>1. ASSUME NEW q, IsList(q), Len(q) = 0 PROVE q = << >>
    BY <2>1, EmptyIsList, ListEqual
  <2> QED BY <1>1, <2>1, RootFromNone
<1>3. ASSUME NEW n \in 0 .. (N - 1), n \in Holds PROVE n + 1 \in Holds
  <2>1. ASSUME NEW q, IsList(q), Len(q) = n + 1, RootFromPath(a, q) = RootFromPath(b, q)
        PROVE  a = b
    <3>1. PICK t, s : IsList(t) /\ q = Append(t, s) /\ Len(t) = (n + 1) - 1
      BY <2>1, ListLast
    <3>2. Join(RootFromPath(a, t), s) = Join(RootFromPath(b, t), s)
      BY <2>1, <3>1, RootFromAppend
    <3>3. RootFromPath(a, t) = RootFromPath(b, t)
      BY <3>2, NodeParts DEF Join
    <3> QED BY <1>3, <3>1, <3>3
  <2> QED BY <1>1, <2>1
<1>4. 0 \in Int /\ N \in Int /\ N \in 0 .. N
  BY <1>1
<1>5. N \in Holds
  <2> HIDE DEF Holds, N
  <2> QED BY <1>2, <1>3, <1>4, Upward
<1> QED BY <1>5

LEMMA EmptyOrLast ==
    ASSUME NEW p, IsList(p)
    PROVE  \/ p = << >> /\ Len(p) = 0
           \/ \E t, s : IsList(t) /\ p = Append(t, s) /\ Len(t) = Len(p) - 1
<1>1. CASE Len(p) = 0
  BY <1>1, EmptyIsList, ListEqual
<1>2. CASE Len(p) # 0
  BY <1>2, ListLast
<1> QED BY <1>1, <1>2

\* A proved index lies in the part the path was read in.
Lies(p) == \A lo \in Int, size \in Nat :
              \/ IndexWithin(p, Part(lo, size)) = NoIndex
              \/ IndexWithin(p, Part(lo, size)) \in lo .. lo + size - 1

LEMMA IndexLies ==
    ASSUME NEW p, IsList(p)
    PROVE  Lies(p)
<1> DEFINE N == Len(p)
           Holds == {n \in 0 .. N : \A q : IsList(q) /\ Len(q) = n => Lies(q)}
<1>1. N \in Nat
  BY ListFacts
<1>2. 0 \in Holds
  <2>1. ASSUME NEW q, IsList(q), Len(q) = 0, NEW lo \in Int, NEW size \in Nat
        PROVE  \/ IndexWithin(q, Part(lo, size)) = NoIndex
               \/ IndexWithin(q, Part(lo, size)) \in lo .. lo + size - 1
    <3>1. q = << >>
      BY <2>1, EmptyIsList, ListEqual
    <3>2. IndexWithin(q, Part(lo, size)) = IF size = 1 THEN lo ELSE NoIndex
      BY <3>1, IndexOfNone DEF IndexAt, Part
    <3>3. size = 1 => lo \in lo .. lo + size - 1
      BY <2>1
    <3> QED BY <3>2, <3>3
  <2> QED BY <1>1, <2>1 DEF Lies
<1>3. ASSUME NEW n \in 0 .. (N - 1), n \in Holds PROVE n + 1 \in Holds
  <2>1. ASSUME NEW q, IsList(q), Len(q) = n + 1, NEW lo \in Int, NEW size \in Nat
        PROVE  \/ IndexWithin(q, Part(lo, size)) = NoIndex
               \/ IndexWithin(q, Part(lo, size)) \in lo .. lo + size - 1
    <3>1. PICK t, s : IsList(t) /\ q = Append(t, s) /\ Len(t) = (n + 1) - 1
      BY <2>1, ListLast
    <3>2. Lies(t) /\ IndexWithin(q, Part(lo, size)) = IndexWithin(t, Descend(Part(lo, size), s))
      BY <1>3, <3>1, IndexOfAppend
    <3> DEFINE k == Split(size)
    <3>3. CASE size <= 1
      <4>1. Descend(Part(lo, size), s) = Part(NoIndex, 0) /\ NoIndex \in Int
        BY <3>3, DescendTo DEF NoIndex
      <4>2. \/ IndexWithin(t, Part(NoIndex, 0)) = NoIndex
            \/ IndexWithin(t, Part(NoIndex, 0)) \in NoIndex .. NoIndex + 0 - 1
        BY <3>2, <4>1 DEF Lies
      <4>3. ASSUME NEW i \in NoIndex .. NoIndex + 0 - 1 PROVE FALSE
        BY <4>1
      <4> QED BY <3>2, <4>1, <4>2, <4>3
    <3>4. CASE size > 1 /\ s.side = "right"
      <4>1. k \in 1 .. size - 1 /\ Descend(Part(lo, size), s) = Part(lo, k)
        BY <3>4, DescendTo
      <4> HIDE DEF k
      <4>2. \/ IndexWithin(t, Part(lo, k)) = NoIndex
            \/ IndexWithin(t, Part(lo, k)) \in lo .. lo + k - 1
        BY <3>2, <4>1 DEF Lies
      <4> QED BY <3>2, <4>1, <4>2
    <3>5. CASE size > 1 /\ s.side # "right"
      <4>1. k \in 1 .. size - 1 /\ Descend(Part(lo, size), s) = Part(lo + k, size - k)
        BY <3>5, DescendTo
      <4> HIDE DEF k
      <4>2. \/ IndexWithin(t, Part(lo + k, size - k)) = NoIndex
            \/ IndexWithin(t, Part(lo + k, size - k)) \in lo + k .. (lo + k) + (size - k) - 1
        BY <3>2, <4>1 DEF Lies
      <4> QED BY <3>2, <4>1, <4>2
    <3> QED BY <3>3, <3>4, <3>5
  <2> QED BY <1>1, <2>1 DEF Lies
<1>4. 0 \in Int /\ N \in Int /\ N \in 0 .. N
  BY <1>1
<1>5. N \in Holds
  <2> HIDE DEF Holds, N
  <2> QED BY <1>2, <1>3, <1>4, Upward
<1> QED BY <1>5

\* Paths that prove one index somewhere prove one index everywhere.
Agree(p, q) ==
    \A lo \in Int, size \in Nat :
      IndexWithin(p, Part(lo, size)) = IndexWithin(q, Part(lo, size))
        /\ IndexWithin(p, Part(lo, size)) # NoIndex
      => \A at \in Int, n \in Nat :
           IndexWithin(p, Part(at, n)) = IndexWithin(q, Part(at, n))

LEMMA DescendsToPart ==
    ASSUME NEW lo \in Int, NEW size \in Nat, NEW s
    PROVE  \E l \in Int, n \in Nat : Descend(Part(lo, size), s) = Part(l, n)
<1>1. CASE size <= 1
  <2>1. Descend(Part(lo, size), s) = Part(NoIndex, 0)
    BY <1>1, DescendTo
  <2>2. NoIndex \in Int /\ 0 \in Nat
    BY DEF NoIndex
  <2> QED BY <2>1, <2>2
<1>2. CASE size > 1
  <2> DEFINE k == Split(size)
  <2>1. /\ k \in 1 .. size - 1
        /\ \/ Descend(Part(lo, size), s) = Part(lo, k)
           \/ Descend(Part(lo, size), s) = Part(lo + k, size - k)
    BY <1>2, DescendTo
  <2> HIDE DEF k
  <2>2. k \in Nat /\ lo + k \in Int /\ size - k \in Nat
    BY <2>1
  <2> QED BY <2>1, <2>2
<1> QED BY <1>1, <1>2

LEMMA DescendAlike ==
    ASSUME NEW lo \in Int, NEW size \in Nat, NEW s, NEW t,
           (s.side = "right") <=> (t.side = "right")
    PROVE  Descend(Part(lo, size), s) = Descend(Part(lo, size), t)
<1>1. CASE size <= 1
  BY <1>1, DescendTo
<1>2. CASE size > 1 /\ s.side = "right"
  BY <1>2, DescendTo
<1>3. CASE size > 1 /\ s.side # "right"
  BY <1>3, DescendTo
<1> QED BY <1>1, <1>2, <1>3

\* Read in a part too small to split, a longer path proves nothing.
LEMMA TooLong ==
    ASSUME NEW p, IsList(p), NEW s, NEW lo \in Int, NEW size \in Nat, size <= 1
    PROVE  IndexWithin(Append(p, s), Part(lo, size)) = NoIndex
<1>1. IndexWithin(Append(p, s), Part(lo, size)) = IndexWithin(p, Part(NoIndex, 0))
  BY DescendTo, IndexOfAppend
<1>2. NoIndex \in Int /\ 0 \in Nat
  BY DEF NoIndex
<1>3. \/ IndexWithin(p, Part(NoIndex, 0)) = NoIndex
      \/ IndexWithin(p, Part(NoIndex, 0)) \in NoIndex .. NoIndex + 0 - 1
  BY <1>2, IndexLies DEF Lies
<1>4. ASSUME NEW i \in NoIndex .. NoIndex + 0 - 1 PROVE FALSE
  BY <1>2
<1> QED BY <1>1, <1>3, <1>4

\* The halves a split leaves are apart.
LEMMA HalvesApart ==
    ASSUME NEW p, IsList(p), NEW q, IsList(q), NEW s, NEW t,
           NEW lo \in Int, NEW size \in Nat, s.side = "right", t.side # "right",
           IndexWithin(Append(p, s), Part(lo, size)) = IndexWithin(Append(q, t), Part(lo, size))
    PROVE  IndexWithin(Append(p, s), Part(lo, size)) = NoIndex
<1>1. CASE size <= 1
  BY <1>1, TooLong
<1>2. CASE size > 1
  <2> DEFINE k == Split(size)
  <2>1. /\ k \in 1 .. size - 1 /\ Descend(Part(lo, size), s) = Part(lo, k)
        /\ Descend(Part(lo, size), t) = Part(lo + k, size - k)
    BY <1>2, DescendTo
  <2>2. /\ IndexWithin(Append(p, s), Part(lo, size)) = IndexWithin(p, Part(lo, k))
        /\ IndexWithin(Append(q, t), Part(lo, size)) = IndexWithin(q, Part(lo + k, size - k))
    BY <2>1, IndexOfAppend
  <2> HIDE DEF k
  <2>3. k \in Nat /\ lo + k \in Int /\ size - k \in Nat
    BY <2>1
  <2>4. \/ IndexWithin(p, Part(lo, k)) = NoIndex
        \/ IndexWithin(p, Part(lo, k)) \in lo .. lo + k - 1
    BY <2>3, IndexLies DEF Lies
  <2>5. \/ IndexWithin(q, Part(lo + k, size - k)) = NoIndex
        \/ IndexWithin(q, Part(lo + k, size - k)) \in lo + k .. (lo + k) + (size - k) - 1
    BY <2>3, IndexLies DEF Lies
  <2>6. ASSUME NEW i, i \in lo .. lo + k - 1, i \in lo + k .. (lo + k) + (size - k) - 1
        PROVE  FALSE
    BY <2>3, <2>6
  <2> QED BY <2>2, <2>4, <2>5, <2>6
<1> QED BY <1>1, <1>2

LEMMA IndexesAgree ==
    ASSUME NEW p, IsList(p), NEW r, IsList(r)
    PROVE  Agree(p, r)
<1> DEFINE N == Len(p)
           Holds == {n \in 0 .. N : \A a, b : IsList(a) /\ IsList(b) /\ Len(a) = n => Agree(a, b)}
<1>1. N \in Nat
  BY ListFacts
<1>2. 0 \in Holds
  <2>1. ASSUME NEW a, NEW b, IsList(a), IsList(b), Len(a) = 0 PROVE Agree(a, b)
    <3>1. a = << >>
      BY <2>1, EmptyIsList, ListEqual
    <3>2. CASE b = << >>
      BY <3>1, <3>2 DEF Agree
    <3>3. CASE \E t, s : IsList(t) /\ b = Append(t, s)
      <4>1. PICK t, s : IsList(t) /\ b = Append(t, s)
        BY <3>3
      <4>2. ASSUME NEW lo \in Int, NEW size \in Nat,
                   IndexWithin(a, Part(lo, size)) = IndexWithin(b, Part(lo, size)),
                   IndexWithin(a, Part(lo, size)) # NoIndex
            PROVE  FALSE
        <5>1. size = 1
          BY <3>1, <4>2, IndexOfNone DEF IndexAt, Part
        <5> QED BY <4>1, <4>2, <5>1, TooLong
      <4> QED BY <4>2 DEF Agree
    <3> QED BY <2>1, <3>2, <3>3, EmptyOrLast
  <2> QED BY <1>1, <2>1
<1>3. ASSUME NEW n \in 0 .. (N - 1), n \in Holds PROVE n + 1 \in Holds
  <2>1. ASSUME NEW a, NEW b, IsList(a), IsList(b), Len(a) = n + 1,
               NEW lo \in Int, NEW size \in Nat,
               IndexWithin(a, Part(lo, size)) = IndexWithin(b, Part(lo, size)),
               IndexWithin(a, Part(lo, size)) # NoIndex,
               NEW at \in Int, NEW m \in Nat
        PROVE  IndexWithin(a, Part(at, m)) = IndexWithin(b, Part(at, m))
    <3> HIDE DEF N, Holds
    <3>0. IsList(a) /\ Len(a) = n + 1 /\ n + 1 # 0
      BY <1>1, <2>1
    <3>1. PICK t, s : IsList(t) /\ a = Append(t, s) /\ Len(t) = (n + 1) - 1
      BY <3>0, ListLast
    <3>2. size > 1
      BY <2>1, <3>1, TooLong
    <3>3. b # << >>
      <4>1. b = << >> => IndexWithin(b, Part(lo, size)) = NoIndex
        BY <3>2, IndexOfNone DEF IndexAt, Part
      <4> QED BY <2>1, <4>1
    <3>4. PICK u, v : IsList(u) /\ b = Append(u, v)
      BY <2>1, <3>3, EmptyOrLast
    <3>5. (s.side = "right") <=> (v.side = "right")
      BY <2>1, <3>1, <3>4, HalvesApart
    <3> DEFINE Both(i, j, l, k) == /\ Descend(Part(i, j), s) = Part(l, k)
                                   /\ Descend(Part(i, j), v) = Part(l, k)
    <3>a. ASSUME NEW i \in Int, NEW j \in Nat
          PROVE  \E l \in Int, k \in Nat : Both(i, j, l, k)
      <4>1. Descend(Part(i, j), s) = Descend(Part(i, j), v)
        BY <3>5, DescendAlike
      <4>2. PICK l \in Int, k \in Nat : Descend(Part(i, j), s) = Part(l, k)
        BY DescendsToPart
      <4> QED BY <4>1, <4>2
    <3>6. PICK l \in Int, k \in Nat : Both(lo, size, l, k)
      BY <2>1, <3>a
    <3>7. PICK l2 \in Int, k2 \in Nat : Both(at, m, l2, k2)
      BY <2>1, <3>a
    <3>8. /\ IndexWithin(a, Part(lo, size)) = IndexWithin(t, Part(l, k))
          /\ IndexWithin(b, Part(lo, size)) = IndexWithin(u, Part(l, k))
          /\ IndexWithin(a, Part(at, m)) = IndexWithin(t, Part(l2, k2))
          /\ IndexWithin(b, Part(at, m)) = IndexWithin(u, Part(l2, k2))
      BY <3>1, <3>4, <3>6, <3>7, IndexOfAppend
    <3>9. Agree(t, u)
      BY <1>3, <2>1, <3>1, <3>4 DEF Holds
    <3> QED BY <2>1, <3>8, <3>9 DEF Agree
  <2> QED BY <1>1, <2>1 DEF Agree
<1>4. 0 \in Int /\ N \in Int /\ N \in 0 .. N
  BY <1>1
<1>5. N \in Holds
  <2> HIDE DEF Holds, N
  <2> QED BY <1>2, <1>3, <1>4, Upward
<1> QED BY <1>5


-----------------------------------------------------------------------------
(* No other path leads to the root *)

IsPath(p) == /\ IsList(p)
             /\ \A k \in 1 .. Len(p) : \E h : \E side \in {"left", "right"} :
                  p[k] = PathStep(h, side)

IsLeaves(ls) == IsList(ls) /\ \A i \in 1 .. Len(ls) : \E c : ls[i] = LeafHash(c)

\* What leads from a leaf to the root of a part is the path of a leaf there.
Sound(ls, lo, n) ==
    \A c, p : IsPath(p) /\ RootFromPath(LeafHash(c), p) = SubtreeRoot(ls, lo, n)
      => \E i \in lo .. lo + n - 1 : ls[i + 1] = LeafHash(c) /\ p = SubtreePath(ls, i, lo, n)

LEMMA PathsSound ==
    ASSUME NEW ls, IsLeaves(ls)
    PROVE  \A n \in 1 .. Len(ls) : \A lo \in 0 .. Len(ls) - n : Sound(ls, lo, n)
<1> DEFINE N == Len(ls)
           P(x, lo, n) == SubtreePath(ls, x, lo, n)
           R(lo, n) == SubtreeRoot(ls, lo, n)
           Holds == {n \in 1 .. N : \A lo \in 0 .. N - n : Sound(ls, lo, n)}
<1>1. IsList(ls) /\ N \in Nat
  BY ListFacts DEF IsLeaves
<1>2. ASSUME NEW n \in 1 .. N, \A d \in 1 .. (n - 1) : d \in Holds
      PROVE  n \in Holds
  <2> SUFFICES ASSUME NEW lo \in 0 .. N - n, NEW c, NEW p, IsPath(p),
                      RootFromPath(LeafHash(c), p) = R(lo, n)
               PROVE  \E i \in lo .. lo + n - 1 : ls[i + 1] = LeafHash(c) /\ p = P(i, lo, n)
    BY DEF Sound
  <2>1. p = << >> \/ \E t, s : IsList(t) /\ p = Append(t, s) /\ Len(t) = Len(p) - 1
    BY EmptyOrLast DEF IsPath
  <2>2. CASE n = 1
    <3>1. lo \in 0 .. N - 1 /\ lo \in lo .. lo + n - 1 /\ lo + 1 \in 1 .. N
      BY <1>1, <2>2
    <3>2. P(lo, lo, n) = << >> /\ R(lo, n) = ls[lo + 1]
      BY <1>1, <2>2, <3>1, PathOfPart, RootOfPart
    <3>3. CASE p = << >>
      <4>1. LeafHash(c) = ls[lo + 1]
        BY <3>2, <3>3, RootFromNone
      <4> QED BY <3>1, <3>2, <3>3, <4>1
    <3>4. CASE \E t, s : IsList(t) /\ p = Append(t, s) /\ Len(t) = Len(p) - 1
      <4>1. PICK t, s : IsList(t) /\ p = Append(t, s)
        BY <3>4
      <4>2. Join(RootFromPath(LeafHash(c), t), s) = ls[lo + 1]
        BY <3>2, <4>1, RootFromAppend
      <4>3. PICK d : ls[lo + 1] = LeafHash(d)
        BY <3>1 DEF IsLeaves
      <4> QED BY <4>2, <4>3, NodeParts DEF Join
    <3> QED BY <2>1, <3>3, <3>4
  <2>3. CASE n # 1
    <3> DEFINE k == Split(n)
    <3>1. n \in 2 .. N /\ n \in Nat /\ n >= 2 /\ lo \in Int
      BY <1>1, <2>3
    <3>2. k \in 1 .. n - 1
      BY <3>1, SplitBounds
    <3>3. R(lo, n) = Node(R(lo, k), R(lo + k, n - k))
      BY <1>1, <3>1, RootOfPart
    <3>4. /\ k \in 1 .. (n - 1) /\ lo \in 0 .. N - k
          /\ n - k \in 1 .. (n - 1) /\ lo + k \in 0 .. N - (n - k)
      BY <1>1, <3>1, <3>2
    <3>5. Sound(ls, lo, k) /\ Sound(ls, lo + k, n - k)
      BY <1>2, <3>4
    <3>6. p # << >>
      BY <3>3, RootFromNone, NodeParts
    <3>7. PICK t, s : IsList(t) /\ p = Append(t, s) /\ Len(t) = Len(p) - 1
      BY <2>1, <3>6
    <3>8. /\ Len(p) = Len(t) + 1 /\ Len(t) \in Nat /\ p[Len(t) + 1] = s
          /\ \A j \in 1 .. Len(t) : p[j] = t[j]
      BY <3>7, ListAppend, ListFacts
    <3>9. IsPath(t)
      <4>1. \A j \in 1 .. Len(t) : j \in 1 .. Len(p)
        BY <3>8
      <4> QED BY <3>7, <3>8, <4>1 DEF IsPath
    <3>10. PICK h, side : side \in {"left", "right"} /\ s = PathStep(h, side)
      <4>1. Len(t) + 1 \in 1 .. Len(p)
        BY <3>8
      <4>2. \E g : \E e \in {"left", "right"} : p[Len(t) + 1] = PathStep(g, e)
        BY <4>1 DEF IsPath
      <4> HIDE DEF P, R, k
      <4> QED BY <3>8, <4>2
    <3>11. s.hash = h /\ s.side = side
      BY <3>10 DEF PathStep
    <3>12. Join(RootFromPath(LeafHash(c), t), s) = Node(R(lo, k), R(lo + k, n - k))
      BY <3>3, <3>7, RootFromAppend
    <3>13. CASE side = "left"
      <4>1. h = R(lo, k) /\ RootFromPath(LeafHash(c), t) = R(lo + k, n - k)
        <5> HIDE DEF R, k
        <5> QED BY <3>11, <3>12, <3>13, NodeParts DEF Join
      <4>2. PICK i \in lo + k .. (lo + k) + (n - k) - 1 :
               ls[i + 1] = LeafHash(c) /\ t = P(i, lo + k, n - k)
        BY <3>5, <3>9, <4>1 DEF Sound
      <4>3. i \in lo .. lo + n - 1 /\ ~(i - lo < k)
        BY <3>1, <3>2, <4>2
      <4>4. P(i, lo, n) = Turn(ls, i, lo, n, P(i, lo, k), P(i, lo + k, n - k))
        BY <1>1, <3>1, PathOfPart
      <4>5. P(i, lo, n) = Append(P(i, lo + k, n - k), PathStep(R(lo, k), "left"))
        BY <4>3, <4>4 DEF Turn
      <4>6. p = P(i, lo, n)
        <5> HIDE DEF P, R, k
        <5> QED BY <3>7, <3>10, <3>13, <4>1, <4>2, <4>5
      <4> QED BY <4>2, <4>3, <4>6
    <3>14. CASE side = "right"
      <4>1. h = R(lo + k, n - k) /\ RootFromPath(LeafHash(c), t) = R(lo, k)
        <5> HIDE DEF R, k
        <5>1. s.side # "left"
          BY <3>11, <3>14
        <5> QED BY <3>11, <3>12, <5>1, NodeParts DEF Join
      <4>2. PICK i \in lo .. lo + k - 1 : ls[i + 1] = LeafHash(c) /\ t = P(i, lo, k)
        BY <3>5, <3>9, <4>1 DEF Sound
      <4>3. i \in lo .. lo + n - 1 /\ i - lo < k
        BY <3>1, <3>2, <4>2
      <4>4. P(i, lo, n) = Turn(ls, i, lo, n, P(i, lo, k), P(i, lo + k, n - k))
        BY <1>1, <3>1, PathOfPart
      <4>5. P(i, lo, n) = Append(P(i, lo, k), PathStep(R(lo + k, n - k), "right"))
        BY <4>3, <4>4 DEF Turn
      <4>6. p = P(i, lo, n)
        <5> HIDE DEF P, R, k
        <5> QED BY <3>7, <3>10, <3>14, <4>1, <4>2, <4>5
      <4> QED BY <4>2, <4>3, <4>6
    <3> QED BY <3>10, <3>13, <3>14
  <2> QED BY <2>2, <2>3
<1>3. \A n \in 1 .. N : n \in Holds
  <2> HIDE DEF Holds, N
  <2> QED BY <1>1, <1>2, FromBelow
<1> QED BY <1>3

-----------------------------------------------------------------------------
(* The levels, bottom up *)

\* How many of N leaves a whole subtree of W leaves from leaf a on would hold.
Span(N, a, W) == IF N < a + W THEN N - a ELSE W

LEMMA SpanSplits ==
    ASSUME NEW N \in Nat, NEW w, IsWidths(w, N), NEW h \in 0 .. N,
           NEW a \in Nat, a < N
    PROVE  LET W == w[h] IN
           /\ Span(N, a, W) \in 1 .. N /\ a \in 0 .. N - Span(N, a, W)
           /\ a + W < N => /\ Span(N, a, 2 * W) \in 2 .. N
                           /\ a \in 0 .. N - Span(N, a, 2 * W)
                           /\ Split(Span(N, a, 2 * W)) = Span(N, a, W)
                           /\ Span(N, a, W) = W
                           /\ Span(N, a, 2 * W) - W = Span(N, a + W, W)
           /\ ~(a + W < N) => Span(N, a, 2 * W) = Span(N, a, W)
<1> DEFINE W == w[h]
<1>1. W \in Nat /\ W >= 1
  <2>1. W \in Nat /\ W >= h + 1
    BY WidthsGrow
  <2> QED BY <2>1
<1>2. \A c \in Nat : W < c /\ c <= 2 * W => Split(c) = W
  BY SplitAtWidth
<1> HIDE DEF W
<1>3. Span(N, a, W) \in 1 .. N /\ a \in 0 .. N - Span(N, a, W)
  <2>1. CASE N < a + W
    BY <1>1, <2>1 DEF Span
  <2>2. CASE ~(N < a + W)
    BY <1>1, <2>2 DEF Span
  <2> QED BY <2>1, <2>2
<1>4. ASSUME ~(a + W < N) PROVE Span(N, a, 2 * W) = Span(N, a, W)
  <2>1. N < a + 2 * W
    BY <1>1, <1>4
  <2>2. Span(N, a, 2 * W) = N - a
    BY <2>1 DEF Span
  <2>3. CASE N < a + W
    BY <2>2, <2>3 DEF Span
  <2>4. CASE ~(N < a + W)
    <3>1. Span(N, a, W) = W /\ N = a + W
      BY <1>1, <1>4, <2>4 DEF Span
    <3> QED BY <1>1, <2>2, <3>1
  <2> QED BY <2>3, <2>4
<1>5. ASSUME a + W < N
      PROVE  /\ Span(N, a, 2 * W) \in 2 .. N
             /\ a \in 0 .. N - Span(N, a, 2 * W)
             /\ Split(Span(N, a, 2 * W)) = Span(N, a, W)
             /\ Span(N, a, W) = W
             /\ Span(N, a, 2 * W) - W = Span(N, a + W, W)
  <2>1. Span(N, a, W) = W
    <3>1. ~(N < a + W)
      BY <1>1, <1>5
    <3> QED BY <3>1 DEF Span
  <2>2. CASE N < a + 2 * W
    <3>1. N < (a + W) + W
      BY <1>1, <2>2
    <3>2. Span(N, a, 2 * W) = N - a /\ Span(N, a + W, W) = N - (a + W)
      BY <2>2, <3>1 DEF Span
    <3>3. /\ N - a \in 2 .. N /\ a \in 0 .. N - (N - a) /\ (N - a) - W = N - (a + W)
          /\ N - a \in Nat /\ W < N - a /\ N - a <= 2 * W
      BY <1>1, <1>5, <2>2
    <3> QED BY <1>2, <2>1, <3>2, <3>3
  <2>3. CASE ~(N < a + 2 * W)
    <3>1. ~(N < (a + W) + W)
      BY <1>1, <2>3
    <3>2. Span(N, a, 2 * W) = 2 * W /\ Span(N, a + W, W) = W
      BY <2>3, <3>1 DEF Span
    <3>3. /\ 2 * W \in 2 .. N /\ a \in 0 .. N - 2 * W /\ 2 * W - W = W
          /\ 2 * W \in Nat /\ W < 2 * W /\ 2 * W <= 2 * W
      BY <1>1, <2>3
    <3> QED BY <1>2, <2>1, <3>2, <3>3
  <2> QED BY <2>1, <2>2, <2>3
<1> QED BY <1>3, <1>4, <1>5 DEF W

LEMMA SpanWhole ==
    ASSUME NEW N \in Nat, NEW W \in Nat, N <= W
    PROVE  Span(N, 0, W) = N
<1>1. N - 0 = N /\ (~(N < 0 + W) => W = N)
  OBVIOUS
<1>2. Span(N, 0, W) = IF N < 0 + W THEN N - 0 ELSE W
  BY DEF Span
<1> QED BY <1>1, <1>2

LEMMA Offsets ==
    ASSUME NEW j \in Nat, NEW W \in Nat
    PROVE  /\ j * W \in Nat /\ (2 * j) * W = j * (2 * W)
           /\ (2 * j + 1) * W = j * (2 * W) + W
           /\ (j + 1) * W = j * W + W
OBVIOUS

LEMMA OffsetGrows ==
    ASSUME NEW i \in Nat, NEW j \in Nat, i <= j, NEW W \in Nat
    PROVE  i * W <= j * W
OBVIOUS


\* A level of subtrees of W leaves each, the last one what is left.
LevelHolds(v, ls, W) ==
    /\ IsList(v)
    /\ \A j \in Nat : j < Len(v) <=> j * W < Len(ls)
    /\ \A j \in 0 .. Len(v) - 1 : v[j + 1] = SubtreeRoot(ls, j * W, Span(Len(ls), j * W, W))

LEMMA LeavesAreALevel ==
    ASSUME NEW ls, IsList(ls)
    PROVE  LevelHolds(ls, ls, 1)
<1> DEFINE N == Len(ls)
<1>1. N \in Nat
  BY ListFacts
<1>2. ASSUME NEW j \in 0 .. N - 1
      PROVE  ls[j + 1] = SubtreeRoot(ls, j * 1, Span(N, j * 1, 1))
  <2>1. j * 1 = j /\ ~(N < j + 1) /\ j \in Nat
    BY <1>1
  <2>2. Span(N, j * 1, 1) = 1
    BY <2>1 DEF Span
  <2> QED BY <2>1, <2>2, RootOfPart
<1>3. \A j \in Nat : j * 1 = j
  OBVIOUS
<1> QED BY <1>2, <1>3 DEF LevelHolds

LEMMA LevelRises ==
    ASSUME NEW ls, IsList(ls), NEW w, IsWidths(w, Len(ls)), NEW h \in 0 .. Len(ls), NEW v,
           LevelHolds(v, ls, w[h])
    PROVE  LevelHolds(LevelAbove(v), ls, 2 * w[h])
<1> DEFINE N == Len(ls)
           W == w[h]
           n == Len(v)
           m == (n + 1) \div 2
           u == LevelAbove(v)
           R(lo, c) == SubtreeRoot(ls, lo, c)
<1>1. N \in Nat /\ n \in Nat /\ W \in Nat
  <2>1. N \in Nat /\ n \in Nat
    BY ListFacts DEF LevelHolds
  <2> QED BY <2>1, WidthsGrow
<1>2. m \in Nat /\ \A j \in Nat : (j < m <=> 2 * j < n)
  BY <1>1
<1>3. /\ u = [i \in 1 .. m |-> u[i]]
      /\ \A i \in 1 .. m : u[i] = IF 2 * i <= n THEN Node(v[2 * i - 1], v[2 * i]) ELSE v[2 * i - 1]
  BY DEF LevelAbove
<1> HIDE DEF u, m
<1>4. IsList(u) /\ Len(u) = m
  BY <1>2, <1>3, ListOf
<1>5. ASSUME NEW j \in Nat PROVE j < m <=> j * (2 * W) < N
  <2>1. 2 * j \in Nat /\ (2 * j) * W = j * (2 * W)
    BY <1>1, Offsets
  <2>2. 2 * j < n <=> (2 * j) * W < N
    BY <2>1 DEF LevelHolds
  <2> QED BY <1>2, <2>1, <2>2
<1>a. ASSUME NEW a \in Nat, a < N
      PROVE  /\ a + W < N => /\ Span(N, a, 2 * W) \in 2 .. N
                             /\ a \in 0 .. N - Span(N, a, 2 * W)
                             /\ Split(Span(N, a, 2 * W)) = Span(N, a, W)
                             /\ Span(N, a, W) = W
                             /\ Span(N, a, 2 * W) - W = Span(N, a + W, W)
             /\ ~(a + W < N) => Span(N, a, 2 * W) = Span(N, a, W)
  BY <1>1, <1>a, SpanSplits
<1>6. ASSUME NEW j \in 0 .. m - 1 PROVE u[j + 1] = R(j * (2 * W), Span(N, j * (2 * W), 2 * W))
  <2> DEFINE a == j * (2 * W)
  <2>1. /\ j \in Nat /\ j < m /\ j + 1 \in 1 .. m /\ 2 * (j + 1) - 1 = 2 * j + 1
        /\ 2 * (j + 1) = (2 * j + 1) + 1 /\ 2 * j + 1 \in Nat /\ 2 * j \in 0 .. n - 1
    BY <1>1, <1>2
  <2>2. a \in Nat /\ (2 * j) * W = a /\ (2 * j + 1) * W = a + W
    BY <1>1, <2>1, Offsets
  <2>3. a < N
    BY <1>5, <2>1
  <2>4. v[2 * j + 1] = R(a, Span(N, a, W))
    BY <2>1, <2>2 DEF LevelHolds
  <2> HIDE DEF a
  <2>5. 2 * j + 1 < n <=> a + W < N
    BY <2>1, <2>2 DEF LevelHolds
  <2>6. CASE 2 * j + 1 < n
    <3>1. 2 * j + 1 \in 0 .. n - 1 /\ 2 * (j + 1) <= n
      BY <1>1, <2>1, <2>6
    <3>2. v[(2 * j + 1) + 1] = R(a + W, Span(N, a + W, W))
      BY <2>2, <3>1 DEF LevelHolds
    <3>3. u[j + 1] = Node(R(a, Span(N, a, W)), R(a + W, Span(N, a + W, W)))
      BY <1>3, <2>1, <2>4, <3>1, <3>2
    <3>4. /\ Span(N, a, 2 * W) \in 2 .. N /\ a \in 0 .. N - Span(N, a, 2 * W)
          /\ Split(Span(N, a, 2 * W)) = Span(N, a, W) /\ Span(N, a, W) = W
          /\ Span(N, a, 2 * W) - W = Span(N, a + W, W)
      BY <1>a, <2>2, <2>3, <2>5, <2>6
    <3>5. R(a, Span(N, a, 2 * W))
            = Node(R(a, Split(Span(N, a, 2 * W))),
                   R(a + Split(Span(N, a, 2 * W)),
                     Span(N, a, 2 * W) - Split(Span(N, a, 2 * W))))
      BY <3>4, RootOfPart
    <3> HIDE DEF R
    <3> QED BY <3>3, <3>4, <3>5 DEF a
  <2>7. CASE ~(2 * j + 1 < n)
    <3>1. ~(2 * (j + 1) <= n)
      BY <1>1, <2>1, <2>7
    <3>2. u[j + 1] = v[2 * j + 1]
      <4>1. u[j + 1] = v[2 * (j + 1) - 1]
        BY <1>3, <2>1, <3>1
      <4> QED BY <2>1, <4>1
    <3>3. Span(N, a, 2 * W) = Span(N, a, W)
      BY <1>a, <2>2, <2>3, <2>5, <2>7
    <3> QED BY <2>4, <3>2, <3>3 DEF a
  <2> QED BY <2>6, <2>7
<1> QED BY <1>4, <1>5, <1>6 DEF LevelHolds, u

-----------------------------------------------------------------------------
(* All the levels *)

LevelsUpTo(f, ls, n) == f = [h \in 1 .. n |-> IF h = 1 THEN ls ELSE LevelAbove(f[h - 1])]

LEMMA LevelsDefined ==
    ASSUME NEW ls, NEW n \in Nat \ {0}
    PROVE  \E f : LevelsUpTo(f, ls, n)
<1> DEFINE Defined == {m \in 1 .. n : \E f : LevelsUpTo(f, ls, m)}
<1>1. 1 \in Defined
  <2> DEFINE g == [h \in 1 .. 1 |-> ls]
  <2>1. LevelsUpTo(g, ls, 1)
    BY DEF LevelsUpTo
  <2> QED BY <2>1
<1>2. ASSUME NEW j \in 1 .. (n - 1), j \in Defined PROVE j + 1 \in Defined
  <2>1. PICK f : LevelsUpTo(f, ls, j)
    BY <1>2
  <2> DEFINE m == j + 1
             g == [h \in 1 .. m |-> IF h = m THEN LevelAbove(f[j]) ELSE f[h]]
  <2>2. m \in 1 .. n /\ m # 1 /\ m - 1 = j /\ \A h \in 1 .. m : h # m => h \in 1 .. j
    OBVIOUS
  <2>3. \A h \in 1 .. j : f[h] = IF h = 1 THEN ls ELSE LevelAbove(f[h - 1])
    BY <2>1 DEF LevelsUpTo
  <2>4. \A h \in 1 .. m : g[h] = IF h = 1 THEN ls ELSE LevelAbove(g[h - 1])
    BY <2>2, <2>3
  <2>5. g = [h \in 1 .. m |-> g[h]]
    OBVIOUS
  <2> HIDE DEF g
  <2>6. LevelsUpTo(g, ls, m)
    BY <2>4, <2>5 DEF LevelsUpTo
  <2> QED BY <2>2, <2>6
<1>3. 1 \in Int /\ n \in Int /\ n \in 1 .. n
  OBVIOUS
<1>4. n \in Defined
  <2> HIDE DEF Defined
  <2> QED BY <1>1, <1>2, <1>3, Upward
<1> QED BY <1>4

\* The levels stand on one another and end in the first of one node.
LEMMA LevelsAre ==
    ASSUME NEW ls, IsList(ls), Len(ls) # 0, NEW w, IsWidths(w, Len(ls))
    PROVE  \E top \in 1 .. Len(ls) :
             /\ IsList(MerkleLevels(ls)) /\ Len(MerkleLevels(ls)) = top
             /\ \A h \in 1 .. top : LevelHolds(MerkleLevels(ls)[h], ls, w[h - 1])
             /\ Len(MerkleLevels(ls)[top]) = 1
<1> DEFINE N == Len(ls)
           level == CHOOSE level : level = [h \in 1 .. N |->
                       IF h = 1 THEN ls ELSE LevelAbove(level[h - 1])]
           Top(h) == Len(level[h]) = 1 /\ \A g \in 1 .. h - 1 : Len(level[g]) > 1
           top == CHOOSE h \in 1 .. N : Top(h)
           levels == [h \in 1 .. top |-> level[h]]
<1>1. N \in Nat /\ N # 0 /\ N \in 1 .. N /\ ls # << >>
  BY ListFacts, EmptyIsList
<1>2. \E f : LevelsUpTo(f, ls, N)
  BY <1>1, LevelsDefined
<1>3. LevelsUpTo(level, ls, N)
  BY <1>2 DEF LevelsUpTo
<1>4. MerkleLevels(ls) = levels
  BY <1>1 DEF MerkleLevels
<1> HIDE DEF level
<1>5. \A h \in 1 .. N : level[h] = IF h = 1 THEN ls ELSE LevelAbove(level[h - 1])
  BY <1>3 DEF LevelsUpTo
<1>6. \A h \in 1 .. N : LevelHolds(level[h], ls, w[h - 1])
  <2> DEFINE Holds == {h \in 1 .. N : LevelHolds(level[h], ls, w[h - 1])}
  <2>1. 1 \in Holds
    <3>1. w[1 - 1] = 1
      BY DEF IsWidths
    <3> QED BY <1>1, <1>5, <3>1, LeavesAreALevel
  <2>2. ASSUME NEW h \in 1 .. (N - 1), h \in Holds PROVE h + 1 \in Holds
    <3>1. h - 1 \in 0 .. N /\ h \in 1 .. N /\ h + 1 \in 1 .. N /\ h + 1 # 1 /\ (h + 1) - 1 = h
      BY <1>1
    <3>2. LevelHolds(LevelAbove(level[h]), ls, 2 * w[h - 1])
      BY <2>2, <3>1, LevelRises
    <3>3. level[h + 1] = LevelAbove(level[h]) /\ w[h] = 2 * w[h - 1]
      BY <1>5, <3>1 DEF IsWidths
    <3> QED BY <3>1, <3>2, <3>3
  <2>3. 1 \in Int /\ N \in Int
    BY <1>1
  <2> HIDE DEF Holds, N
  <2>4. \A h \in 1 .. N : h \in Holds
    BY <2>1, <2>2, <2>3, Upward
  <2> QED BY <2>4 DEF Holds
<1>7. \A h \in 1 .. N : Len(level[h]) \in Nat /\ Len(level[h]) >= 1
  <2>1. ASSUME NEW h \in 1 .. N PROVE Len(level[h]) \in Nat /\ Len(level[h]) >= 1
    <3>1. h - 1 \in 0 .. N
      BY <1>1
    <3>2. LevelHolds(level[h], ls, w[h - 1]) /\ w[h - 1] \in Nat
      BY <1>1, <1>6, <3>1, WidthsGrow
    <3>3. 0 * w[h - 1] < N
      BY <1>1, <3>2
    <3>4. Len(level[h]) \in Nat /\ 0 < Len(level[h])
      BY <3>2, <3>3, ListFacts DEF LevelHolds
    <3> QED BY <3>4
  <2> QED BY <2>1
<1>8. Len(level[N]) = 1
  <2>1. N - 1 \in 0 .. N /\ (N - 1) + 1 = N
    BY <1>1
  <2>2. w[N - 1] \in Nat /\ w[N - 1] >= N
    BY <1>1, <2>1, WidthsGrow
  <2>3. ~(1 * w[N - 1] < N)
    BY <1>1, <2>2
  <2>4. ~(1 < Len(level[N]))
    BY <1>1, <1>6, <2>3 DEF LevelHolds
  <2>5. Len(level[N]) \in Nat /\ Len(level[N]) >= 1
    BY <1>1, <1>7
  <2>6. \A x \in Nat : x >= 1 /\ ~(1 < x) => x = 1
    OBVIOUS
  <2> HIDE DEF N
  <2> QED BY <2>4, <2>5, <2>6
<1>9. \E h \in 1 .. N : Top(h)
  <2> DEFINE Ones == {h \in 1 .. N : Len(level[h]) = 1}
  <2>1. PICK h \in Ones : \A g \in Ones : h <= g
    <3>1. Ones \subseteq Nat /\ Ones # {}
      BY <1>1, <1>8
    <3> HIDE DEF Ones
    <3> QED BY <3>1, LeastNat
  <2>2. ASSUME NEW g \in 1 .. h - 1 PROVE Len(level[g]) > 1
    <3>1. h \in 1 .. N /\ g \in 1 .. N /\ ~(h <= g)
      BY <1>1, <2>1
    <3>2. Len(level[g]) # 1
      BY <2>1, <3>1
    <3>3. Len(level[g]) \in Nat /\ Len(level[g]) >= 1
      BY <1>7, <3>1
    <3>4. \A x \in Nat : x >= 1 /\ x # 1 => x > 1
      OBVIOUS
    <3> HIDE DEF N, Ones
    <3> QED BY <3>2, <3>3, <3>4
  <2> QED BY <2>1, <2>2
<1>10. top \in 1 .. N /\ Top(top)
  <2> HIDE DEF Top
  <2> QED BY <1>9
<1> HIDE DEF top
<1>11. IsList(levels) /\ Len(levels) = top
  <2>1. top \in Nat /\ levels = [h \in 1 .. top |-> levels[h]]
    BY <1>1, <1>10
  <2> HIDE DEF levels
  <2> QED BY <2>1, ListOf
<1>12. /\ \A h \in 1 .. top : h \in 1 .. N /\ levels[h] = level[h]
       /\ levels[top] = level[top]
  BY <1>1, <1>10
<1> HIDE DEF levels
<1> QED BY <1>4, <1>6, <1>10, <1>11, <1>12


-----------------------------------------------------------------------------
(* A leaf's way up *)

\* At a subtree of W leaves, with the path of leaf x within it.
Climbed(at, ls, x, W) ==
    /\ at.pos \in Nat /\ at.pos * W <= x /\ x < at.pos * W + W
    /\ at.path = SubtreePath(ls, x, at.pos * W, Span(Len(ls), at.pos * W, W))

LEMMA ClimbRises ==
    ASSUME NEW ls, IsList(ls), NEW w, IsWidths(w, Len(ls)), NEW h \in 0 .. Len(ls), NEW v,
           LevelHolds(v, ls, w[h]), NEW x \in 0 .. Len(ls) - 1, NEW at,
           Climbed(at, ls, x, w[h])
    PROVE  Climbed(Climb(at, v), ls, x, 2 * w[h])
<1> DEFINE N == Len(ls)
           W == w[h]
           n == Len(v)
           j == at.pos
           k == j \div 2
           a == k * (2 * W)
           big == Span(N, a, 2 * W)
           up == Climb(at, v)
           P(lo, c) == SubtreePath(ls, x, lo, c)
           R(lo, c) == SubtreeRoot(ls, lo, c)
<1>1. N \in Nat /\ n \in Nat /\ W \in Nat /\ W >= 1 /\ x \in Nat /\ x < N
  <2>1. N \in Nat /\ n \in Nat
    BY ListFacts DEF LevelHolds
  <2>2. W \in Nat /\ W >= h + 1
    BY <2>1, WidthsGrow
  <2> QED BY <2>1, <2>2
<1>2. j \in Nat /\ j * W <= x /\ x < j * W + W /\ at.path = P(j * W, Span(N, j * W, W))
  BY DEF Climbed
<1>3. ASSUME NEW b \in Nat, b < N
      PROVE  /\ b + W < N => /\ Span(N, b, 2 * W) \in 2 .. N
                             /\ b \in 0 .. N - Span(N, b, 2 * W)
                             /\ Split(Span(N, b, 2 * W)) = Span(N, b, W)
                             /\ Span(N, b, W) = W
                             /\ Span(N, b, 2 * W) - W = Span(N, b + W, W)
             /\ ~(b + W < N) => Span(N, b, 2 * W) = Span(N, b, W)
  BY <1>1, <1>3, SpanSplits
<1>4. ASSUME NEW i \in Nat
      PROVE  /\ i < n <=> i * W < N
             /\ i < n => v[i + 1] = R(i * W, Span(N, i * W, W))
  <2>1. i < n => i \in 0 .. n - 1
    BY <1>1
  <2> QED BY <2>1 DEF LevelHolds
<1>5. up.pos = k /\ up = [path |-> up.path, pos |-> up.pos]
  BY DEF Climb
<1>6. /\ j % 2 = 0 => up.path = IF j + 1 < n THEN Append(at.path, PathStep(v[(j + 1) + 1],
                                                     IF j + 1 < j THEN "left" ELSE "right"))
                               ELSE at.path
      /\ j % 2 # 0 => up.path = IF j - 1 < n THEN Append(at.path, PathStep(v[(j - 1) + 1],
                                                     IF j - 1 < j THEN "left" ELSE "right"))
                               ELSE at.path
  BY DEF Climb
<1>7. ASSUME big \in 2 .. N, a \in 0 .. N - big
      PROVE  P(a, big) = Turn(ls, x, a, big, P(a, Split(big)), P(a + Split(big), big - Split(big)))
  BY <1>7, PathOfPart
<1> HIDE DEF up, j, P, R, W, n
<1>8. /\ k \in Nat /\ a \in Nat /\ (2 * k) * W = a /\ (2 * k + 1) * W = a + W
      /\ j % 2 = 0 => j = 2 * k
      /\ j % 2 # 0 => j = 2 * k + 1
  <2>1. k \in Nat /\ (j % 2 = 0 => j = 2 * k) /\ (j % 2 # 0 => j = 2 * k + 1)
    BY <1>2
  <2> HIDE DEF k
  <2> QED BY <1>1, <2>1, Offsets
<1> HIDE DEF k, a, big
<1>9. CASE j % 2 = 0
  <2>1. j = 2 * k /\ j * W = a /\ (j + 1) * W = a + W /\ j + 1 \in Nat
    BY <1>2, <1>8, <1>9
  <2>2. a \in Nat /\ a <= x /\ x < a + W /\ a < N /\ at.path = P(a, Span(N, a, W))
    BY <1>1, <1>2, <1>8, <2>1
  <2>3. a <= x /\ x < a + 2 * W
    BY <1>1, <2>2
  <2>4. up.path = P(a, big)
    <3>1. CASE a + W < N
      <4>1. j + 1 < n /\ v[(j + 1) + 1] = R(a + W, Span(N, a + W, W)) /\ ~(j + 1 < j)
        BY <1>2, <1>4, <2>1, <3>1
      <4>2. up.path = Append(P(a, Span(N, a, W)), PathStep(R(a + W, Span(N, a + W, W)), "right"))
        BY <1>6, <1>9, <2>2, <4>1
      <4>3. /\ big \in 2 .. N /\ a \in 0 .. N - big /\ Split(big) = W /\ Span(N, a, W) = W
            /\ big - W = Span(N, a + W, W)
        BY <1>3, <2>2, <3>1 DEF big
      <4>4. P(a, big) = Turn(ls, x, a, big, P(a, W), P(a + W, big - W))
        BY <1>7, <4>3
      <4>5. x - a < Split(big)
        BY <1>1, <2>2, <4>3
      <4>6. P(a, big) = Append(P(a, W), PathStep(R(a + W, big - W), "right"))
        BY <4>3, <4>4, <4>5 DEF Turn, R
      <4> QED BY <4>2, <4>3, <4>6
    <3>2. CASE ~(a + W < N)
      <4>1. ~(j + 1 < n)
        BY <1>4, <2>1, <3>2
      <4>2. up.path = at.path
        BY <1>6, <1>9, <4>1
      <4>3. big = Span(N, a, W)
        BY <1>3, <2>2, <3>2 DEF big
      <4> QED BY <2>2, <4>2, <4>3
    <3> QED BY <3>1, <3>2
  <2> QED BY <1>5, <1>8, <2>3, <2>4 DEF Climbed, up, P, a, big, N, W
<1>10. CASE j % 2 # 0
  <2>1. j = 2 * k + 1 /\ j * W = a + W /\ j - 1 \in Nat /\ (j - 1) * W = a /\ (j - 1) + 1 = j
        /\ j - 1 < j
    <3>1. j = 2 * k + 1 /\ j - 1 = 2 * k
      BY <1>8, <1>10
    <3> QED BY <1>8, <3>1
  <2>2. /\ a \in Nat /\ a + W <= x /\ x < (a + W) + W /\ a < N /\ a + W < N
        /\ at.path = P(a + W, Span(N, a + W, W))
    <3>1. a + W <= x /\ x < (a + W) + W /\ at.path = P(a + W, Span(N, a + W, W))
      BY <1>2, <2>1
    <3> QED BY <1>1, <1>8, <3>1
  <2>3. a <= x /\ x < a + 2 * W
    BY <1>1, <2>2
  <2>4. j - 1 < n /\ v[(j - 1) + 1] = R(a, Span(N, a, W))
    BY <1>4, <2>1, <2>2
  <2>5. up.path = Append(P(a + W, Span(N, a + W, W)), PathStep(R(a, Span(N, a, W)), "left"))
    BY <1>6, <1>10, <2>1, <2>2, <2>4
  <2>6. /\ big \in 2 .. N /\ a \in 0 .. N - big /\ Split(big) = W /\ Span(N, a, W) = W
        /\ big - W = Span(N, a + W, W)
    BY <1>3, <2>2 DEF big
  <2>7. P(a, big) = Turn(ls, x, a, big, P(a, W), P(a + W, big - W))
    BY <1>7, <2>6
  <2>8. ~(x - a < Split(big))
    BY <1>1, <2>2, <2>6
  <2>9. P(a, big) = Append(P(a + W, big - W), PathStep(R(a, W), "left"))
    BY <2>6, <2>7, <2>8 DEF Turn, R
  <2>10. up.path = P(a, big)
    BY <2>5, <2>6, <2>9
  <2> QED BY <1>5, <1>8, <2>3, <2>10 DEF Climbed, up, P, a, big, N, W
<1> QED BY <1>9, <1>10

ClimbsUpTo(f, levels, x, n) ==
    f = [h \in 1 .. n |-> IF h = 1 THEN [path |-> << >>, pos |-> x]
                          ELSE Climb(f[h - 1], levels[h - 1])]

LEMMA ClimbsDefined ==
    ASSUME NEW levels, NEW x, NEW n \in Nat \ {0}
    PROVE  \E f : ClimbsUpTo(f, levels, x, n)
<1> DEFINE Defined == {m \in 1 .. n : \E f : ClimbsUpTo(f, levels, x, m)}
           start == [path |-> << >>, pos |-> x]
<1>1. 1 \in Defined
  <2> DEFINE g == [h \in 1 .. 1 |-> start]
  <2>1. ClimbsUpTo(g, levels, x, 1)
    BY DEF ClimbsUpTo
  <2> QED BY <2>1
<1>2. ASSUME NEW j \in 1 .. (n - 1), j \in Defined PROVE j + 1 \in Defined
  <2>1. PICK f : ClimbsUpTo(f, levels, x, j)
    BY <1>2
  <2> DEFINE m == j + 1
             g == [h \in 1 .. m |-> IF h = m THEN Climb(f[j], levels[j]) ELSE f[h]]
  <2>2. m \in 1 .. n /\ m # 1 /\ m - 1 = j /\ \A h \in 1 .. m : h # m => h \in 1 .. j
    OBVIOUS
  <2>3. \A h \in 1 .. j : f[h] = IF h = 1 THEN start ELSE Climb(f[h - 1], levels[h - 1])
    BY <2>1 DEF ClimbsUpTo
  <2> HIDE DEF start
  <2>4. \A h \in 1 .. m : g[h] = IF h = 1 THEN start ELSE Climb(g[h - 1], levels[h - 1])
    BY <2>2, <2>3
  <2>5. g = [h \in 1 .. m |-> g[h]]
    OBVIOUS
  <2> HIDE DEF g
  <2>6. ClimbsUpTo(g, levels, x, m)
    BY <2>4, <2>5 DEF ClimbsUpTo, start
  <2> QED BY <2>2, <2>6
<1>3. 1 \in Int /\ n \in Int /\ n \in 1 .. n
  OBVIOUS
<1>4. n \in Defined
  <2> HIDE DEF Defined
  <2> QED BY <1>1, <1>2, <1>3, Upward
<1> QED BY <1>4

\* The path gathered through the levels is the recursive one.
LEMMA PathsSame ==
    ASSUME NEW ls, IsList(ls), NEW x \in 0 .. Len(ls) - 1
    PROVE  PathThrough(MerkleLevels(ls), x) = AuditPath(ls, x)
<1> DEFINE N == Len(ls)
           levels == MerkleLevels(ls)
           at == CHOOSE at : at = [h \in 1 .. Len(levels) |->
                    IF h = 1 THEN [path |-> << >>, pos |-> x]
                    ELSE Climb(at[h - 1], levels[h - 1])]
<1>1. N \in Nat /\ N # 0 /\ x \in Nat /\ x < N
  <2>1. N \in Nat
    BY ListFacts
  <2> QED BY <2>1
<1>2. PICK w : IsWidths(w, N)
  BY <1>1, WidthsExist
<1>3. PICK top \in 1 .. N :
         /\ IsList(levels) /\ Len(levels) = top
         /\ \A h \in 1 .. top : LevelHolds(levels[h], ls, w[h - 1])
         /\ Len(levels[top]) = 1
  BY <1>1, <1>2, LevelsAre
<1> HIDE DEF levels
<1>4. \E f : ClimbsUpTo(f, levels, x, top)
  <2>1. top \in Nat \ {0}
    BY <1>1, <1>3
  <2> QED BY <2>1, ClimbsDefined
<1>5. ClimbsUpTo(at, levels, x, top)
  BY <1>3, <1>4 DEF ClimbsUpTo
<1>6. PathThrough(levels, x) = at[top].path
  BY <1>3 DEF PathThrough
<1> HIDE DEF at
<1>7. \A h \in 1 .. top :
         at[h] = IF h = 1 THEN [path |-> << >>, pos |-> x] ELSE Climb(at[h - 1], levels[h - 1])
  BY <1>5 DEF ClimbsUpTo
<1>8. Climbed(at[top], ls, x, w[top - 1])
  <2> DEFINE Holds == {h \in 1 .. top : Climbed(at[h], ls, x, w[h - 1])}
  <2>1. 1 \in Holds
    <3>1. at[1] = [path |-> << >>, pos |-> x] /\ w[1 - 1] = 1 /\ 1 \in 1 .. top
      BY <1>1, <1>2, <1>3, <1>7 DEF IsWidths
    <3>2. at[1].path = << >> /\ at[1].pos = x
      BY <3>1
    <3>3. x * 1 = x /\ ~(N < x + 1)
      BY <1>1
    <3>4. Span(N, x * 1, 1) = 1 /\ SubtreePath(ls, x, x, 1) = << >>
      BY <3>3, PathOfPart DEF Span
    <3>5. Climbed(at[1], ls, x, 1)
      BY <1>1, <3>2, <3>3, <3>4 DEF Climbed
    <3> QED BY <3>1, <3>5
  <2>2. ASSUME NEW h \in 1 .. (top - 1), h \in Holds PROVE h + 1 \in Holds
    <3>1. /\ h - 1 \in 0 .. N /\ h \in 1 .. N /\ h \in 1 .. top /\ h + 1 \in 1 .. top
          /\ h + 1 # 1 /\ (h + 1) - 1 = h
      BY <1>1, <1>3
    <3>2. LevelHolds(levels[h], ls, w[h - 1]) /\ Climbed(at[h], ls, x, w[h - 1])
      BY <1>3, <2>2, <3>1
    <3>3. Climbed(Climb(at[h], levels[h]), ls, x, 2 * w[h - 1])
      BY <1>2, <3>1, <3>2, ClimbRises
    <3>4. at[h + 1] = Climb(at[h], levels[h]) /\ w[h] = 2 * w[h - 1]
      BY <1>2, <1>7, <3>1 DEF IsWidths
    <3> QED BY <3>1, <3>3, <3>4
  <2>3. 1 \in Int /\ top \in Int /\ top \in 1 .. top
    BY <1>1, <1>3
  <2> HIDE DEF Holds
  <2>4. top \in Holds
    BY <2>1, <2>2, <2>3, Upward
  <2> QED BY <2>4 DEF Holds
<1> DEFINE W == w[top - 1]
           j == at[top].pos
<1>9. W \in Nat /\ N <= W
  <2>1. top - 1 \in 0 .. N /\ top \in 1 .. top
    BY <1>1, <1>3
  <2>2. W \in Nat
    BY <1>1, <1>2, <2>1, WidthsGrow
  <2>3. ~(1 * W < N)
    <3>1. 1 < Len(levels[top]) <=> 1 * W < N
      BY <1>3, <2>1 DEF LevelHolds
    <3> QED BY <1>3, <3>1
  <2> HIDE DEF W
  <2> QED BY <1>1, <2>2, <2>3
<1>10. /\ j \in Nat /\ j * W <= x
       /\ at[top].path = SubtreePath(ls, x, j * W, Span(N, j * W, W))
  BY <1>8 DEF Climbed
<1> HIDE DEF W, j
<1>11. j = 0
  <2>1. ASSUME j # 0 PROVE FALSE
    <3>1. 1 <= j /\ 1 * W = W
      BY <1>9, <1>10, <2>1
    <3>2. 1 * W <= j * W
      BY <1>9, <1>10, <3>1, OffsetGrows
    <3>3. j * W \in Nat
      BY <1>9, <1>10, Offsets
    <3> QED BY <1>1, <1>9, <1>10, <3>1, <3>2, <3>3
  <2> QED BY <2>1
<1>12. j * W = 0 /\ Span(N, 0, W) = N
  BY <1>1, <1>9, <1>11, SpanWhole
<1> QED BY <1>6, <1>10, <1>12 DEF AuditPath, levels


-----------------------------------------------------------------------------
(* The theorems *)

LEMMA LevelsEndInRoot ==
    ASSUME NEW ls, IsList(ls)
    PROVE  LET levels == MerkleLevels(ls) IN levels[Len(levels)] = <<MerkleRoot(ls)>>
<1> DEFINE N == Len(ls)
           levels == MerkleLevels(ls)
           root == MerkleRoot(ls)
<1>1. N \in Nat
  BY ListFacts
<1>2. CASE N = 0
  <2>1. ls = << >>
    BY <1>2, EmptyIsList, ListEqual
  <2>2. levels = << <<EmptyRoot>> >>
    BY <2>1 DEF MerkleLevels
  <2>3. root = EmptyRoot
    BY <1>2 DEF MerkleRoot, SubtreeRoot
  <2> HIDE DEF levels, root
  <2>4. Len(levels) = 1 /\ levels[1] = <<EmptyRoot>>
    BY <2>2
  <2> QED BY <2>3, <2>4 DEF levels, root
<1>3. CASE N # 0
  <2>1. PICK w : IsWidths(w, N)
    BY <1>1, WidthsExist
  <2>2. PICK top \in 1 .. N :
           /\ IsList(levels) /\ Len(levels) = top
           /\ \A h \in 1 .. top : LevelHolds(levels[h], ls, w[h - 1])
           /\ Len(levels[top]) = 1
    BY <1>3, <2>1, LevelsAre
  <2> DEFINE W == w[top - 1]
             v == levels[top]
  <2>3. top \in 1 .. top /\ top - 1 \in 0 .. N
    BY <1>1, <2>2
  <2>4. W \in Nat /\ W >= 1
    <3>1. W \in Nat /\ W >= (top - 1) + 1
      BY <1>1, <2>1, <2>3, WidthsGrow
    <3> HIDE DEF W
    <3> QED BY <2>3, <3>1
  <2>5. LevelHolds(v, ls, W) /\ Len(v) = 1
    BY <2>2, <2>3
  <2> HIDE DEF W, v, levels
  <2>6. N <= W
    <3>1. ~(1 * W < N)
      BY <2>5 DEF LevelHolds
    <3> QED BY <1>1, <2>4, <3>1
  <2>7. 0 * W = 0 /\ Span(N, 0, W) = N
    BY <1>1, <2>4, <2>6, SpanWhole
  <2>8. v[1] = SubtreeRoot(ls, 0, N)
    <3>1. v[0 + 1] = SubtreeRoot(ls, 0 * W, Span(N, 0 * W, W))
      BY <2>5 DEF LevelHolds
    <3> QED BY <2>7, <3>1
  <2>9. v = <<root>>
    <3>1. v[1] = root /\ IsList(v)
      BY <2>5, <2>8 DEF MerkleRoot, LevelHolds
    <3> HIDE DEF root
    <3>2. IsList(<<root>>) /\ Len(<<root>>) = 1 /\ <<root>>[1] = root
      <4>1. <<root>> \in Seq({root})
        OBVIOUS
      <4> QED BY <4>1 DEF IsList
    <3> QED BY <2>5, <3>1, <3>2, ListEqual
  <2> QED BY <2>2, <2>9 DEF v, levels, root
<1> QED BY <1>2, <1>3

\* What a leaf's path is, leads to and proves.
LEMMA PathFacts ==
    ASSUME NEW ls, IsList(ls), NEW i \in 1 .. Len(ls)
    PROVE  /\ AuditPaths(ls)[i] = AuditPath(ls, i - 1)
           /\ IsList(AuditPaths(ls)[i])
           /\ IndexFromPath(AuditPaths(ls)[i], Len(ls)) = i - 1
           /\ RootFromPath(ls[i], AuditPaths(ls)[i]) = MerkleRoot(ls)
<1> DEFINE N == Len(ls)
           x == i - 1
<1>1. N \in Nat /\ x \in 0 .. N - 1 /\ x + 1 = i /\ N \in 1 .. N /\ 0 \in 0 .. N - N
      /\ x \in 0 .. 0 + N - 1
  <2>1. N \in Nat
    BY ListFacts
  <2> QED BY <2>1
<1>2. AuditPaths(ls)[i] = PathThrough(MerkleLevels(ls), x)
  BY DEF AuditPaths
<1>3. PathThrough(MerkleLevels(ls), x) = AuditPath(ls, x)
  BY <1>1, PathsSame
<1>4. AuditPath(ls, x) = SubtreePath(ls, x, 0, N)
  BY DEF AuditPath
<1>5. Fits(ls, 0, N)
  BY <1>1, PathsFit
<1>6. /\ IsList(SubtreePath(ls, x, 0, N))
      /\ RootFromPath(ls[x + 1], SubtreePath(ls, x, 0, N)) = SubtreeRoot(ls, 0, N)
      /\ IndexWithin(SubtreePath(ls, x, 0, N), Part(0, N)) = x
  BY <1>1, <1>5 DEF Fits
<1> QED BY <1>1, <1>2, <1>3, <1>4, <1>6 DEF IndexFromPath, MerkleRoot

LEMMA TreeFits ==
    ASSUME IsList(leaves)
    PROVE  ProofsFit
<1> DEFINE n == Len(leaves)
           root == MerkleRoot(leaves)
           levels == MerkleLevels(leaves)
           paths == AuditPaths(leaves)
           Index(i, m) == IndexFromPath(paths[i], m)
<1>1. levels[Len(levels)] = <<root>>
  BY LevelsEndInRoot
<1>2. ASSUME NEW i \in 1 .. n
      PROVE  /\ paths[i] = AuditPath(leaves, i - 1) /\ IsList(paths[i])
             /\ Index(i, n) = i - 1 /\ RootFromPath(leaves[i], paths[i]) = root
  BY PathFacts
<1> HIDE DEF paths, root, levels
<1>3. ASSUME NEW i \in 1 .. n, NEW j \in 1 .. n
      PROVE  RootFromPath(leaves[j], paths[i]) = root <=> leaves[i] = leaves[j]
  <2>1. IsList(paths[i]) /\ RootFromPath(leaves[i], paths[i]) = root
    BY <1>2
  <2> QED BY <2>1, PathIsOneLeafs
<1>4. n \in Nat
  BY ListFacts
<1>5. ASSUME NEW i \in 1 .. n, NEW j \in 1 .. n, NEW m \in 1 .. n + 1, i # j
      PROVE  Index(i, m) = NoIndex \/ Index(i, m) # Index(j, m)
  <2>1. SUFFICES ASSUME Index(i, m) # NoIndex, Index(i, m) = Index(j, m) PROVE FALSE
    OBVIOUS
  <2>2. IsList(paths[i]) /\ IsList(paths[j]) /\ Index(i, n) = i - 1 /\ Index(j, n) = j - 1
    BY <1>2
  <2>3. Agree(paths[i], paths[j])
    BY <2>2, IndexesAgree
  <2>4. 0 \in Int /\ m \in Nat
    BY <1>4
  <2>5. /\ IndexWithin(paths[i], Part(0, m)) = IndexWithin(paths[j], Part(0, m))
        /\ IndexWithin(paths[i], Part(0, m)) # NoIndex
    BY <2>1 DEF IndexFromPath
  <2>6. IndexWithin(paths[i], Part(0, n)) = IndexWithin(paths[j], Part(0, n))
    BY <1>4, <2>3, <2>4, <2>5 DEF Agree
  <2>7. Index(i, n) = Index(j, n)
    BY <2>6 DEF IndexFromPath
  <2>8. i - 1 = j - 1
    BY <2>2, <2>7
  <2> QED BY <1>4, <1>5, <2>8
<1> HIDE DEF n, Index
<1> QED BY <1>1, <1>2, <1>3, <1>5 DEF ProofsFit, n, paths, root, levels, Index

TreeTyped == IsLeaves(leaves)

\* However many records come into an epoch, its leaves are a list of hashes
\* of records (aat.py:228-230, leaf_hash).
THEOREM TreeTypes == TreeSpec => []TreeTyped
<1>1. TreeInit => TreeTyped
  BY EmptyIsList DEF TreeInit, TreeTyped, IsLeaves
<1>2. TreeTyped /\ [Grow]_leaves => TreeTyped'
  <2> SUFFICES ASSUME TreeTyped, [Grow]_leaves PROVE TreeTyped'
    OBVIOUS
  <2>1. CASE Grow
    <3>1. PICK c : leaves' = Append(leaves, LeafHash(c))
      BY <2>1 DEF Grow
    <3>2. IsList(leaves) /\ \A i \in 1 .. Len(leaves) : \E d : leaves[i] = LeafHash(d)
      BY DEF TreeTyped, IsLeaves
    <3> DEFINE next == Append(leaves, LeafHash(c))
    <3>3. /\ IsList(next) /\ Len(next) = Len(leaves) + 1 /\ Len(leaves) \in Nat
          /\ \A i \in 1 .. Len(leaves) : next[i] = leaves[i]
          /\ next[Len(leaves) + 1] = LeafHash(c)
      BY <3>2, ListAppend, ListFacts
    <3> HIDE DEF next
    <3>4. ASSUME NEW i \in 1 .. Len(next) PROVE \E d : next[i] = LeafHash(d)
      <4>1. i = Len(leaves) + 1 \/ i \in 1 .. Len(leaves)
        BY <3>3
      <4> QED BY <3>2, <3>3, <4>1
    <3>5. IsLeaves(next)
      BY <3>3, <3>4 DEF IsLeaves
    <3> QED BY <3>1, <3>5 DEF TreeTyped, next
  <2>2. CASE UNCHANGED leaves
    BY <2>2 DEF TreeTyped
  <2> QED BY <2>1, <2>2
<1> QED BY <1>1, <1>2, PTL DEF TreeSpec

(***************************************************************************)
(* The levels built bottom up end in the root of the recursive tree, the    *)
(* paths gathered through them are the recursive ones, each leads from its  *)
(* own leaf and from no different one to the root and proves its own index, *)
(* and in a tree of another size no two prove the same one: for any number  *)
(* of leaves (aat.py:228-316; "tested for n = 1..64", aat.py:277).          *)
(***************************************************************************)
THEOREM TreeProofsFit == TreeSpec => []ProofsFit
<1>1. TreeTyped => ProofsFit
  BY TreeFits DEF TreeTyped, IsLeaves
<1> QED BY <1>1, TreeTypes, PTL

\* Any path a verifier may be handed, of any length, with any hashes.
OnlyItsProofs ==
    \A c, p :
      /\ IsPath(p)
      /\ leaves # << >>
      /\ RootFromPath(LeafHash(c), p) = MerkleRoot(leaves)
      => \E i \in 1 .. Len(leaves) :
           /\ leaves[i] = LeafHash(c)
           /\ p = AuditPaths(leaves)[i]
           /\ IndexFromPath(p, Len(leaves)) = i - 1

(***************************************************************************)
(* A path a verifier is handed leads from the hash of a record to the root  *)
(* of an epoch only when the record is a leaf of it and the path is the one *)
(* built for a leaf of that hash, which proves that leaf's index: what      *)
(* makes a root and an index found from a path worth comparing              *)
(* (aat.py:292-316).                                                        *)
(***************************************************************************)
THEOREM TreeProofsSound == TreeSpec => []OnlyItsProofs
<1>1. ASSUME IsLeaves(leaves) PROVE OnlyItsProofs
  <2> DEFINE N == Len(leaves)
  <2>1. IsList(leaves) /\ N \in Nat
    BY <1>1, ListFacts DEF IsLeaves
  <2> SUFFICES ASSUME NEW c, NEW p, IsPath(p), leaves # << >>,
                      RootFromPath(LeafHash(c), p) = MerkleRoot(leaves)
               PROVE  \E i \in 1 .. N :
                        /\ leaves[i] = LeafHash(c)
                        /\ p = AuditPaths(leaves)[i]
                        /\ IndexFromPath(p, N) = i - 1
    BY DEF OnlyItsProofs
  <2>2. N # 0
    BY <2>1, EmptyIsList, ListEqual
  <2>3. N \in 1 .. N /\ 0 \in 0 .. N - N
    BY <2>1, <2>2
  <2>4. Sound(leaves, 0, N)
    BY <1>1, <2>3, PathsSound
  <2>5. PICK x \in 0 .. 0 + N - 1 : leaves[x + 1] = LeafHash(c) /\ p = SubtreePath(leaves, x, 0, N)
    BY <2>4 DEF Sound, MerkleRoot
  <2>6. x + 1 \in 1 .. N /\ (x + 1) - 1 = x
    BY <2>1, <2>5
  <2>7. /\ AuditPaths(leaves)[x + 1] = AuditPath(leaves, x)
        /\ IndexFromPath(AuditPaths(leaves)[x + 1], N) = x
    BY <2>1, <2>6, PathFacts
  <2> QED BY <2>5, <2>6, <2>7 DEF AuditPath
<1> QED BY <1>1, TreeTypes, PTL DEF TreeTyped

-----------------------------------------------------------------------------
(* Records: functions from the field names they carry                       *)

IsRecord(f) == f = [k \in DOMAIN f |-> f[k]]

LEMMA MergeFacts ==
    ASSUME NEW d, NEW e
    PROVE  /\ IsRecord(d ++ e)
           /\ DOMAIN (d ++ e) = DOMAIN d \cup DOMAIN e
           /\ \A k \in DOMAIN d : (d ++ e)[k] = d[k]
           /\ \A k \in DOMAIN e \ DOMAIN d : (d ++ e)[k] = e[k]
BY DEF ++, IsRecord

LEMMA WithoutFacts ==
    ASSUME NEW d, NEW fields
    PROVE  /\ IsRecord(Without(d, fields))
           /\ DOMAIN Without(d, fields) = DOMAIN d \ fields
           /\ \A k \in DOMAIN d \ fields : Without(d, fields)[k] = d[k]
BY DEF Without, IsRecord

LEMMA SameRecord ==
    ASSUME NEW f, IsRecord(f), NEW g, IsRecord(g), DOMAIN f = DOMAIN g,
           \A k \in DOMAIN f : f[k] = g[k]
    PROVE  f = g
BY DEF IsRecord

-----------------------------------------------------------------------------
(* What a host cannot check                                                 *)

\* A token on two hosts: both that judge it agree, one without openssl finds
\* nothing, and only a token and a trust anchor can leave it unjudged.
LEMMA TokenOnHosts ==
    ASSUME NEW a, NEW ca \in {None, Genuine, "missing"}, NEW h \in Hosts, NEW g \in Hosts
    PROVE  /\ h.openssl # "absent" /\ g.openssl # "absent" =>
                \/ "not_run" \in {TsaVerdict(a, h, ca), TsaVerdict(a, g, ca)}
                \/ TsaVerdict(a, h, ca) = TsaVerdict(a, g, ca)
           /\ h.openssl = "absent" => TsaVerdict(a, h, ca) \in {"none", "unchecked"}
           /\ TsaVerdict(a, h, ca) = "not_run" => /\ ca = Genuine
                                                  /\ "tsa" \in DOMAIN a
                                                  /\ h.openssl = "fails" \/ ~h.tmp
           /\ TsaVerdict(a, h, ca) = "good" => ca = Genuine /\ h.openssl = "runs"
<1> DEFINE has    == "tsa" \in DOMAIN a
           token  == a.tsa.token
           digest == Imprint(a.merkle_root)
<1>1. ASSUME NEW x
      PROVE  /\ ~has => TsaVerdict(a, x, ca) = "none"
             /\ has => TsaVerdict(a, x, ca) = VerifyToken(x, token, digest, ca)
  BY DEF TsaVerdict
<1>2. ASSUME NEW x
      PROVE  LET T == VerifyToken(x, token, digest, ca) IN
             /\ x.openssl = "absent" \/ ca = None => T = "unchecked"
             /\ x.openssl # "absent" /\ ca # None /\ ca = "missing" => T = "bad"
             /\ x.openssl # "absent" /\ ca # None /\ ca # "missing" =>
                  /\ ~x.tmp => T = "not_run"
                  /\ x.tmp /\ token = Garbage => T = "bad"
                  /\ x.tmp /\ token # Garbage /\ x.openssl = "fails" => T = "not_run"
                  /\ x.tmp /\ token # Garbage /\ x.openssl # "fails" =>
                       T = IF token = Token(digest, ca) THEN "good" ELSE "bad"
  BY Zenon DEF VerifyToken
<1>3. h.openssl \in {"absent", "runs", "fails"}
  BY DEF Hosts, OpensslStates
<1> HIDE DEF has, token, digest
<1>4. CASE ~has
  <2>1. TsaVerdict(a, h, ca) = "none" /\ TsaVerdict(a, g, ca) = "none"
    BY <1>1, <1>4
  <2>2. "tsa" \notin DOMAIN a
    BY <1>4 DEF has
  <2> QED BY <2>1, <2>2
<1>5. CASE has
  <2>1. /\ TsaVerdict(a, h, ca) = VerifyToken(h, token, digest, ca)
        /\ TsaVerdict(a, g, ca) = VerifyToken(g, token, digest, ca)
    BY <1>1, <1>5
  <2>2. "tsa" \in DOMAIN a
    BY <1>5 DEF has
  <2>3. h.openssl # "absent" /\ g.openssl # "absent" =>
           \/ "not_run" \in {TsaVerdict(a, h, ca), TsaVerdict(a, g, ca)}
           \/ TsaVerdict(a, h, ca) = TsaVerdict(a, g, ca)
    BY <2>1, <1>2
  <2>4. h.openssl = "absent" => TsaVerdict(a, h, ca) \in {"none", "unchecked"}
    BY <2>1, <1>2
  <2>5. TsaVerdict(a, h, ca) = "not_run" => ca = Genuine /\ (h.openssl = "fails" \/ ~h.tmp)
    BY <2>1, <1>2
  <2>6. TsaVerdict(a, h, ca) = "good" => ca = Genuine /\ h.openssl = "runs"
    BY <2>1, <1>2, <1>3
  <2> QED BY <2>2, <2>3, <2>4, <2>5, <2>6
<1> QED BY <1>4, <1>5

\* What `aat verify --epochs` answers on two hosts, of one chain.
LEMMA ExitOnHosts ==
    ASSUME NEW chainOk, NEW fit, NEW as, NEW ca \in {None, Genuine, "missing"},
           NEW h \in Hosts, NEW g \in Hosts
    PROVE  /\ h.openssl # "absent" /\ g.openssl # "absent" =>
                \/ 74 \in {ExitCode(chainOk, fit, as, h, ca), ExitCode(chainOk, fit, as, g, ca)}
                \/ ExitCode(chainOk, fit, as, h, ca) = ExitCode(chainOk, fit, as, g, ca)
           /\ h.openssl = "absent" /\ ExitCode(chainOk, fit, as, h, ca) = 1
                => ExitCode(chainOk, fit, as, g, ca) \in {1, 74}
           /\ ExitCode(chainOk, fit, as, h, ca) = 74 =>
                /\ ca = Genuine
                /\ \E a \in as : "tsa" \in DOMAIN a
                /\ h.openssl = "fails" \/ ~h.tmp
           /\ TimeVerified(as, h, ca) => ca = Genuine /\ h.openssl = "runs"
<1> DEFINE V(a, x) == TsaVerdict(a, x, ca)
           C(x)    == ExitCode(chainOk, fit, as, x, ca)
           Held(x) == \E a \in as : V(a, x) = "not_run"
           Bad(x)  == \E a \in as : V(a, x) = "bad"
           Imprints == \E a \in as : "tsa" \in DOMAIN a /\ a.tsa.imprint # Imprint(a.merkle_root)
<1>0. ASSUME NEW x PROVE TsaProblems(as, x, ca) = {} <=> ~Imprints /\ ~Bad(x)
  BY DEF TsaProblems, If
<1>10. ASSUME NEW x
       PROVE  LET epochs == VerifyEpochs(fit, as, x, ca) IN
              /\ Held(x) => epochs = "not_run"
              /\ ~Held(x) /\ ~Imprints /\ ~Bad(x) /\ fit => epochs = "ok"
              /\ ~Held(x) /\ ~(~Imprints /\ ~Bad(x) /\ fit) => epochs = "problem"
  <2> HIDE DEF Imprints, Bad
  <2> QED BY <1>0, Zenon DEF VerifyEpochs
<1>11. ASSUME NEW x
       PROVE  LET epochs == VerifyEpochs(fit, as, x, ca) IN
              /\ as # None /\ epochs = "not_run" => C(x) = 74
              /\ chainOk /\ (as # None => epochs = "ok") => C(x) = 0
              /\ ~(chainOk /\ (as # None => epochs = "ok")) /\ ~(as # None /\ epochs = "not_run")
                   => C(x) = 1
  BY DEF ExitCode
<1>1. ASSUME NEW x
      PROVE  /\ C(x) = 74 <=> as # None /\ Held(x)
             /\ C(x) = 0 <=> /\ ~(as # None /\ Held(x))
                             /\ chainOk
                             /\ as # None => ~Imprints /\ ~Bad(x) /\ fit
             /\ C(x) \in {0, 1, 74}
  <2> DEFINE epochs == VerifyEpochs(fit, as, x, ca)
             I == Imprints
             B == Bad(x)
             H == Held(x)
  <2>1. /\ H => epochs = "not_run"
        /\ ~H /\ ~I /\ ~B /\ fit => epochs = "ok"
        /\ ~H /\ ~(~I /\ ~B /\ fit) => epochs = "problem"
    BY <1>10
  <2>2. /\ as # None /\ epochs = "not_run" => C(x) = 74
        /\ chainOk /\ (as # None => epochs = "ok") => C(x) = 0
        /\ ~(chainOk /\ (as # None => epochs = "ok")) /\ ~(as # None /\ epochs = "not_run")
             => C(x) = 1
    BY <1>11
  <2>3. /\ C(x) = 74 <=> as # None /\ H
        /\ C(x) = 0 <=> /\ ~(as # None /\ H)
                        /\ chainOk
                        /\ as # None => ~I /\ ~B /\ fit
        /\ C(x) \in {0, 1, 74}
    <3> HIDE DEF epochs, I, B, H, C
    <3>1. 0 # 1 /\ 0 # 74 /\ 1 # 74 /\ "ok" # "not_run" /\ "ok" # "problem" /\ "problem" # "not_run"
      OBVIOUS
    <3>2. CASE as = None
      BY <2>2, <3>1, <3>2, Zenon
    <3>3. CASE as # None /\ H
      BY <2>1, <2>2, <3>1, <3>3, Zenon
    <3>4. CASE as # None /\ ~H /\ ~I /\ ~B /\ fit
      BY <2>1, <2>2, <3>1, <3>4, Zenon
    <3>5. CASE as # None /\ ~H /\ ~(~I /\ ~B /\ fit)
      BY <2>1, <2>2, <3>1, <3>5, Zenon
    <3> QED BY <3>2, <3>3, <3>4, <3>5, Zenon
  <2> QED BY <2>3
<1>2. \A a \in as :
         /\ h.openssl # "absent" /\ g.openssl # "absent" =>
               \/ "not_run" \in {V(a, h), V(a, g)}
               \/ V(a, h) = V(a, g)
         /\ h.openssl = "absent" => V(a, h) \in {"none", "unchecked"}
         /\ V(a, h) = "not_run" => /\ ca = Genuine
                                   /\ "tsa" \in DOMAIN a
                                   /\ h.openssl = "fails" \/ ~h.tmp
         /\ "tsa" \in DOMAIN a /\ V(a, h) = "good" => ca = Genuine /\ h.openssl = "runs"
  BY TokenOnHosts
<1>3. TimeVerified(as, h, ca) => \E a \in as : "tsa" \in DOMAIN a /\ V(a, h) = "good"
  BY DEF TimeVerified
<1> HIDE DEF V, C, Imprints
<1>4. h.openssl # "absent" /\ g.openssl # "absent" => 74 \in {C(h), C(g)} \/ C(h) = C(g)
  <2>1. ASSUME h.openssl # "absent", g.openssl # "absent", C(h) # 74, C(g) # 74
        PROVE  as # None => (Bad(h) <=> Bad(g))
    BY <1>1, <1>2, <2>1
  <2> QED BY <1>1, <2>1
<1>5. h.openssl = "absent" /\ C(h) = 1 => C(g) \in {1, 74}
  <2>1. h.openssl = "absent" => ~Bad(h)
    BY <1>2
  <2>2. 0 # 1 /\ 1 # 74
    OBVIOUS
  <2>3. SUFFICES ASSUME h.openssl = "absent", C(h) = 1, C(g) = 0 PROVE FALSE
    BY <1>1, Zenon
  <2>4. chainOk /\ (as # None => ~Imprints /\ fit)
    BY <1>1, <2>3, Zenon
  <2>5. ~(as # None /\ Held(h)) /\ C(h) # 0
    BY <1>1, <2>2, <2>3, Zenon
  <2> QED BY <1>1, <2>1, <2>3, <2>4, <2>5, Zenon
<1>6. C(h) = 74 => /\ ca = Genuine
                   /\ \E a \in as : "tsa" \in DOMAIN a
                   /\ h.openssl = "fails" \/ ~h.tmp
  BY <1>1, <1>2
<1>7. TimeVerified(as, h, ca) => ca = Genuine /\ h.openssl = "runs"
  BY <1>2, <1>3
<1> QED BY <1>4, <1>5, <1>6, <1>7 DEF C

\* The exit code is about the chain: hosts that run the checks agree, and 74
\* stands only for a token that was there and could not be checked
\* (timestamp.py:36-52, aat.py:1651).
THEOREM TrailNotRun == TrailSpec => []NotRunIsNoVerdict
<1>1. NotRunIsNoVerdict
  <2> DEFINE chainOk(s) == VerifyChain(chains[s], Party(FALSE))
             fit(s)     == BatchesFit(chains[s], anchors, FALSE)
             C(s, x, ca) == ExitCode(chainOk(s), fit(s), anchors, x, ca)
  <2>1. ASSUME NEW s, NEW ca \in {None, Genuine, "missing"}, NEW h \in Hosts, NEW g \in Hosts
        PROVE  /\ "absent" \notin {h.openssl, g.openssl} /\ 74 \notin {C(s, h, ca), C(s, g, ca)}
                     => C(s, h, ca) = C(s, g, ca)
               /\ h.openssl = "absent" /\ C(s, h, ca) = 1 => C(s, g, ca) \in {1, 74}
               /\ C(s, h, ca) = 74 => /\ ca = Genuine
                                      /\ \E a \in anchors : "tsa" \in DOMAIN a
                                      /\ h.openssl = "fails" \/ ~h.tmp
               /\ TimeVerified(anchors, h, ca) => ca = Genuine /\ h.openssl = "runs"
    <3> HIDE DEF chainOk, fit
    <3> QED BY ExitOnHosts
  <2> SUFFICES ASSUME NEW s \in DOMAIN chains, NEW ca \in {None, Genuine, "missing"}
               PROVE  LET exits == {[host |-> h, code |-> C(s, h, ca)] :
                                      h \in {h \in Hosts : h.reply = "granted"}}
                      IN  \A x, y \in exits :
                            /\ "absent" \notin {x.host.openssl, y.host.openssl}
                                 /\ 74 \notin {x.code, y.code} => x.code = y.code
                            /\ x.host.openssl = "absent" /\ x.code = 1 => y.code \in {1, 74}
                            /\ x.code = 74 => /\ ca = Genuine
                                              /\ \E a \in anchors : "tsa" \in DOMAIN a
                                              /\ x.host.openssl = "fails" \/ ~x.host.tmp
                            /\ TimeVerified(anchors, x.host, ca)
                                 => ca = Genuine /\ x.host.openssl = "runs"
    BY DEF NotRunIsNoVerdict
  <2> HIDE DEF C
  <2> QED BY <2>1
<1> QED BY <1>1, PTL


-----------------------------------------------------------------------------
(* What every chain is made of: the inductive invariant                     *)

\* What the names of a run stand for, and what the caller's key arguments are:
\* pq an ML-DSA-65 key, classical and the deleting authority's an ES256 one.
Signs(g) == g.pq # None \/ g.classical # None
Both(g)  == g.pq # None /\ g.classical # None
Main(g)  == IF g.pq # None THEN g.pq ELSE g.classical

IsSigner(g) == /\ g.pq # None => g.pq \in Keys /\ AlgOf[g.pq] = "ML-DSA-65"
               /\ g.classical # None => g.classical \in Keys /\ AlgOf[g.classical] = "ES256"

TrailConstants ==
    /\ IsAtom(None) /\ None \notin Keys
    /\ Deleter \in Keys /\ AlgOf[Deleter] = "ES256"
    /\ None \notin Exports
    /\ \A h \in Exports : IsSigner(h.signer)
    /\ \A e \in Templates : "time" \in DOMAIN e /\ e.time \in Int
    /\ None # Genuine /\ Genuine # "missing"
    /\ MaxOmega \in Nat /\ MaxWork \in Nat

\* The five signature fields are what a signer of these keys puts.
SignedBy(r, g) ==
    /\ Signs(g) => /\ {"signature", "sig_alg", "signer_kid"} \subseteq DOMAIN r
                   /\ r.signature = Signature(Main(g), SigningInput(r))
                   /\ r.sig_alg = AlgOf[Main(g)]
                   /\ r.signer_kid = Main(g)
    /\ Both(g) => /\ {"signature_classical", "signer_kid_classical"} \subseteq DOMAIN r
                  /\ r.signature_classical = Signature(g.classical, SigningInput(r))
                  /\ r.signer_kid_classical = g.classical
    /\ ~Signs(g) => {"signature", "sig_alg", "signer_kid"} \cap DOMAIN r = {}
    /\ ~Both(g) => {"signature_classical", "signer_kid_classical"} \cap DOMAIN r = {}

WellSigned(r, h) ==
    \/ SignedBy(r, h.signer)
    \/ /\ Signs(h.signer)
       /\ IsTombstone(r) \/ IsClose(r)
       /\ SignedBy(r, DeleterAlone)

TextFields == Mandatory \cup {"recording_component", "human_override", "tombstone_hash"}

\* What all the records of an agent's session s, exported as h, share.
InSession(r, s, agent, h) ==
    /\ IsRecord(r)
    /\ Mandatory \subseteq DOMAIN r
    /\ DOMAIN r \subseteq TextFields \cup SignatureFields \cup {"batch"}
    /\ r.session_id = s /\ r.agent_id = agent
    /\ r.timestamp \in Int
    /\ r.trust_level = h.trust
    /\ "recording_component" \in DOMAIN r <=> h.recorder # None
    /\ h.recorder # None => r.recording_component = h.recorder

IsGenesis(r, s, h) ==
    /\ r.record_id = <<"genesis", s>>
    /\ r.action_type = "lifecycle"
    /\ {"event", "recording_mode"} \subseteq DOMAIN r.action_detail
    /\ r.action_detail.event = "session_start"
    /\ h.recorder = None => /\ r.action_detail.recording_mode = "self"
                            /\ "recording_component_id" \notin DOMAIN r.action_detail
    /\ h.recorder # None => /\ r.action_detail.recording_mode = "independent"
                            /\ "recording_component_id" \in DOMAIN r.action_detail
                            /\ r.action_detail.recording_component_id = h.recorder
    /\ r.outcome = "success" /\ r.record_phase = "concurrent"
    /\ r.parent_record_id = None /\ r.prev_hash = None
    /\ "tombstone_hash" \notin DOMAIN r
    /\ SignedBy(r, h.signer)

OfEntry(r) == \E seed : r.record_id = <<"record", seed>>

IsActionRecord(r, h) ==
    /\ OfEntry(r)
    /\ r.action_type \in {"tool_call", "decision"}
    /\ DetailRequired[r.action_type] \subseteq DOMAIN r.action_detail
    /\ <<r.outcome, r.record_phase>> \in {<<"success", "post_execution">>,
                                          <<"denied", "pre_execution">>,
                                          <<"escalated", "pre_execution">>}
    /\ "tombstone_hash" \notin DOMAIN r
    /\ SignedBy(r, h.signer)

IsErased(r, h) ==
    /\ OfEntry(r)
    /\ r.action_type = "lifecycle"
    /\ {"event", "deletion_reason", "deleted_at", "original_action_type"}
         \subseteq DOMAIN r.action_detail
    /\ r.action_detail.event = "record_deleted"
    /\ r.action_detail.original_action_type \in {"tool_call", "decision"}
    /\ r.action_detail.deleted_at \in Int /\ r.action_detail.deleted_at >= r.timestamp
    /\ r.outcome = "success" /\ r.record_phase \in {"post_execution", "pre_execution"}
    /\ "tombstone_hash" \in DOMAIN r
    /\ IsRecord(r.tombstone_hash) /\ ~IsTombstone(r.tombstone_hash)
    /\ WellSigned(r, h)

IsClosing(r, h, hashes) ==
    /\ \E s, d : r.record_id = <<"close", s, d>>
    /\ r.action_type = "lifecycle"
    /\ {"event", "session_hash"} \subseteq DOMAIN r.action_detail
    /\ r.action_detail.event = "session_end"
    /\ r.action_detail.session_hash = hashes
    /\ r.outcome = "success" /\ r.record_phase = "post_execution"
    /\ "tombstone_hash" \notin DOMAIN r
    /\ WellSigned(r, h)

\* A record names the one before it and holds its hash, or, of a tombstone,
\* the original's or that of an earlier tombstone of it.
Linked(r, prev) ==
    /\ r.parent_record_id = prev.record_id
    /\ IsRecord(r.prev_hash)
    /\ \/ r.prev_hash = RecordHash(prev)
       \/ IsTombstone(prev) /\ r.prev_hash = prev.tombstone_hash
       \/ IsTombstone(prev) /\ IsTombstone(r.prev_hash)

Hashes(ch, i) == [j \in 1 .. i - 1 |-> ch[j + 1].prev_hash]

\* No record of the chain is of an epoch.
Unanchored(ch) == \A i \in 1 .. Len(ch) : "batch" \notin DOMAIN ch[i]

ChainOk(ch, s, h) ==
    /\ IsList(ch) /\ Len(ch) # 0
    /\ h.recorder # None => h.recorder # ch[1].agent_id /\ Signs(h.signer)
    /\ \A i \in 1 .. Len(ch) : InSession(ch[i], s, ch[1].agent_id, h)
    /\ IsGenesis(ch[1], s, h)
    /\ \A i \in 2 .. Len(ch) : \/ IsActionRecord(ch[i], h)
                               \/ IsErased(ch[i], h)
                               \/ i = Len(ch) /\ IsClosing(ch[i], h, Hashes(ch, i))
    /\ \A i \in 2 .. Len(ch) : Linked(ch[i], ch[i - 1])
    /\ \A i, j \in 1 .. Len(ch) : i <= j => ch[i].timestamp <= ch[j].timestamp
    /\ \A i, j \in 1 .. Len(ch) : ch[i].record_id = ch[j].record_id => i = j

EntriesOk == /\ IsList(omega) /\ Len(omega) <= MaxOmega
             /\ \A n \in 1 .. Len(omega) : omega[n].time \in Int

CountsOk == /\ IsFiniteSet(DOMAIN chains)
            /\ calls \in 0 .. MaxWork
            /\ DOMAIN sealed = Anchored(anchors)

ChainsOk ==
    /\ how = None => chains = << >>
    /\ how # None => /\ how \in Exports
                     /\ how.trust \in TrustLevels
                     /\ \A s \in DOMAIN chains : ChainOk(chains[s], s, how)

TrailInv == EntriesOk /\ CountsOk /\ ChainsOk


-----------------------------------------------------------------------------
(* What the invariant says of one record                                    *)

LEMMA HashFacts ==
    ASSUME NEW r
    PROVE  /\ IsRecord(RecordHash(r))
           /\ DOMAIN RecordHash(r) = DOMAIN r \ {"batch"}
           /\ \A k \in DOMAIN r \ ({"batch"} \cup SignatureValueFields) : RecordHash(r)[k] = r[k]
           /\ \A k \in DOMAIN r \cap SignatureValueFields :
                RecordHash(r)[k] = IF r[k].over = SigningInput(r)
                                   THEN [by |-> r[k].by, form |-> r[k].form] ELSE r[k]
           /\ IsTombstone(RecordHash(r)) <=> IsTombstone(r)
<1> DEFINE d == RecordHash(r)
<1>1. d = [k \in DOMAIN r \ {"batch"} |->
             IF k \in SignatureValueFields /\ r[k].over = SigningInput(r)
             THEN [by |-> r[k].by, form |-> r[k].form] ELSE r[k]]
  BY DEF RecordHash
<1> HIDE DEF d
<1>2. DOMAIN d = DOMAIN r \ {"batch"}
  BY <1>1
<1>3. \A k \in DOMAIN r \ ({"batch"} \cup SignatureValueFields) : d[k] = r[k]
  BY <1>1
<1>4. ASSUME NEW k \in DOMAIN r \cap SignatureValueFields
      PROVE  d[k] = IF r[k].over = SigningInput(r)
                    THEN [by |-> r[k].by, form |-> r[k].form] ELSE r[k]
  <2>1. k # "batch"
    BY <1>4 DEF SignatureValueFields
  <2> QED BY <1>1, <2>1
<1>5. ASSUME NEW k \in {"action_type", "action_detail"}
      PROVE  /\ k \in DOMAIN d <=> k \in DOMAIN r
             /\ k \in DOMAIN r => d[k] = r[k]
  <2>1. k \notin {"batch"} \cup SignatureValueFields
    BY DEF SignatureValueFields
  <2> QED BY <1>2, <1>3, <2>1
<1>6. IsTombstone(d) <=> IsTombstone(r)
  BY <1>5 DEF IsTombstone, IsEvent, Event, Get
<1>7. IsRecord(d)
  BY <1>1, <1>2 DEF IsRecord
<1> QED BY <1>2, <1>3, <1>4, <1>6, <1>7 DEF d

\* A hash, a list of hashes and a record are no missing value.
LEMMA RecordIsNotNone ==
    ASSUME IsAtom(None), NEW r, IsRecord(r)
    PROVE  r # None
BY DEF IsAtom, IsRecord

\* What a record is, is told by its action and its event.
LEMMA ActionTold ==
    ASSUME NEW h, NEW r, {"action_type", "action_detail"} \subseteq DOMAIN r
    PROVE  /\ IsActionRecord(r, h) => \A ev : ~IsEvent(r, ev)
           /\ \A s : IsGenesis(r, s, h) => \A ev : IsEvent(r, ev) <=> ev = "session_start"
           /\ IsErased(r, h) => \A ev : IsEvent(r, ev) <=> ev = "record_deleted"
           /\ \A hashes : IsClosing(r, h, hashes) => \A ev : IsEvent(r, ev) <=> ev = "session_end"
BY DEF IsActionRecord, IsGenesis, IsErased, IsClosing, IsEvent, Event, Get

\* The four kinds of record, by their place in the chain.
LEMMA Kinds ==
    ASSUME NEW ch, NEW s, NEW h, ChainOk(ch, s, h), NEW i \in 1 .. Len(ch)
    PROVE  /\ InSession(ch[i], s, ch[1].agent_id, h)
           /\ \/ /\ i = 1 /\ IsGenesis(ch[i], s, h)
                 /\ IsEvent(ch[i], "session_start") /\ ~IsTombstone(ch[i]) /\ ~IsClose(ch[i])
              \/ /\ i # 1 /\ IsActionRecord(ch[i], h)
                 /\ ~IsEvent(ch[i], "session_start") /\ ~IsTombstone(ch[i]) /\ ~IsClose(ch[i])
              \/ /\ i # 1 /\ IsErased(ch[i], h)
                 /\ ~IsEvent(ch[i], "session_start") /\ IsTombstone(ch[i]) /\ ~IsClose(ch[i])
              \/ /\ i # 1 /\ i = Len(ch) /\ IsClosing(ch[i], h, Hashes(ch, i))
                 /\ ~IsEvent(ch[i], "session_start") /\ ~IsTombstone(ch[i]) /\ IsClose(ch[i])
<1>1. InSession(ch[i], s, ch[1].agent_id, h)
  BY DEF ChainOk
<1>2. {"action_type", "action_detail"} \subseteq DOMAIN ch[i]
  BY <1>1 DEF InSession, Mandatory
<1>3. Len(ch) \in Nat
  BY ListFacts DEF ChainOk
<1>4. CASE i = 1
  <2>1. IsGenesis(ch[i], s, h)
    BY <1>4 DEF ChainOk
  <2> QED BY <1>1, <1>2, <1>4, <2>1, ActionTold DEF IsTombstone, IsClose
<1>5. CASE i # 1
  <2>1. i \in 2 .. Len(ch)
    BY <1>3, <1>5
  <2>2. \/ IsActionRecord(ch[i], h)
        \/ IsErased(ch[i], h)
        \/ i = Len(ch) /\ IsClosing(ch[i], h, Hashes(ch, i))
    BY <2>1 DEF ChainOk
  <2>3. /\ IsActionRecord(ch[i], h) => \A ev : ~IsEvent(ch[i], ev)
        /\ IsErased(ch[i], h) => \A ev : IsEvent(ch[i], ev) <=> ev = "record_deleted"
        /\ IsClosing(ch[i], h, Hashes(ch, i)) => \A ev : IsEvent(ch[i], ev) <=> ev = "session_end"
    BY <1>2, ActionTold
  <2>4. /\ IsActionRecord(ch[i], h) => ~IsEvent(ch[i], "session_start") /\ ~IsTombstone(ch[i])
                                         /\ ~IsClose(ch[i])
        /\ IsErased(ch[i], h) => ~IsEvent(ch[i], "session_start") /\ IsTombstone(ch[i])
                                   /\ ~IsClose(ch[i])
        /\ IsClosing(ch[i], h, Hashes(ch, i)) => ~IsEvent(ch[i], "session_start")
                                   /\ ~IsTombstone(ch[i]) /\ IsClose(ch[i])
    BY <2>3 DEF IsTombstone, IsClose
  <2> QED BY <1>1, <1>5, <2>2, <2>4
<1> QED BY <1>4, <1>5

\* Each is signed by the session's signer, or by the deleting authority.
LEMMA SignedSomehow ==
    ASSUME NEW ch, NEW s, NEW h, ChainOk(ch, s, h), NEW i \in 1 .. Len(ch)
    PROVE  WellSigned(ch[i], h)
BY Kinds DEF IsGenesis, IsActionRecord, IsErased, IsClosing, WellSigned


-----------------------------------------------------------------------------
(* What verify_chain finds in a chain: problem by problem                   *)

LEMMA NoFieldProblems ==
    ASSUME NEW ch, NEW s, NEW h, ChainOk(ch, s, h), h.trust \in TrustLevels,
           NEW i \in 1 .. Len(ch)
    PROVE  FieldProblems(ch, i) = {}
<1> DEFINE r == ch[i]
<1>1. Len(ch) \in Nat
  BY ListFacts DEF ChainOk
<1>2. ~ \E j \in 1 .. i - 1 : ch[j].record_id = r.record_id
  <2>1. \A j \in 1 .. i - 1 : j \in 1 .. Len(ch) /\ j # i
    BY <1>1
  <2> QED BY <2>1 DEF ChainOk
<1>3. InSession(r, s, ch[1].agent_id, h)
  BY Kinds
<1>4. Mandatory \subseteq DOMAIN r /\ r.trust_level \in TrustLevels
  BY <1>3 DEF InSession
<1>5. {"action_type", "outcome", "trust_level", "record_phase"} \subseteq DOMAIN r
  BY <1>4 DEF Mandatory
<1>6. /\ r.action_type \in {"lifecycle", "tool_call", "decision"}
      /\ r.outcome \in {"success", "denied", "escalated"}
      /\ r.record_phase \in {"concurrent", "pre_execution", "post_execution"}
  <2>1. CASE IsActionRecord(r, h)
    BY <2>1 DEF IsActionRecord
  <2>2. CASE ~IsActionRecord(r, h)
    BY <2>2, Kinds DEF IsGenesis, IsErased, IsClosing
  <2> QED BY <2>1, <2>2
<1>7. /\ Get(r, "action_type") \in ActionTypes
      /\ Get(r, "outcome") \in Outcomes
      /\ Get(r, "trust_level") \in TrustLevels
      /\ Get(r, "record_phase") \in RecordPhases
  BY <1>4, <1>5, <1>6 DEF Get, ActionTypes, Outcomes, RecordPhases
<1> QED BY <1>2, <1>4, <1>7 DEF FieldProblems, If

LEMMA NoIdentityProblems ==
    ASSUME NEW ch, NEW s, NEW h, ChainOk(ch, s, h), NEW i \in 1 .. Len(ch)
    PROVE  IdentityProblems(ch, i) = {}
<1>1. Len(ch) \in Nat /\ i \in 1 .. Len(ch) /\ 1 \in 1 .. Len(ch)
  BY ListFacts DEF ChainOk
<1>2. /\ ch[i].session_id = s /\ ch[1].session_id = s /\ ch[i].agent_id = ch[1].agent_id
      /\ ch[i].timestamp \in Int
  BY <1>1 DEF ChainOk, InSession
<1>3. i > 1 => ~(ch[i].timestamp < ch[i - 1].timestamp)
  <2>1. i > 1 => i - 1 \in 1 .. Len(ch) /\ i - 1 <= i
    BY <1>1
  <2>2. i > 1 => ch[i - 1].timestamp <= ch[i].timestamp /\ ch[i - 1].timestamp \in Int
    BY <2>1, <1>1 DEF ChainOk, InSession
  <2> QED BY <2>2, <1>2
<1> QED BY <1>2, <1>3 DEF IdentityProblems, If

LEMMA NoDetailProblems ==
    ASSUME NEW ch, NEW s, NEW h, ChainOk(ch, s, h), NEW i \in 1 .. Len(ch)
    PROVE  DetailProblems(ch, i) = {}
<1> DEFINE r == ch[i]
<1>1. {"action_type", "action_detail"} \subseteq DOMAIN r
  BY Kinds DEF InSession, Mandatory
<1>2. /\ r.action_type \in {"tool_call", "decision"} \/ r.action_type = "lifecycle"
      /\ DetailRequired[r.action_type] \subseteq DOMAIN r.action_detail
  <2>1. CASE IsActionRecord(r, h)
    BY <2>1 DEF IsActionRecord
  <2>2. CASE ~IsActionRecord(r, h)
    <3>1. r.action_type = "lifecycle" /\ "event" \in DOMAIN r.action_detail
      BY <2>2, Kinds DEF IsGenesis, IsErased, IsClosing
    <3>2. DetailRequired["lifecycle"] = {"event"}
      BY DEF DetailRequired
    <3> QED BY <3>1, <3>2
  <2> QED BY <2>1, <2>2
<1>3. \A t \in {"tool_call", "decision", "lifecycle"} : DetailRequired[t] # {}
  BY DEF DetailRequired
<1>4. DOMAIN r.action_detail # {}
  BY <1>2, <1>3
<1>5. r.action_type = "lifecycle" => Event(r) \in LifecycleEvents
  <2>1. r.action_type = "lifecycle" =>
           /\ "event" \in DOMAIN r.action_detail
           /\ r.action_detail.event \in {"session_start", "record_deleted", "session_end"}
    <3>1. CASE IsActionRecord(r, h)
      BY <3>1 DEF IsActionRecord
    <3>2. CASE ~IsActionRecord(r, h)
      BY <3>2, Kinds DEF IsGenesis, IsErased, IsClosing
    <3> QED BY <3>1, <3>2
  <2> QED BY <2>1, <1>1 DEF Event, Get, LifecycleEvents
<1> QED BY <1>2, <1>4, <1>5 DEF DetailProblems, If

LEMMA NoCallProblems ==
    ASSUME NEW ch, NEW s, NEW h, ChainOk(ch, s, h), NEW i \in 1 .. Len(ch)
    PROVE  CallProblems(ch, i) = {} /\ TrustProblems(ch, i) = {} /\ NonceProblems(ch, i) = {}
<1> DEFINE r == ch[i]
<1>1. r.action_type \in {"lifecycle", "tool_call", "decision"}
  <2>1. CASE IsActionRecord(r, h)
    BY <2>1 DEF IsActionRecord
  <2>2. CASE ~IsActionRecord(r, h)
    BY <2>2, Kinds DEF IsGenesis, IsErased, IsClosing
  <2> QED BY <2>1, <2>2
<1>2. "nonce" \notin DOMAIN r
  BY Kinds DEF InSession, TextFields, Mandatory, SignatureFields
<1> QED BY <1>1, <1>2 DEF CallProblems, TrustProblems, NonceProblems, If

LEMMA NoPhaseProblems ==
    ASSUME NEW ch, NEW s, NEW h, ChainOk(ch, s, h), NEW i \in 1 .. Len(ch)
    PROVE  PhaseProblems(ch, i) = {}
<1> DEFINE r == ch[i]
<1>1. <<r.action_type, r.outcome>> \in PreExecutionRequired => r.record_phase = "pre_execution"
  <2>1. CASE IsActionRecord(r, h)
    BY <2>1 DEF IsActionRecord, PreExecutionRequired
  <2>2. CASE ~IsActionRecord(r, h)
    <3>1. r.action_type = "lifecycle"
      BY <2>2, Kinds DEF IsGenesis, IsErased, IsClosing
    <3> QED BY <3>1 DEF PreExecutionRequired
  <2> QED BY <2>1, <2>2
<1>2. IsEvent(r, "session_start") => r.record_phase = "concurrent"
  BY Kinds DEF IsGenesis
<1>3. IsClose(r) => r.record_phase = "post_execution"
  BY Kinds DEF IsClosing
<1> QED BY <1>1, <1>2, <1>3 DEF PhaseProblems, If

LEMMA NoCloseProblems ==
    ASSUME IsAtom(None), NEW ch, NEW s, NEW h, ChainOk(ch, s, h), NEW i \in 1 .. Len(ch)
    PROVE  CloseProblems(ch, i) = {}
<1> DEFINE r == ch[i]
<1>1. CASE ~IsClose(r)
  BY <1>1 DEF CloseProblems
<1>2. CASE IsClose(r)
  <2>1. i = Len(ch) /\ IsClosing(r, h, Hashes(ch, i))
    BY <1>2, Kinds
  <2>2. "session_hash" \in DOMAIN r.action_detail /\ r.action_detail.session_hash = Hashes(ch, i)
    BY <2>1 DEF IsClosing
  <2>3. IsRecord(Hashes(ch, i))
    BY DEF Hashes, IsRecord
  <2>4. Get(r.action_detail, "session_hash") # None
    BY <2>2, <2>3, RecordIsNotNone DEF Get
  <2> QED BY <2>1, <2>2, <2>4 DEF CloseProblems, If, Hashes
<1> QED BY <1>1, <1>2

(* verify_chain's view of a tombstone: fine, but not as the last record.    *)
LEMMA TombstoneVerdict ==
    ASSUME IsAtom(None), NEW ch, NEW s, NEW h, ChainOk(ch, s, h), NEW i \in 1 .. Len(ch)
    PROVE  TombstoneProblems(ch, i) = {} <=> ~(IsTombstone(ch[i]) /\ i = Len(ch))
<1> DEFINE r == ch[i]
           d == r.action_detail
<1>1. CASE ~IsTombstone(r)
  <2>1. "tombstone_hash" \notin DOMAIN r
    BY <1>1, Kinds DEF IsGenesis, IsActionRecord, IsClosing
  <2> QED BY <1>1, <2>1 DEF TombstoneProblems, If
<1>2. CASE IsTombstone(r)
  <2>1. IsErased(r, h) /\ InSession(r, s, ch[1].agent_id, h)
    BY <1>2, Kinds
  <2>2. Get(r, "tombstone_hash") # None
    BY <2>1, RecordIsNotNone DEF IsErased, Get
  <2>3. {"deletion_reason", "deleted_at"} \subseteq DOMAIN d
    BY <2>1 DEF IsErased
  <2>4. Get(d, "original_action_type") \in {"tool_call", "decision"}
    BY <2>1 DEF IsErased, Get
  <2>5. ~(d.deleted_at < r.timestamp) /\ r.outcome = "success"
    BY <2>1 DEF IsErased, InSession
  <2> HIDE DEF r, d
  <2>6. /\ Get(d, "original_action_type") \in ActionTypes
        /\ Get(d, "original_action_type") # "lifecycle"
    BY <2>4 DEF ActionTypes
  <2>7. TombstoneProblems(ch, i) = If(i = Len(ch), "tombstone as the last record")
    BY <1>2, <2>2, <2>3, <2>5, <2>6 DEF TombstoneProblems, If, r, d
  <2> QED BY <1>2, <2>7 DEF If, r
<1> QED BY <1>1, <1>2

(* verify_chain's view of a link: broken only after a second erasure.       *)
LEMMA LinkVerdict ==
    ASSUME IsAtom(None), NEW ch, NEW s, NEW h, ChainOk(ch, s, h), NEW i \in 1 .. Len(ch)
    PROVE  LinkProblems(ch, i) = {} <=> ~(i > 1 /\ Relinked(ch, i - 1))
<1>1. Len(ch) \in Nat
  BY ListFacts DEF ChainOk
<1>2. CASE i = 1
  <2>1. IsGenesis(ch[1], s, h) /\ IsEvent(ch[1], "session_start")
    BY <1>2, Kinds
  <2>2. Get(ch[1], "parent_record_id") = None /\ Get(ch[1], "prev_hash") = None
    BY <2>1 DEF IsGenesis, Get
  <2>3. LinkProblems(ch, 1) = {}
    BY <2>1, <2>2 DEF LinkProblems, If
  <2>4. ~(1 > 1)
    OBVIOUS
  <2> QED BY <1>2, <2>3, <2>4
<1>3. CASE i # 1
  <2> DEFINE r    == ch[i]
             prev == ch[i - 1]
  <2>1. /\ i \in 2 .. Len(ch) /\ i - 1 \in 1 .. Len(ch) /\ i - 1 < Len(ch) /\ (i - 1) + 1 = i
        /\ i > 1
    BY <1>1, <1>3
  <2>2. Linked(r, prev)
    BY <2>1 DEF ChainOk
  <2>3. r.prev_hash # None
    BY <2>2, RecordIsNotNone DEF Linked
  <2>4. ~IsEvent(r, "session_start")
    BY <1>3, Kinds
  <2>5. IsTombstone(prev) => /\ "tombstone_hash" \in DOMAIN prev
                             /\ ~IsTombstone(prev.tombstone_hash)
    BY <2>1, Kinds DEF IsErased
  <2> DEFINE Bad == /\ r.prev_hash # RecordHash(prev)
                    /\ ~(IsTombstone(prev) /\ r.prev_hash = Get(prev, "tombstone_hash"))
  <2>6. LinkProblems(ch, i) = If(Bad, "prev_hash mismatch")
    BY <1>3, <2>2, <2>3, <2>4 DEF LinkProblems, Linked, If
  <2>7. Bad <=> Relinked(ch, i - 1)
    <3>1. IsTombstone(prev) => Get(prev, "tombstone_hash") = prev.tombstone_hash
      BY <2>5 DEF Get
    <3>2. Relinked(ch, i - 1) <=> /\ IsTombstone(prev) /\ IsTombstone(r.prev_hash)
                                  /\ r.prev_hash # RecordHash(prev)
      BY <2>1 DEF Relinked
    <3> QED BY <2>2, <2>5, <3>1, <3>2 DEF Linked
  <2> QED BY <2>1, <2>6, <2>7 DEF If
<1> QED BY <1>2, <1>3


\* Who signed a record: the session's signer, or the deleting authority.
LEMMA SignerOf ==
    ASSUME TrailConstants, NEW h, IsSigner(h.signer), NEW r, WellSigned(r, h)
    PROVE  \E g : /\ IsSigner(g) /\ SignedBy(r, g)
                  /\ Signs(g) <=> Signs(h.signer)
                  /\ g = h.signer \/ (g = DeleterAlone /\ (IsTombstone(r) \/ IsClose(r)))
<1>1. IsSigner(DeleterAlone) /\ Signs(DeleterAlone) /\ ~Both(DeleterAlone)
  BY DEF TrailConstants, IsSigner, Signs, Both, DeleterAlone
<1> QED BY <1>1 DEF WellSigned

\* What its signature fields say.
LEMMA SignatureTold ==
    ASSUME TrailConstants, NEW g, IsSigner(g), NEW r, SignedBy(r, g)
    PROVE  /\ Signs(g) =>
                /\ {"signature", "sig_alg", "signer_kid"} \subseteq DOMAIN r
                /\ r.signature.by = Main(g) /\ r.signature.over = SigningInput(r)
                /\ r.sig_alg = AlgOf[Main(g)] /\ AlgOf[Main(g)] \in SigAlgs
                /\ Get(r, "signer_kid") = Main(g)
                /\ Main(g) \in Keys /\ Main(g) # None
           /\ ~Signs(g) => /\ {"signature", "sig_alg", "signer_kid"} \cap DOMAIN r = {}
                           /\ Get(r, "signer_kid") = None
           /\ Both(g) =>
                /\ Signs(g)
                /\ {"signature_classical", "signer_kid_classical"} \subseteq DOMAIN r
                /\ r.signature_classical.by = g.classical
                /\ r.signature_classical.over = SigningInput(r)
                /\ r.signer_kid_classical = g.classical
                /\ g.classical \in Keys /\ AlgOf[g.classical] = "ES256"
                /\ AlgOf[Main(g)] = "ML-DSA-65"
           /\ ~Both(g) => {"signature_classical", "signer_kid_classical"} \cap DOMAIN r = {}
<1>1. Signs(g) => /\ Main(g) \in Keys /\ Main(g) # None
                  /\ AlgOf[Main(g)] \in SigAlgs
  BY DEF Signs, Main, IsSigner, SigAlgs
<1>2. Both(g) => /\ Signs(g) /\ g.classical \in Keys
                 /\ AlgOf[g.classical] = "ES256" /\ AlgOf[Main(g)] = "ML-DSA-65"
  BY DEF Both, Signs, Main, IsSigner
<1>3. ASSUME NEW k, NEW o PROVE Signature(k, o).by = k /\ Signature(k, o).over = o
  BY DEF Signature
<1>4. CASE ~Signs(g)
  BY <1>2, <1>4 DEF SignedBy, Get
<1>5. CASE Signs(g)
  <2>1. /\ {"signature", "sig_alg", "signer_kid"} \subseteq DOMAIN r
        /\ r.signature = Signature(Main(g), SigningInput(r))
        /\ r.sig_alg = AlgOf[Main(g)]
        /\ r.signer_kid = Main(g)
    BY <1>5 DEF SignedBy
  <2>2. Get(r, "signer_kid") = Main(g)
    BY <2>1 DEF Get
  <2>3. Both(g) =>
           /\ {"signature_classical", "signer_kid_classical"} \subseteq DOMAIN r
           /\ r.signature_classical = Signature(g.classical, SigningInput(r))
           /\ r.signer_kid_classical = g.classical
    BY DEF SignedBy
  <2>4. ~Both(g) => {"signature_classical", "signer_kid_classical"} \cap DOMAIN r = {}
    BY DEF SignedBy
  <2>5. r.signature.by = Main(g) /\ r.signature.over = SigningInput(r)
    BY <2>1, <1>3
  <2>6. Both(g) => /\ r.signature_classical.by = g.classical
                   /\ r.signature_classical.over = SigningInput(r)
    BY <2>3, <1>3
  <2> QED BY <1>1, <1>2, <1>5, <2>1, <2>2, <2>3, <2>4, <2>5, <2>6
<1> QED BY <1>4, <1>5

LEMMA NoHybridProblems ==
    ASSUME TrailConstants, NEW ch, NEW s, NEW h, ChainOk(ch, s, h), IsSigner(h.signer),
           NEW i \in 1 .. Len(ch)
    PROVE  HybridProblems(ch, i) = {}
<1> DEFINE r == ch[i]
<1>1. PICK g : IsSigner(g) /\ SignedBy(r, g)
  BY SignedSomehow, SignerOf
<1> HIDE DEF r
<1>2. CASE ~Signs(g)
  <2>1. ~Both(g)
    BY <1>2 DEF Both, Signs
  <2>2. {"signature", "sig_alg", "signer_kid", "signature_classical", "signer_kid_classical"}
           \cap DOMAIN r = {}
    BY <1>1, <1>2, <2>1 DEF SignedBy
  <2> QED BY <2>2 DEF HybridProblems, If, Get, r
<1>3. CASE Signs(g) /\ ~Both(g)
  <2>1. /\ r.sig_alg \in SigAlgs /\ "sig_alg" \in DOMAIN r
        /\ {"signature_classical", "signer_kid_classical"} \cap DOMAIN r = {}
    BY <1>1, <1>3, SignatureTold
  <2> QED BY <2>1 DEF HybridProblems, If, Get, r
<1>4. CASE Both(g)
  <2>1. /\ "sig_alg" \in DOMAIN r /\ r.sig_alg = "ML-DSA-65"
        /\ {"signature_classical", "signer_kid_classical"} \subseteq DOMAIN r
        /\ r.signer_kid_classical = g.classical
        /\ AlgOf[g.classical] = "ES256" /\ AlgOf[Main(g)] = "ML-DSA-65"
        /\ Get(r, "signer_kid") = Main(g)
    BY <1>1, <1>4, SignatureTold
  <2>2. Get(r, "signer_kid_classical") = g.classical /\ g.classical # Main(g)
    BY <2>1 DEF Get
  <2>3. Get(r, "sig_alg") = "ML-DSA-65"
    BY <2>1 DEF Get
  <2> QED BY <2>1, <2>2, <2>3 DEF HybridProblems, If, r, SigAlgs
<1> QED BY <1>2, <1>3, <1>4

(* The keys of a relying party: every one of a signed chain, else none.     *)
LEMMA PartyKeys ==
    ASSUME TrailConstants, NEW pinned
    PROVE  /\ ~KeySet(Party(pinned)).bad
           /\ Signed => KeySet(Party(pinned)).kids = Keys
<1> DEFINE p == Party(pinned)
<1>1. p.keys = (IF Signed THEN [k \in Keys |-> k] ELSE None) /\ p.fallback = None
      /\ p.algs = SigAlgs
  BY DEF Party
<1>2. "ES256" \in p.algs
  BY <1>1 DEF SigAlgs
<1>3. Signed => p.keys # None
  BY <1>1 DEF TrailConstants, IsAtom
<1> HIDE DEF p
<1>4. CASE Signed
  <2>1. /\ DOMAIN p.keys = Keys /\ \A k \in Keys : p.keys[k] = k
    BY <1>1, <1>4
  <2> QED BY <1>1, <1>2, <1>3, <1>4, <2>1 DEF KeySet, p
<1>5. CASE ~Signed
  <2>1. p.keys = None
    BY <1>1, <1>5
  <2>2. DOMAIN << >> = {}
    OBVIOUS
  <2> QED BY <1>1, <1>5, <2>1, <2>2 DEF KeySet, p
<1> QED BY <1>4, <1>5

LEMMA NoSignatureProblems ==
    ASSUME TrailConstants, NEW ch, NEW s, ChainOk(ch, s, how), IsSigner(how.signer),
           NEW i \in 1 .. Len(ch), NEW pinned
    PROVE  SignatureProblems(ch, i, Party(pinned)) = {}
<1> DEFINE r == ch[i]
           p == Party(pinned)
<1>1. PICK g : IsSigner(g) /\ SignedBy(r, g) /\ (Signs(g) <=> Signs(how.signer))
  BY SignedSomehow, SignerOf
<1>2. Signs(g) <=> Signed
  BY <1>1 DEF Signed, Signs
<1>3. /\ p.keys = (IF Signed THEN [k \in Keys |-> k] ELSE None) /\ p.fallback = None
      /\ p.algs = SigAlgs /\ p.require = Signed
  BY DEF Party
<1> HIDE DEF r, p
<1>4. CASE ~Signed
  <2>1. "signature" \notin DOMAIN r
    BY <1>1, <1>2, <1>4, SignatureTold
  <2>2. p.keys = None /\ ~p.require /\ p.fallback = None
    BY <1>3, <1>4
  <2> QED BY <2>1, <2>2 DEF SignatureProblems, If, r, p
<1>5. CASE Signed
  <2>1. /\ {"signature", "sig_alg", "signer_kid"} \subseteq DOMAIN r
        /\ r.signature.by = Main(g) /\ r.signature.over = SigningInput(r)
        /\ r.sig_alg = AlgOf[Main(g)] /\ AlgOf[Main(g)] \in SigAlgs
        /\ Get(r, "signer_kid") = Main(g)
        /\ Main(g) \in Keys /\ Main(g) # None
    BY <1>1, <1>2, <1>5, SignatureTold
  <2>2. KeySet(p).kids = Keys
    BY <1>5, PartyKeys DEF p
  <2>3. ASSUME NEW k \in Keys, k # None, NEW alg PROVE Resolve(k, alg, p) = k
    BY <2>2, <2>3 DEF Resolve
  <2>4. "ES256" \in SigAlgs
    BY DEF SigAlgs
  <2>5. "signature_classical" \in DOMAIN r =>
           /\ "signer_kid_classical" \in DOMAIN r
           /\ r.signature_classical.by = r.signer_kid_classical
           /\ r.signature_classical.over = SigningInput(r)
           /\ r.signer_kid_classical \in Keys /\ r.signer_kid_classical # None
           /\ AlgOf[r.signer_kid_classical] = "ES256"
    <3>1. CASE Both(g)
      <4>1. g.classical # None
        BY <3>1 DEF Both
      <4> QED BY <1>1, <3>1, <4>1, SignatureTold
    <3>2. CASE ~Both(g)
      BY <1>1, <3>2, SignatureTold
    <3> QED BY <3>1, <3>2
  <2>6. /\ Resolve(Get(r, "signer_kid"), r.sig_alg, p) = Main(g)
        /\ "signature_classical" \in DOMAIN r =>
             Resolve(r.signer_kid_classical, "ES256", p) = r.signer_kid_classical
    BY <2>1, <2>3, <2>5
  <2>7. SignatureVerifies(r.signature, Main(g), SigningInput(r), p)
    BY <1>3, <2>1 DEF SignatureVerifies
  <2>8. "signature_classical" \in DOMAIN r =>
           SignatureVerifies(r.signature_classical, r.signer_kid_classical, SigningInput(r), p)
    BY <1>3, <2>4, <2>5 DEF SignatureVerifies
  <2>9. RecordSignaturesVerify(r, p)
    BY <2>1, <2>5, <2>6, <2>7, <2>8 DEF RecordSignaturesVerify
  <2> QED BY <2>1, <2>9 DEF SignatureProblems, If, r, p
<1> QED BY <1>4, <1>5

(* Who recorded the session is who its export named.                        *)
LEMMA RecordersTold ==
    ASSUME NEW ch, NEW s, NEW h, ChainOk(ch, s, h)
    PROVE  /\ h.recorder = None => /\ GenesisMode(ch) = "self" /\ Recorders(ch) = {}
                                   /\ ~Independent(ch)
           /\ h.recorder # None => /\ GenesisMode(ch) = "independent"
                                   /\ GenesisRecorder(ch) = h.recorder
                                   /\ Recorders(ch) = {h.recorder}
                                   /\ Independent(ch)
<1>1. IsGenesis(ch[1], s, h)
  BY DEF ChainOk
<1>2. \A j \in 1 .. Len(ch) : InSession(ch[j], s, ch[1].agent_id, h)
  BY DEF ChainOk
<1>3. CASE h.recorder = None
  <2>1. GenesisMode(ch) = "self" /\ GenesisRecorder(ch) = None
    BY <1>1, <1>3 DEF IsGenesis, GenesisMode, GenesisRecorder, Get
  <2>2. \A j \in 1 .. Len(ch) : "recording_component" \notin DOMAIN ch[j]
    BY <1>2, <1>3 DEF InSession
  <2>3. Recorders(ch) = {}
    BY <2>1, <2>2 DEF Recorders
  <2> QED BY <1>3, <2>1, <2>3 DEF Independent
<1>4. CASE h.recorder # None
  <2>1. GenesisMode(ch) = "independent" /\ GenesisRecorder(ch) = h.recorder
    BY <1>1, <1>4 DEF IsGenesis, GenesisMode, GenesisRecorder, Get
  <2>2. \A j \in 1 .. Len(ch) : ch[j].recording_component = h.recorder
    BY <1>2, <1>4 DEF InSession
  <2>3. Recorders(ch) = {h.recorder}
    BY <1>4, <2>1, <2>2 DEF Recorders
  <2> QED BY <1>4, <2>1, <2>3 DEF Independent
<1> QED BY <1>3, <1>4

LEMMA NoRecordingProblems ==
    ASSUME TrailConstants, NEW ch, NEW s, ChainOk(ch, s, how), IsSigner(how.signer),
           NEW i \in 1 .. Len(ch), NEW pinned
    PROVE  RecordingProblems(ch, i, Party(pinned)) = {}
<1> DEFINE r == ch[i]
           p == Party(pinned)
<1>1. InSession(r, s, ch[1].agent_id, how)
  BY Kinds
<1>2. CASE how.recorder = None
  <2>1. GenesisMode(ch) = "self" /\ ~Independent(ch)
    BY <1>2, RecordersTold
  <2> QED BY <2>1 DEF RecordingProblems, If
<1>3. CASE how.recorder # None
  <2>1. /\ GenesisMode(ch) = "independent" /\ GenesisRecorder(ch) = how.recorder
        /\ Recorders(ch) = {how.recorder} /\ Independent(ch)
    BY <1>3, RecordersTold
  <2>2. SessionRecorder(ch) = how.recorder
    BY <2>1 DEF SessionRecorder
  <2>3. how.recorder # ch[1].agent_id /\ Signs(how.signer)
    BY <1>3 DEF ChainOk
  <2>4. Get(r, "recording_component") = how.recorder /\ r.agent_id = ch[1].agent_id
    BY <1>1, <1>3 DEF InSession, Get
  <2>5. {"signature", "signer_kid"} \subseteq DOMAIN r
    <3>1. PICK g : IsSigner(g) /\ SignedBy(r, g) /\ (Signs(g) <=> Signs(how.signer))
      BY SignedSomehow, SignerOf
    <3> QED BY <2>3, <3>1, SignatureTold
  <2>6. p.agent_kid = None
    BY <1>3 DEF Party
  <2> HIDE DEF r, p
  <2>7. p.agent_kid \notin {Get(r, "signer_kid"), Get(r, "signer_kid_classical")} \ {None}
    BY <2>6
  <2> QED BY <1>3, <2>1, <2>2, <2>3, <2>4, <2>5, <2>7 DEF RecordingProblems, If, r, p
<1> QED BY <1>2, <1>3

(* A record is the session signer's, or a tombstone.                        *)
LEMMA SignerVerdict ==
    ASSUME TrailConstants, NEW ch, NEW s, ChainOk(ch, s, how), IsSigner(how.signer),
           NEW i \in 1 .. Len(ch), NEW pinned
    PROVE  SignerProblems(ch, i, Party(pinned)) = {}
             <=> (~IsTombstone(ch[i]) => Get(ch[i], "signer_kid") = Get(ch[1], "signer_kid"))
<1> DEFINE r    == ch[i]
           p    == Party(pinned)
           main == Main(how.signer)
<1>1. PICK g : /\ IsSigner(g) /\ SignedBy(r, g)
               /\ Signs(g) <=> Signs(how.signer)
               /\ g = how.signer \/ (g = DeleterAlone /\ (IsTombstone(r) \/ IsClose(r)))
  BY SignedSomehow, SignerOf
<1>2. SignedBy(ch[1], how.signer) /\ ~IsTombstone(ch[1])
  <2>1. 1 \in 1 .. Len(ch)
    BY ListFacts DEF ChainOk
  <2>2. IsGenesis(ch[1], s, how)
    BY DEF ChainOk
  <2> QED BY <2>1, <2>2, Kinds DEF IsGenesis
<1>3. CASE ~Signs(how.signer)
  <2>1. "signature" \notin DOMAIN r /\ Get(r, "signer_kid") = None
    BY <1>1, <1>3, SignatureTold
  <2>2. Get(ch[1], "signer_kid") = None
    BY <1>2, <1>3, SignatureTold
  <2> QED BY <2>1, <2>2 DEF SignerProblems
<1>4. CASE Signs(how.signer)
  <2>1. /\ "signature" \in DOMAIN r /\ Get(r, "signer_kid") = Main(g) /\ Main(g) # None
        /\ "signer_kid" \in DOMAIN r
    BY <1>1, <1>4, SignatureTold
  <2>2. /\ "signature" \in DOMAIN ch[1] /\ Get(ch[1], "signer_kid") = main /\ main # None
        /\ "signer_kid" \in DOMAIN ch[1]
    BY <1>2, <1>4, SignatureTold
  <2>3. Primary(r, p) = Main(g) /\ Primary(ch[1], p) = main
    BY <2>1, <2>2 DEF Primary, Get
  <2>4. ASSUME NEW pin, pin \in {main, None} PROVE SessionSigner(ch, i, pin, p) = main
    <3> DEFINE T == {j \in 1 .. i : /\ "signature" \in DOMAIN ch[j]
                                    /\ ~IsTombstone(ch[j])
                                    /\ Primary(ch[j], p) # None}
               first == CHOOSE j \in T : \A k \in T : j <= k
    <3>1. i \in Nat /\ i >= 1
      BY ListFacts DEF ChainOk
    <3>2. 1 \in T
      BY <1>2, <2>2, <2>3, <3>1
    <3>3. \A k \in T : 1 <= k /\ k \in Int
      BY <3>1
    <3> HIDE DEF T
    <3>4. first \in T /\ \A k \in T : first <= k
      BY <3>2, <3>3
    <3>5. first = 1
      BY <3>2, <3>3, <3>4
    <3>6. SessionSigner(ch, i, pin, p) = IF pin # None THEN pin
                                         ELSE IF T = {} THEN None ELSE Primary(ch[first], p)
      BY DEF SessionSigner, T
    <3> HIDE DEF first, main
    <3> QED BY <2>3, <2>4, <3>2, <3>5, <3>6
  <2>5. main = PrimaryKey
    BY DEF Main, PrimaryKey
  <2>6. (IF Independent(ch) THEN p.recorder_kid ELSE p.agent_kid) \in {main, None}
    <3>1. /\ p.agent_kid = (IF pinned /\ how.recorder = None THEN PrimaryKey ELSE None)
          /\ p.recorder_kid = (IF pinned /\ how.recorder # None THEN PrimaryKey ELSE None)
      BY DEF Party
    <3> HIDE DEF p, main
    <3> QED BY <2>5, <3>1
  <2>7. p.tombstone_kids = {Deleter}
    BY DEF Party
  <2>8. Main(g) = main \/ Main(g) = Deleter
    BY <1>1 DEF Main, DeleterAlone
  <2> HIDE DEF p, r, main
  <2>9. SessionSigner(ch, i, IF Independent(ch) THEN p.recorder_kid ELSE p.agent_kid, p) = main
    BY <2>4, <2>6
  <2>10. CASE IsTombstone(r)
    <3>1. Main(g) \in p.tombstone_kids \cup ({main} \ {None})
      BY <2>2, <2>7, <2>8
    <3>2. SignerProblems(ch, i, p) = {}
      BY <2>3, <2>9, <2>10, <3>1 DEF SignerProblems, If, r
    <3> QED BY <2>10, <3>2 DEF p, r
  <2>11. CASE ~IsTombstone(r)
    <3>1. SignerProblems(ch, i, p) = If(Main(g) # main, "not the session's signer")
      BY <2>1, <2>3, <2>9, <2>11 DEF SignerProblems, r
    <3>2. SignerProblems(ch, i, p) = {} <=> Main(g) = main
      BY <3>1 DEF If
    <3> QED BY <2>1, <2>2, <2>11, <3>2 DEF p, r
  <2> QED BY <2>10, <2>11
<1> QED BY <1>3, <1>4

(* The verdict on a chain: good exactly when it is well made.               *)
LEMMA ChainVerdict ==
    ASSUME TrailConstants, NEW ch, NEW s, ChainOk(ch, s, how), IsSigner(how.signer),
           how.trust \in TrustLevels, NEW pinned
    PROVE  VerifyChain(ch, Party(pinned)) <=> WellMade(ch)
<1> DEFINE p == Party(pinned)
<1>1. IsAtom(None)
  BY DEF TrailConstants
<1>2. Len(ch) \in Nat /\ Len(ch) # 0 /\ ch # << >> /\ Len(ch) \in 1 .. Len(ch)
  BY ListFacts DEF ChainOk
<1>3. ~KeySet(p).bad
  BY PartyKeys
<1>4. \A i \in 1 .. Len(ch) :
         /\ FieldProblems(ch, i) = {} /\ IdentityProblems(ch, i) = {}
         /\ DetailProblems(ch, i) = {} /\ PhaseProblems(ch, i) = {}
         /\ HybridProblems(ch, i) = {} /\ RecordingProblems(ch, i, p) = {}
         /\ SignatureProblems(ch, i, p) = {}
         /\ CallProblems(ch, i) = {} /\ TrustProblems(ch, i) = {} /\ NonceProblems(ch, i) = {}
  BY NoFieldProblems, NoIdentityProblems, NoDetailProblems, NoPhaseProblems, NoHybridProblems,
     NoRecordingProblems, NoSignatureProblems, NoCallProblems
<1>5. \A i \in 1 .. Len(ch) : CloseProblems(ch, i) = {}
  BY <1>1, NoCloseProblems
<1>6. \A i \in 1 .. Len(ch) :
         TombstoneProblems(ch, i) = {} <=> ~(IsTombstone(ch[i]) /\ i = Len(ch))
  BY <1>1, TombstoneVerdict
<1>7. \A i \in 1 .. Len(ch) : LinkProblems(ch, i) = {} <=> ~(i > 1 /\ Relinked(ch, i - 1))
  BY <1>1, LinkVerdict
<1>8. \A i \in 1 .. Len(ch) : SignerProblems(ch, i, p) = {}
         <=> (~IsTombstone(ch[i]) => Get(ch[i], "signer_kid") = Get(ch[1], "signer_kid"))
  BY SignerVerdict
<1>9. (\A i \in 1 .. Len(ch) : TombstoneProblems(ch, i) = {}) <=> ~IsTombstone(Last(ch))
  BY <1>2, <1>6 DEF Last
<1>10. (\A i \in 1 .. Len(ch) : LinkProblems(ch, i) = {})
         <=> \A i \in 1 .. Len(ch) : ~Relinked(ch, i)
  <2>1. \A i \in 1 .. Len(ch) : i > 1 => i - 1 \in 1 .. Len(ch)
    BY <1>2
  <2>2. ASSUME NEW i \in 1 .. Len(ch), Relinked(ch, i)
        PROVE  i + 1 \in 1 .. Len(ch) /\ i + 1 > 1 /\ (i + 1) - 1 = i
    BY <1>2, <2>2 DEF Relinked
  <2>3. ASSUME NEW i \in 1 .. Len(ch), Relinked(ch, i)
        PROVE  \E j \in 1 .. Len(ch) : LinkProblems(ch, j) # {}
    <3>1. i + 1 \in 1 .. Len(ch) /\ i + 1 > 1 /\ Relinked(ch, (i + 1) - 1)
      BY <2>2, <2>3
    <3> QED BY <1>7, <3>1
  <2> QED BY <1>7, <2>1, <2>3
<1>11. (\A i \in 1 .. Len(ch) : SignerProblems(ch, i, p) = {})
         <=> \A i \in 1 .. Len(ch) :
               ~IsTombstone(ch[i]) => Get(ch[i], "signer_kid") = Get(ch[1], "signer_kid")
  BY <1>8
<1> HIDE DEF p
<1>12. VerifyChain(ch, p) <=>
         /\ \A i \in 1 .. Len(ch) : TombstoneProblems(ch, i) = {}
         /\ \A i \in 1 .. Len(ch) : LinkProblems(ch, i) = {}
         /\ \A i \in 1 .. Len(ch) : SignerProblems(ch, i, p) = {}
  BY <1>2, <1>3, <1>4, <1>5, Zenon DEF VerifyChain
<1>13. WellMade(ch) <=>
         /\ ~IsTombstone(Last(ch))
         /\ \A i \in 1 .. Len(ch) : ~Relinked(ch, i)
         /\ \A i \in 1 .. Len(ch) :
               ~IsTombstone(ch[i]) => Get(ch[i], "signer_kid") = Get(ch[1], "signer_kid")
  BY Zenon DEF WellMade
<1>14. VerifyChain(ch, p) <=> WellMade(ch)
  BY <1>9, <1>10, <1>11, <1>12, <1>13, Zenon
<1> QED BY <1>14 DEF p


-----------------------------------------------------------------------------
(* What signing and anchoring leave alone                                   *)

LEMMA SameSigningInput ==
    ASSUME NEW a, NEW b,
           DOMAIN a \ (SignatureValueFields \cup {"batch"})
             = DOMAIN b \ (SignatureValueFields \cup {"batch"}),
           \A k \in DOMAIN a \ (SignatureValueFields \cup {"batch"}) : a[k] = b[k]
    PROVE  SigningInput(a) = SigningInput(b)
BY DEF SigningInput, Without

\* sign_record and sign_record_hybrid: the text is kept, the fields are the signer's.
LEMMA SignFacts ==
    ASSUME TrailConstants, NEW rec, IsRecord(rec), SignatureFields \cap DOMAIN rec = {},
           NEW g, IsSigner(g)
    PROVE  /\ IsRecord(Sign(rec, g))
           /\ DOMAIN rec \subseteq DOMAIN Sign(rec, g)
           /\ DOMAIN Sign(rec, g) \subseteq DOMAIN rec \cup SignatureFields
           /\ \A k \in DOMAIN rec : Sign(rec, g)[k] = rec[k]
           /\ SignedBy(Sign(rec, g), g)
<1>1. \A fields : fields \subseteq SignatureFields => Without(rec, fields) = rec
  <2> SUFFICES ASSUME NEW fields, fields \subseteq SignatureFields
               PROVE  Without(rec, fields) = rec
    OBVIOUS
  <2>1. DOMAIN rec \ fields = DOMAIN rec
    OBVIOUS
  <2> QED BY <2>1, WithoutFacts, SameRecord
<1>2. CASE ~Signs(g)
  <2>1. Sign(rec, g) = rec
    BY <1>2 DEF Sign, Signs
  <2> QED BY <2>1, <1>2 DEF SignedBy, SignatureFields, Signs, Both
<1>3. CASE Signs(g) /\ ~Both(g)
  <2> DEFINE key == Main(g)
             kid == [sig_alg |-> AlgOf[key], signer_kid |-> key]
             out == kid ++ rec
             sig == [signature |-> Signature(key, SigningInput(out))]
             res == sig ++ out
  <2>1. Sign(rec, g) = SignRecord(rec, key)
    BY <1>3 DEF Sign, Signs, Both, Main
  <2>2. Without(rec, SignatureValueFields \cup {"signer_kid_classical"}) = rec
    BY <1>1 DEF SignatureValueFields, SignatureFields
  <2>3. Sign(rec, g) = res
    BY <2>1, <2>2 DEF SignRecord
  <2>4. /\ DOMAIN kid = {"sig_alg", "signer_kid"} /\ kid.sig_alg = AlgOf[key]
        /\ kid.signer_kid = key
        /\ DOMAIN sig = {"signature"} /\ sig.signature = Signature(key, SigningInput(out))
    OBVIOUS
  <2> HIDE DEF kid, sig
  <2>5. /\ DOMAIN out = DOMAIN rec \cup {"sig_alg", "signer_kid"}
        /\ out.sig_alg = AlgOf[key] /\ out.signer_kid = key
        /\ \A k \in DOMAIN rec : out[k] = rec[k]
    <3>1. \A k \in DOMAIN rec : k \notin DOMAIN kid
      BY <2>4 DEF SignatureFields
    <3>2. /\ DOMAIN out = DOMAIN kid \cup DOMAIN rec
          /\ \A k \in DOMAIN kid : out[k] = kid[k]
          /\ \A k \in DOMAIN rec \ DOMAIN kid : out[k] = rec[k]
      BY MergeFacts
    <3> QED BY <2>4, <3>1, <3>2
  <2> HIDE DEF out
  <2>6. /\ DOMAIN res = DOMAIN out \cup {"signature"} /\ IsRecord(res)
        /\ res.signature = Signature(key, SigningInput(out))
        /\ \A k \in DOMAIN out : res[k] = out[k]
    <3>1. \A k \in DOMAIN out : k \notin DOMAIN sig
      BY <2>4, <2>5 DEF SignatureFields
    <3>2. /\ DOMAIN res = DOMAIN sig \cup DOMAIN out /\ IsRecord(res)
          /\ \A k \in DOMAIN sig : res[k] = sig[k]
          /\ \A k \in DOMAIN out \ DOMAIN sig : res[k] = out[k]
      BY MergeFacts
    <3> QED BY <2>4, <3>1, <3>2
  <2> HIDE DEF res
  <2>7. SigningInput(res) = SigningInput(out)
    BY <2>6, SameSigningInput DEF SignatureValueFields
  <2>8. /\ DOMAIN res = DOMAIN rec \cup {"signature", "sig_alg", "signer_kid"}
        /\ \A k \in DOMAIN rec : res[k] = rec[k]
        /\ res.sig_alg = AlgOf[key] /\ res.signer_kid = key
    BY <2>5, <2>6
  <2>9. SignedBy(res, g)
    <3>1. {"signature_classical", "signer_kid_classical"} \cap DOMAIN res = {}
      BY <2>8 DEF SignatureFields
    <3> QED BY <1>3, <2>6, <2>7, <2>8, <3>1 DEF SignedBy
  <2> QED BY <2>3, <2>6, <2>8, <2>9 DEF SignatureFields
<1>4. CASE Both(g)
  <2> DEFINE kid == [sig_alg |-> "ML-DSA-65", signer_kid |-> g.pq,
                     signer_kid_classical |-> g.classical]
             out == kid ++ rec
             sig == [signature |-> Signature(g.pq, SigningInput(out)),
                     signature_classical |-> Signature(g.classical, SigningInput(out))]
             res == sig ++ out
  <2>1. Sign(rec, g) = SignRecordHybrid(rec, g.pq, g.classical)
    BY <1>4 DEF Sign, Both
  <2>2. Without(rec, SignatureValueFields) = rec
    BY <1>1 DEF SignatureValueFields, SignatureFields
  <2>3. Sign(rec, g) = res
    BY <2>1, <2>2 DEF SignRecordHybrid
  <2>4. /\ DOMAIN kid = {"sig_alg", "signer_kid", "signer_kid_classical"}
        /\ kid.sig_alg = "ML-DSA-65"
        /\ kid.signer_kid = g.pq /\ kid.signer_kid_classical = g.classical
        /\ DOMAIN sig = {"signature", "signature_classical"}
        /\ sig.signature = Signature(g.pq, SigningInput(out))
        /\ sig.signature_classical = Signature(g.classical, SigningInput(out))
    OBVIOUS
  <2> HIDE DEF kid, sig
  <2>5. /\ DOMAIN out = DOMAIN rec \cup {"sig_alg", "signer_kid", "signer_kid_classical"}
        /\ out.sig_alg = "ML-DSA-65" /\ out.signer_kid = g.pq
        /\ out.signer_kid_classical = g.classical
        /\ \A k \in DOMAIN rec : out[k] = rec[k]
    <3>1. \A k \in DOMAIN rec : k \notin DOMAIN kid
      BY <2>4 DEF SignatureFields
    <3>2. /\ DOMAIN out = DOMAIN kid \cup DOMAIN rec
          /\ \A k \in DOMAIN kid : out[k] = kid[k]
          /\ \A k \in DOMAIN rec \ DOMAIN kid : out[k] = rec[k]
      BY MergeFacts
    <3> QED BY <2>4, <3>1, <3>2
  <2> HIDE DEF out
  <2>6. /\ DOMAIN res = DOMAIN out \cup {"signature", "signature_classical"} /\ IsRecord(res)
        /\ res.signature = Signature(g.pq, SigningInput(out))
        /\ res.signature_classical = Signature(g.classical, SigningInput(out))
        /\ \A k \in DOMAIN out : res[k] = out[k]
    <3>1. \A k \in DOMAIN out : k \notin DOMAIN sig
      BY <2>4, <2>5 DEF SignatureFields
    <3>2. /\ DOMAIN res = DOMAIN sig \cup DOMAIN out /\ IsRecord(res)
          /\ \A k \in DOMAIN sig : res[k] = sig[k]
          /\ \A k \in DOMAIN out \ DOMAIN sig : res[k] = out[k]
      BY MergeFacts
    <3> QED BY <2>4, <3>1, <3>2
  <2> HIDE DEF res
  <2>7. SigningInput(res) = SigningInput(out)
    BY <2>6, SameSigningInput DEF SignatureValueFields
  <2>8. Main(g) = g.pq /\ AlgOf[Main(g)] = "ML-DSA-65" /\ Signs(g)
    BY <1>4 DEF Both, Main, IsSigner, Signs
  <2>9. SignedBy(res, g)
    BY <1>4, <2>5, <2>6, <2>7, <2>8 DEF SignedBy
  <2> QED BY <2>3, <2>5, <2>6, <2>9 DEF SignatureFields
<1>5. Both(g) => Signs(g)
  BY DEF Both, Signs
<1> QED BY <1>2, <1>3, <1>4, <1>5

\* Two records that say the same, up to the batch object.
LEMMA SameButBatch ==
    ASSUME NEW a, NEW b, DOMAIN a \ {"batch"} = DOMAIN b \ {"batch"},
           \A k \in DOMAIN a \ {"batch"} : a[k] = b[k]
    PROVE  RecordHash(a) = RecordHash(b) /\ SigningInput(a) = SigningInput(b)
<1>1. SigningInput(a) = SigningInput(b)
  BY SameSigningInput
<1> QED BY <1>1 DEF RecordHash

LEMMA Rebatched ==
    ASSUME NEW r, IsRecord(r), NEW x
    PROVE  LET n == [batch |-> x] ++ NoBatch(r)
           IN  /\ IsRecord(n) /\ DOMAIN n = DOMAIN r \cup {"batch"} /\ n.batch = x
               /\ \A k \in DOMAIN r \ {"batch"} : n[k] = r[k]
               /\ RecordHash(n) = RecordHash(r) /\ SigningInput(n) = SigningInput(r)
<1> DEFINE b == [batch |-> x]
           n == b ++ NoBatch(r)
<1>1. DOMAIN b = {"batch"} /\ b.batch = x
  OBVIOUS
<1> HIDE DEF b
<1>2. DOMAIN NoBatch(r) = DOMAIN r \ {"batch"} /\ \A k \in DOMAIN r \ {"batch"} : NoBatch(r)[k] = r[k]
  BY WithoutFacts DEF NoBatch
<1>3. /\ IsRecord(n) /\ DOMAIN n = DOMAIN r \cup {"batch"} /\ n["batch"] = x
      /\ \A k \in DOMAIN r \ {"batch"} : n[k] = r[k]
  <2>1. /\ IsRecord(n) /\ DOMAIN n = DOMAIN b \cup DOMAIN NoBatch(r)
        /\ \A k \in DOMAIN b : n[k] = b[k]
        /\ \A k \in DOMAIN NoBatch(r) \ DOMAIN b : n[k] = NoBatch(r)[k]
    BY MergeFacts
  <2> QED BY <1>1, <1>2, <2>1
<1> HIDE DEF n
<1>4. DOMAIN n \ {"batch"} = DOMAIN r \ {"batch"}
  BY <1>3
<1>5. RecordHash(n) = RecordHash(r) /\ SigningInput(n) = SigningInput(r)
  BY <1>3, <1>4, SameButBatch
<1> QED BY <1>3, <1>5 DEF n, b

-----------------------------------------------------------------------------
(* A record changed in its place                                            *)

Becomes(old, new, s, agent, h) ==
    /\ InSession(new, s, agent, h)
    /\ new.record_id = old.record_id /\ new.timestamp = old.timestamp
    /\ new.parent_record_id = old.parent_record_id /\ new.prev_hash = old.prev_hash
    /\ IsGenesis(old, s, h) => IsGenesis(new, s, h) /\ new.agent_id = old.agent_id
    /\ IsActionRecord(old, h) => IsActionRecord(new, h) \/ IsErased(new, h)
    /\ IsErased(old, h) => IsErased(new, h)
    /\ \A hashes : IsClosing(old, h, hashes) => IsClosing(new, h, hashes)
    /\ \A r : Linked(r, old) => Linked(r, new)

LEMMA ChainChanged ==
    ASSUME NEW s, NEW h, NEW ch, ChainOk(ch, s, h), NEW new, IsList(new), Len(new) = Len(ch),
           \A i \in 1 .. Len(ch) : Becomes(ch[i], new[i], s, ch[1].agent_id, h)
    PROVE  ChainOk(new, s, h)
<1>1. Len(ch) \in Nat /\ Len(ch) # 0 /\ 1 \in 1 .. Len(ch)
  BY ListFacts DEF ChainOk
<1>2. IsGenesis(new[1], s, h) /\ new[1].agent_id = ch[1].agent_id
  BY <1>1 DEF ChainOk, Becomes
<1>3. \A i \in 1 .. Len(new) : InSession(new[i], s, new[1].agent_id, h)
  BY <1>2 DEF Becomes
<1>4. \A i \in 1 .. Len(ch) : /\ new[i].record_id = ch[i].record_id
                              /\ new[i].timestamp = ch[i].timestamp
                              /\ new[i].parent_record_id = ch[i].parent_record_id
                              /\ new[i].prev_hash = ch[i].prev_hash
                              /\ \A r : Linked(r, ch[i]) => Linked(r, new[i])
  BY DEF Becomes
<1>5. \A i \in 2 .. Len(new) : Linked(new[i], new[i - 1])
  <2> SUFFICES ASSUME NEW i \in 2 .. Len(ch) PROVE Linked(new[i], new[i - 1])
    OBVIOUS
  <2>1. i \in 1 .. Len(ch) /\ i - 1 \in 1 .. Len(ch)
    BY <1>1
  <2>2. Linked(ch[i], new[i - 1])
    BY <1>4, <2>1 DEF ChainOk
  <2> QED BY <1>4, <2>1, <2>2 DEF Linked
<1>6. ASSUME NEW i \in 2 .. Len(new)
      PROVE  \/ IsActionRecord(new[i], h) \/ IsErased(new[i], h)
             \/ i = Len(new) /\ IsClosing(new[i], h, Hashes(new, i))
  <2>1. i \in 1 .. Len(ch) /\ i \in 2 .. Len(ch)
    BY <1>1, <1>6
  <2>2. Hashes(new, i) = Hashes(ch, i)
    <3>1. \A j \in 1 .. i - 1 : j + 1 \in 1 .. Len(ch)
      BY <1>1, <2>1
    <3>2. \A j \in 1 .. i - 1 : new[j + 1].prev_hash = ch[j + 1].prev_hash
      BY <1>4, <3>1
    <3> QED BY <3>2 DEF Hashes
  <2>3. \/ IsActionRecord(ch[i], h) \/ IsErased(ch[i], h)
        \/ i = Len(ch) /\ IsClosing(ch[i], h, Hashes(ch, i))
    BY <2>1 DEF ChainOk
  <2> QED BY <2>1, <2>2, <2>3 DEF Becomes
<1>7. \A i, j \in 1 .. Len(new) : i <= j => new[i].timestamp <= new[j].timestamp
  BY <1>4 DEF ChainOk
<1>8. \A i, j \in 1 .. Len(new) : new[i].record_id = new[j].record_id => i = j
  BY <1>4 DEF ChainOk
<1>9. h.recorder # None => h.recorder # new[1].agent_id /\ Signs(h.signer)
  BY <1>2 DEF ChainOk
<1> QED BY <1>1, <1>2, <1>3, <1>5, <1>6, <1>7, <1>8, <1>9 DEF ChainOk

LEMMA UnchangedBecomes ==
    ASSUME NEW r, NEW s, NEW agent, NEW h, InSession(r, s, agent, h)
    PROVE  Becomes(r, r, s, agent, h)
BY DEF Becomes

\* anchor_epoch: only the batch object is new.
LEMMA RebatchedBecomes ==
    ASSUME NEW r, NEW s, NEW agent, NEW h, InSession(r, s, agent, h), NEW x,
           IsTombstone(r) => "tombstone_hash" \in DOMAIN r
    PROVE  Becomes(r, [batch |-> x] ++ NoBatch(r), s, agent, h)
<1> DEFINE n == [batch |-> x] ++ NoBatch(r)
<1>1. IsRecord(r) /\ Mandatory \subseteq DOMAIN r
  BY DEF InSession
<1>2. /\ IsRecord(n) /\ DOMAIN n = DOMAIN r \cup {"batch"}
      /\ \A k \in DOMAIN r \ {"batch"} : n[k] = r[k]
      /\ RecordHash(n) = RecordHash(r) /\ SigningInput(n) = SigningInput(r)
  BY <1>1, Rebatched
<1> HIDE DEF n
<1>3. /\ n.record_id = r.record_id /\ n.timestamp = r.timestamp /\ n.agent_id = r.agent_id
      /\ n.session_id = r.session_id /\ n.action_type = r.action_type
      /\ n.action_detail = r.action_detail /\ n.outcome = r.outcome
      /\ n.trust_level = r.trust_level /\ n.parent_record_id = r.parent_record_id
      /\ n.prev_hash = r.prev_hash /\ n.record_phase = r.record_phase
  BY <1>1, <1>2 DEF Mandatory
<1>4. ASSUME NEW k \in {"signature", "sig_alg", "signer_kid", "signature_classical",
                        "signer_kid_classical", "recording_component", "tombstone_hash",
                        "action_type", "action_detail"}
      PROVE  (k \in DOMAIN n <=> k \in DOMAIN r) /\ (k \in DOMAIN r => n[k] = r[k])
  BY <1>2
<1>5. IsTombstone(n) <=> IsTombstone(r)
  BY <1>4 DEF IsTombstone, IsEvent, Event, Get
<1>6. IsClose(n) <=> IsClose(r)
  BY <1>4 DEF IsClose, IsEvent, Event, Get
<1>7. \A g : SignedBy(r, g) => SignedBy(n, g)
  <2> SUFFICES ASSUME NEW g, SignedBy(r, g) PROVE SignedBy(n, g)
    OBVIOUS
  <2>1. Signs(g) => /\ {"signature", "sig_alg", "signer_kid"} \subseteq DOMAIN n
                    /\ n.signature = Signature(Main(g), SigningInput(n))
                    /\ n.sig_alg = AlgOf[Main(g)]
                    /\ n.signer_kid = Main(g)
    BY <1>2, <1>4 DEF SignedBy
  <2>2. Both(g) => /\ {"signature_classical", "signer_kid_classical"} \subseteq DOMAIN n
                   /\ n.signature_classical = Signature(g.classical, SigningInput(n))
                   /\ n.signer_kid_classical = g.classical
    BY <1>2, <1>4 DEF SignedBy
  <2>3. /\ ~Signs(g) => {"signature", "sig_alg", "signer_kid"} \cap DOMAIN n = {}
        /\ ~Both(g) => {"signature_classical", "signer_kid_classical"} \cap DOMAIN n = {}
    BY <1>2 DEF SignedBy
  <2> QED BY <2>1, <2>2, <2>3 DEF SignedBy
<1>8. WellSigned(r, h) => WellSigned(n, h)
  BY <1>5, <1>6, <1>7 DEF WellSigned
<1>9. InSession(n, s, agent, h)
  <2>1. "recording_component" \in DOMAIN n <=> h.recorder # None
    BY <1>4 DEF InSession
  <2>2. h.recorder # None => n.recording_component = h.recorder
    BY <1>4 DEF InSession
  <2>3. Mandatory \subseteq DOMAIN n /\ DOMAIN n \subseteq TextFields \cup SignatureFields \cup {"batch"}
    BY <1>2 DEF InSession
  <2> QED BY <1>2, <1>3, <2>1, <2>2, <2>3 DEF InSession
<1>10. IsGenesis(r, s, h) => IsGenesis(n, s, h)
  BY <1>3, <1>4, <1>7 DEF IsGenesis
<1>11. IsActionRecord(r, h) => IsActionRecord(n, h)
  BY <1>3, <1>4, <1>7 DEF IsActionRecord, OfEntry
<1>12. IsErased(r, h) => IsErased(n, h)
  BY <1>3, <1>4, <1>8 DEF IsErased, OfEntry
<1>13. \A hashes : IsClosing(r, h, hashes) => IsClosing(n, h, hashes)
  BY <1>3, <1>4, <1>8 DEF IsClosing
<1>14. \A y : Linked(y, r) => Linked(y, n)
  <2> SUFFICES ASSUME NEW y, Linked(y, r) PROVE Linked(y, n)
    OBVIOUS
  <2>2. n.record_id = r.record_id /\ RecordHash(n) = RecordHash(r)
    BY <1>2, <1>3
  <2>3. IsTombstone(r) => n.tombstone_hash = r.tombstone_hash
    BY <1>4
  <2> QED BY <1>5, <2>2, <2>3 DEF Linked
<1>15. Becomes(r, n, s, agent, h)
  BY <1>3, <1>9, <1>10, <1>11, <1>12, <1>13, <1>14 DEF Becomes
<1> QED BY <1>15 DEF n


\* tombstone: what is put in a record's place.
IsDetail(D, r, time) ==
    /\ {"event", "deletion_reason", "deleted_at", "original_action_type"} \subseteq DOMAIN D
    /\ D.event = "record_deleted" /\ D.deleted_at = time
    /\ D.original_action_type = IF IsTombstone(r) THEN r.action_detail.original_action_type
                                                  ELSE r.action_type

InPlace(D, r, g) ==
    Sign([action_type |-> "lifecycle", action_detail |-> D, outcome |-> "success",
          tombstone_hash |-> OriginalHash(r)] ++ [k \in KeptFields \cap DOMAIN r |-> r[k]], g)

LEMMA TombstoneIs ==
    ASSUME NEW r, NEW time, NEW g
    PROVE  /\ r.action_type = "lifecycle" /\ ~IsTombstone(r) => Tombstone(r, time, g) = None
           /\ ~(r.action_type = "lifecycle" /\ ~IsTombstone(r)) =>
                \E D : IsDetail(D, r, time) /\ Tombstone(r, time, g) = InPlace(D, r, g)
<1> DEFINE again == IsTombstone(r)
           old   == r.action_detail
           orig  == [k \in SignatureFields \cap DOMAIN r |-> r[k]]
           detail == [event                |-> "record_deleted",
                      deletion_reason      |-> "erasure",
                      deleted_at           |-> time,
                      original_action_type |-> IF again THEN old.original_action_type
                                                        ELSE r.action_type]
           signatures ==
               IF again
               THEN (IF "original_signature" \in DOMAIN old
                     THEN [original_signature |-> old.original_signature] ELSE << >>)
                    ++ (IF DOMAIN orig # {}
                        THEN [deleter_signatures |->
                                Append(IF "deleter_signatures" \in DOMAIN old
                                       THEN old.deleter_signatures ELSE << >>, orig)]
                        ELSE << >>)
               ELSE IF DOMAIN orig # {} THEN [original_signature |-> orig] ELSE << >>
           D == detail ++ signatures
<1>1. /\ r.action_type = "lifecycle" /\ ~again => Tombstone(r, time, g) = None
      /\ ~(r.action_type = "lifecycle" /\ ~again) => Tombstone(r, time, g) = InPlace(D, r, g)
  BY DEF Tombstone, InPlace
<1>2. /\ DOMAIN detail = {"event", "deletion_reason", "deleted_at", "original_action_type"}
      /\ detail.event = "record_deleted" /\ detail.deleted_at = time
      /\ detail.original_action_type = IF again THEN old.original_action_type ELSE r.action_type
  OBVIOUS
<1> HIDE DEF detail, signatures
<1>3. DOMAIN detail \subseteq DOMAIN D /\ \A k \in DOMAIN detail : D[k] = detail[k]
  BY MergeFacts
<1> HIDE DEF D
<1>4. IsDetail(D, r, time)
  BY <1>2, <1>3 DEF IsDetail
<1> QED BY <1>1, <1>4

\* Who may sign a change of an exported chain.
MaySign(g, h) == g = h.signer \/ (Signs(h.signer) /\ g = DeleterAlone)

LEMMA Signer ==
    ASSUME TrailConstants, NEW h, IsSigner(h.signer), NEW g, MaySign(g, h)
    PROVE  IsSigner(g)
BY DEF TrailConstants, MaySign, IsSigner, DeleterAlone

LEMMA ErasedBecomes ==
    ASSUME TrailConstants, NEW h, IsSigner(h.signer), NEW g, MaySign(g, h),
           NEW r, NEW s, NEW agent, InSession(r, s, agent, h),
           IsActionRecord(r, h) \/ IsErased(r, h),
           NEW time \in Int, time >= r.timestamp
    PROVE  /\ Becomes(r, Tombstone(r, time, g), s, agent, h)
           /\ IsErased(Tombstone(r, time, g), h)
           /\ "batch" \notin DOMAIN Tombstone(r, time, g)
<1> DEFINE n == Tombstone(r, time, g)
           kept == [k \in KeptFields \cap DOMAIN r |-> r[k]]
           head(D) == [action_type |-> "lifecycle", action_detail |-> D,
                       outcome |-> "success", tombstone_hash |-> OriginalHash(r)]
<1>1. {"action_type", "action_detail"} \subseteq DOMAIN r /\ IsRecord(r) /\ Mandatory \subseteq DOMAIN r
  BY DEF InSession, Mandatory
<1>2. /\ IsActionRecord(r, h) => ~IsTombstone(r) /\ ~IsClose(r) /\ ~IsEvent(r, "session_start")
      /\ IsErased(r, h) => IsTombstone(r) /\ ~IsClose(r) /\ ~IsEvent(r, "session_start")
  BY <1>1, ActionTold DEF IsTombstone, IsClose
<1>3. ~(r.action_type = "lifecycle" /\ ~IsTombstone(r))
  BY <1>2 DEF IsActionRecord
<1>4. PICK D : IsDetail(D, r, time) /\ n = InPlace(D, r, g)
  BY <1>3, TombstoneIs
<1> DEFINE out == head(D) ++ kept
<1>5. /\ DOMAIN head(D) = {"action_type", "action_detail", "outcome", "tombstone_hash"}
      /\ head(D).action_type = "lifecycle" /\ head(D).action_detail = D
      /\ head(D).outcome = "success" /\ head(D).tombstone_hash = OriginalHash(r)
  OBVIOUS
<1>6. DOMAIN kept = KeptFields \cap DOMAIN r /\ \A k \in KeptFields \cap DOMAIN r : kept[k] = r[k]
  OBVIOUS
<1> HIDE DEF n, head, kept
<1>7. /\ DOMAIN out = DOMAIN head(D) \cup DOMAIN kept /\ IsRecord(out)
      /\ \A k \in DOMAIN head(D) : out[k] = head(D)[k]
      /\ \A k \in DOMAIN kept \ DOMAIN head(D) : out[k] = kept[k]
  BY MergeFacts
<1>8. \A k \in KeptFields \cap DOMAIN r : k \in DOMAIN out /\ out[k] = r[k]
  BY <1>5, <1>6, <1>7 DEF KeptFields
<1>9. /\ {"action_type", "action_detail", "outcome", "tombstone_hash"} \subseteq DOMAIN out
      /\ out.action_type = "lifecycle" /\ out.action_detail = D
      /\ out.outcome = "success" /\ out.tombstone_hash = OriginalHash(r)
  BY <1>5, <1>7
<1>10. DOMAIN out = {"action_type", "action_detail", "outcome", "tombstone_hash"}
                      \cup (KeptFields \cap DOMAIN r)
  BY <1>5, <1>6, <1>7
<1> HIDE DEF out
<1>11. SignatureFields \cap DOMAIN out = {}
  BY <1>10 DEF SignatureFields, KeptFields
<1>12. /\ IsRecord(n) /\ DOMAIN out \subseteq DOMAIN n
       /\ DOMAIN n \subseteq DOMAIN out \cup SignatureFields
       /\ \A k \in DOMAIN out : n[k] = out[k]
       /\ SignedBy(n, g)
  <2>1. n = Sign(out, g)
    BY <1>4 DEF out, head, kept, InPlace
  <2> QED BY <1>7, <1>11, <2>1, SignFacts, Signer
<1>13. /\ {"action_type", "action_detail", "outcome", "tombstone_hash"} \subseteq DOMAIN n
       /\ n.action_type = "lifecycle" /\ n.action_detail = D
       /\ n.outcome = "success" /\ n.tombstone_hash = OriginalHash(r)
  BY <1>9, <1>12
<1>14. \A k \in KeptFields \cap DOMAIN r : k \in DOMAIN n /\ n[k] = r[k]
  BY <1>8, <1>12
<1>15. /\ n.record_id = r.record_id /\ n.timestamp = r.timestamp /\ n.agent_id = r.agent_id
       /\ n.session_id = r.session_id /\ n.trust_level = r.trust_level
       /\ n.parent_record_id = r.parent_record_id /\ n.prev_hash = r.prev_hash
       /\ n.record_phase = r.record_phase
       /\ Mandatory \subseteq DOMAIN n
  <2>1. \A k \in {"record_id", "timestamp", "agent_id", "agent_version", "session_id",
                  "parent_record_id", "prev_hash", "trust_level", "record_phase"} :
             k \in DOMAIN n /\ n[k] = r[k]
    BY <1>1, <1>14 DEF Mandatory, KeptFields
  <2> QED BY <1>13, <2>1 DEF Mandatory
<1>16. DOMAIN n \subseteq TextFields \cup SignatureFields \cup {"batch"}
  <2>1. DOMAIN n \subseteq {"action_type", "action_detail", "outcome", "tombstone_hash"}
                             \cup DOMAIN r \cup SignatureFields
    BY <1>10, <1>12
  <2>2. {"action_type", "action_detail", "outcome", "tombstone_hash"} \subseteq TextFields
    BY DEF TextFields, Mandatory
  <2> QED BY <2>1, <2>2 DEF InSession
<1>17. /\ "recording_component" \in DOMAIN n <=> h.recorder # None
       /\ h.recorder # None => n.recording_component = h.recorder
  <2>1. "recording_component" \in DOMAIN n <=> "recording_component" \in DOMAIN r
    BY <1>10, <1>12 DEF KeptFields, SignatureFields
  <2>2. "recording_component" \in DOMAIN r => n.recording_component = r.recording_component
    BY <1>14 DEF KeptFields
  <2> QED BY <2>1, <2>2 DEF InSession
<1>18. InSession(n, s, agent, h)
  BY <1>12, <1>15, <1>16, <1>17 DEF InSession
<1>19. IsTombstone(n)
  BY <1>4, <1>13 DEF IsDetail, IsTombstone, IsEvent, Event, Get
<1>20. IsRecord(OriginalHash(r)) /\ ~IsTombstone(OriginalHash(r))
  BY <1>2, HashFacts DEF OriginalHash, IsErased
<1>21. WellSigned(n, h)
  BY <1>12, <1>19 DEF WellSigned, MaySign
<1>22. D.original_action_type \in {"tool_call", "decision"}
  BY <1>2, <1>4 DEF IsDetail, IsActionRecord, IsErased
<1>23. OfEntry(n) /\ n.record_phase \in {"post_execution", "pre_execution"}
  BY <1>15 DEF OfEntry, IsActionRecord, IsErased
<1>24. IsErased(n, h)
  BY <1>4, <1>13, <1>15, <1>20, <1>21, <1>22, <1>23 DEF IsDetail, IsErased
<1>25. ~IsGenesis(r, s, h) /\ \A hashes : ~IsClosing(r, h, hashes)
  BY <1>1, <1>2, ActionTold DEF IsClose
<1>26. \A y : Linked(y, r) => Linked(y, n)
  <2> SUFFICES ASSUME NEW y, Linked(y, r) PROVE Linked(y, n)
    OBVIOUS
  <2>1. y.parent_record_id = n.record_id /\ IsRecord(y.prev_hash)
    BY <1>15 DEF Linked
  <2>2. CASE ~IsTombstone(r)
    <3>1. y.prev_hash = n.tombstone_hash
      BY <1>13, <2>2 DEF Linked, OriginalHash
    <3> QED BY <1>19, <2>1, <3>1 DEF Linked
  <2>3. CASE IsTombstone(r)
    <3>1. y.prev_hash = RecordHash(r) => IsTombstone(y.prev_hash)
      BY <2>3, HashFacts
    <3>2. n.tombstone_hash = r.tombstone_hash
      BY <1>13, <2>3 DEF OriginalHash
    <3> QED BY <1>19, <2>1, <3>1, <3>2 DEF Linked
  <2> QED BY <2>2, <2>3
<1>27. Becomes(r, n, s, agent, h)
  BY <1>15, <1>18, <1>24, <1>25, <1>26 DEF Becomes
<1>28. "batch" \notin DOMAIN n
  BY <1>10, <1>12 DEF KeptFields, SignatureFields
<1> QED BY <1>24, <1>27, <1>28 DEF n

\* EraseRecord: a chain with one record tombstoned.
LEMMA ErasedChain ==
    ASSUME TrailConstants, NEW h, IsSigner(h.signer), NEW g, MaySign(g, h),
           NEW ch, NEW s, ChainOk(ch, s, h), NEW i \in DOMAIN ch,
           Tombstone(ch[i], Last(ch).timestamp, g) # None
    PROVE  /\ ChainOk([ch EXCEPT ![i] = Tombstone(ch[i], Last(ch).timestamp, g)], s, h)
           /\ "batch" \notin DOMAIN Tombstone(ch[i], Last(ch).timestamp, g)
<1> DEFINE time == Last(ch).timestamp
           new  == [ch EXCEPT ![i] = Tombstone(ch[i], time, g)]
<1>1. /\ IsList(ch) /\ Len(ch) \in Nat /\ Len(ch) # 0 /\ DOMAIN ch = 1 .. Len(ch)
      /\ Len(ch) \in 1 .. Len(ch)
  BY ListFacts DEF ChainOk
<1>2. i \in 1 .. Len(ch) /\ i <= Len(ch)
  BY <1>1
<1>3. InSession(ch[i], s, ch[1].agent_id, h)
  BY <1>2, Kinds
<1>4. time \in Int /\ time >= ch[i].timestamp
  <2>1. Last(ch) = ch[Len(ch)]
    BY DEF Last
  <2>2. ch[i].timestamp \in Int /\ ch[Len(ch)].timestamp \in Int
    BY <1>1, <1>2 DEF ChainOk, InSession
  <2>3. ch[i].timestamp <= ch[Len(ch)].timestamp
    BY <1>1, <1>2 DEF ChainOk
  <2> QED BY <2>1, <2>2, <2>3
<1>5. IsActionRecord(ch[i], h) \/ IsErased(ch[i], h)
  <2>1. ~(ch[i].action_type = "lifecycle" /\ ~IsTombstone(ch[i]))
    BY TombstoneIs
  <2>2. (IsGenesis(ch[i], s, h) \/ IsClosing(ch[i], h, Hashes(ch, i)))
           => ch[i].action_type = "lifecycle"
    BY DEF IsGenesis, IsClosing
  <2> QED BY <1>2, <2>1, <2>2, Kinds
<1>6. /\ Becomes(ch[i], Tombstone(ch[i], time, g), s, ch[1].agent_id, h)
      /\ "batch" \notin DOMAIN Tombstone(ch[i], time, g)
  <2> HIDE DEF time
  <2> QED BY <1>3, <1>4, <1>5, ErasedBecomes
<1>7. /\ IsList(new) /\ Len(new) = Len(ch)
      /\ new[i] = Tombstone(ch[i], time, g)
      /\ \A j \in DOMAIN ch : j # i => new[j] = ch[j]
  <2> DEFINE x == Tombstone(ch[i], time, g)
  <2> HIDE DEF x
  <2>1. LET t == [ch EXCEPT ![i] = x] IN
        /\ IsList(t) /\ Len(t) = Len(ch) /\ t[i] = x
        /\ \A j \in DOMAIN ch : j # i => t[j] = ch[j]
    BY <1>1, ListExcept
  <2> QED BY <2>1 DEF x
<1> HIDE DEF new, time
<1>8. \A j \in 1 .. Len(ch) : Becomes(ch[j], new[j], s, ch[1].agent_id, h)
  <2> SUFFICES ASSUME NEW j \in 1 .. Len(ch) PROVE Becomes(ch[j], new[j], s, ch[1].agent_id, h)
    OBVIOUS
  <2>1. CASE j = i
    BY <1>6, <1>7, <2>1
  <2>2. CASE j # i
    <3>1. InSession(ch[j], s, ch[1].agent_id, h)
      BY Kinds
    <3>2. new[j] = ch[j]
      BY <1>1, <1>7, <2>2
    <3> QED BY <3>1, <3>2, UnchangedBecomes
  <2> QED BY <2>1, <2>2
<1>9. ChainOk(new, s, h)
  BY <1>7, <1>8, ChainChanged
<1> QED BY <1>6, <1>9 DEF new, time

-----------------------------------------------------------------------------
(* A record added at the end                                                *)

LEMMA ChainAppended ==
    ASSUME NEW s, NEW h, NEW ch, ChainOk(ch, s, h), ~IsClose(Last(ch)),
           NEW r, InSession(r, s, ch[1].agent_id, h), Linked(r, Last(ch)),
           Last(ch).timestamp <= r.timestamp,
           \A i \in 1 .. Len(ch) : ch[i].record_id # r.record_id,
           \/ IsActionRecord(r, h)
           \/ IsClosing(r, h, Append([i \in 1 .. Len(ch) - 1 |-> ch[i + 1].prev_hash],
                                     r.prev_hash))
    PROVE  ChainOk(Append(ch, r), s, h)
<1> DEFINE new == Append(ch, r)
           n   == Len(ch)
<1>1. IsList(ch) /\ n \in Nat /\ n # 0 /\ 1 \in 1 .. n /\ n \in 1 .. n
  BY ListFacts DEF ChainOk
<1>2. /\ IsList(new) /\ Len(new) = n + 1
      /\ \A i \in 1 .. n : new[i] = ch[i]
      /\ new[n + 1] = r
  BY <1>1, ListAppend
<1>3. Last(ch) = ch[n]
  BY DEF Last
<1> HIDE DEF new
<1>4. \A i \in 1 .. n + 1 : i \in 1 .. n \/ i = n + 1
  BY <1>1
<1>5. \A i \in 1 .. Len(new) : InSession(new[i], s, new[1].agent_id, h)
  BY <1>1, <1>2, <1>4, Kinds
<1>6. IsGenesis(new[1], s, h) /\ new[1].agent_id = ch[1].agent_id
  BY <1>1, <1>2 DEF ChainOk
<1>7. \A i \in 2 .. Len(new) : Linked(new[i], new[i - 1])
  <2> SUFFICES ASSUME NEW i \in 2 .. n + 1 PROVE Linked(new[i], new[i - 1])
    BY <1>2
  <2>1. CASE i = n + 1
    <3>1. i - 1 = n
      BY <1>1, <2>1
    <3> QED BY <1>1, <1>2, <1>3, <2>1, <3>1
  <2>2. CASE i # n + 1
    <3>1. i \in 2 .. n /\ i \in 1 .. n /\ i - 1 \in 1 .. n
      BY <1>1, <2>2
    <3>2. new[i] = ch[i] /\ new[i - 1] = ch[i - 1]
      BY <1>2, <3>1
    <3> QED BY <3>1, <3>2 DEF ChainOk
  <2> QED BY <2>1, <2>2
<1>8. ASSUME NEW i \in 2 .. Len(new)
      PROVE  \/ IsActionRecord(new[i], h) \/ IsErased(new[i], h)
             \/ i = Len(new) /\ IsClosing(new[i], h, Hashes(new, i))
  <2>1. CASE i = n + 1
    <3>1. CASE IsActionRecord(r, h)
      BY <1>2, <2>1, <3>1
    <3>2. CASE IsClosing(r, h, Append([j \in 1 .. n - 1 |-> ch[j + 1].prev_hash], r.prev_hash))
      <4> DEFINE a == [j \in 1 .. n - 1 |-> ch[j + 1].prev_hash]
                 b == Append(a, r.prev_hash)
                 c == Hashes(new, n + 1)
      <4>1. IsList(a) /\ Len(a) = n - 1 /\ \A j \in 1 .. n - 1 : a[j] = ch[j + 1].prev_hash
        <5>1. n - 1 \in Nat /\ a = [j \in 1 .. n - 1 |-> a[j]]
          BY <1>1
        <5>2. \A j \in 1 .. n - 1 : a[j] = ch[j + 1].prev_hash
          OBVIOUS
        <5> HIDE DEF a
        <5> QED BY <5>1, <5>2, ListOf
      <4> HIDE DEF a
      <4>2. /\ IsList(b) /\ Len(b) = Len(a) + 1
            /\ \A j \in 1 .. Len(a) : b[j] = a[j]
            /\ b[Len(a) + 1] = r.prev_hash
        BY <4>1, ListAppend
      <4>3. Len(b) = n /\ b[n] = r.prev_hash /\ \A j \in 1 .. n - 1 : b[j] = ch[j + 1].prev_hash
        BY <1>1, <4>1, <4>2
      <4>4. c = [j \in 1 .. n |-> new[j + 1].prev_hash]
        BY <1>1 DEF Hashes
      <4>5. IsList(c) /\ Len(c) = n /\ \A j \in 1 .. n : c[j] = new[j + 1].prev_hash
        <5>1. c = [j \in 1 .. n |-> c[j]]
          BY <4>4
        <5>2. \A j \in 1 .. n : c[j] = new[j + 1].prev_hash
          BY <4>4
        <5> HIDE DEF c
        <5> QED BY <1>1, <5>1, <5>2, ListOf
      <4> HIDE DEF b, c
      <4>6. \A j \in 1 .. n : b[j] = c[j]
        <5> SUFFICES ASSUME NEW j \in 1 .. n PROVE b[j] = c[j]
          OBVIOUS
        <5>1. CASE j = n
          BY <1>1, <1>2, <4>3, <4>5, <5>1
        <5>2. CASE j # n
          <6>1. j \in 1 .. n - 1 /\ j + 1 \in 1 .. n
            BY <1>1, <5>2
          <6> QED BY <1>2, <4>3, <4>5, <6>1
        <5> QED BY <5>1, <5>2
      <4>7. b = c
        BY <4>2, <4>3, <4>5, <4>6, ListEqual
      <4> QED BY <1>2, <2>1, <3>2, <4>7 DEF a, b, c
    <3> QED BY <3>1, <3>2
  <2>2. CASE i # n + 1
    <3>1. i \in 2 .. n /\ i \in 1 .. n
      BY <1>1, <1>2, <1>8, <2>2
    <3>2. i = n => ~IsClose(ch[i])
      BY <1>3
    <3>3. IsActionRecord(ch[i], h) \/ IsErased(ch[i], h)
      BY <3>1, <3>2, Kinds
    <3> QED BY <1>2, <3>1, <3>3
  <2> QED BY <2>1, <2>2
<1>9. \A i \in 1 .. n : ch[i].timestamp <= r.timestamp
  <2> SUFFICES ASSUME NEW i \in 1 .. n PROVE ch[i].timestamp <= r.timestamp
    OBVIOUS
  <2>1. ch[i].timestamp \in Int /\ ch[n].timestamp \in Int /\ r.timestamp \in Int
    BY <1>1, Kinds DEF InSession
  <2>2. ch[i].timestamp <= ch[n].timestamp
    BY <1>1 DEF ChainOk
  <2> QED BY <1>3, <2>1, <2>2
<1>10. \A i, j \in 1 .. Len(new) : i <= j => new[i].timestamp <= new[j].timestamp
  <2> SUFFICES ASSUME NEW i \in 1 .. n + 1, NEW j \in 1 .. n + 1, i <= j
               PROVE  new[i].timestamp <= new[j].timestamp
    BY <1>2
  <2>1. CASE j # n + 1
    <3>1. i \in 1 .. n /\ j \in 1 .. n
      BY <1>1, <2>1
    <3> QED BY <1>2, <3>1 DEF ChainOk
  <2>2. CASE j = n + 1 /\ i # n + 1
    <3>1. i \in 1 .. n
      BY <1>1, <2>2
    <3> QED BY <1>2, <1>9, <2>2, <3>1
  <2>3. CASE j = n + 1 /\ i = n + 1
    <3>1. r.timestamp \in Int
      BY DEF InSession
    <3> QED BY <1>2, <2>3, <3>1
  <2> QED BY <2>1, <2>2, <2>3
<1>11. \A i, j \in 1 .. Len(new) : new[i].record_id = new[j].record_id => i = j
  <2> SUFFICES ASSUME NEW i \in 1 .. n + 1, NEW j \in 1 .. n + 1,
                      new[i].record_id = new[j].record_id
               PROVE  i = j
    BY <1>2
  <2>1. CASE i \in 1 .. n /\ j \in 1 .. n
    BY <1>2, <2>1 DEF ChainOk
  <2>2. CASE i = n + 1 \/ j = n + 1
    BY <1>2, <1>4, <2>2
  <2> QED BY <1>4, <2>1, <2>2
<1>12. h.recorder # None => h.recorder # new[1].agent_id /\ Signs(h.signer)
  BY <1>6 DEF ChainOk
<1>13. Len(new) # 0
  BY <1>1, <1>2
<1>14. ChainOk(new, s, h)
  BY <1>2, <1>5, <1>6, <1>7, <1>8, <1>10, <1>11, <1>12, <1>13 DEF ChainOk
<1> QED BY <1>14 DEF new

LEMMA UnanchoredAppended ==
    ASSUME NEW ch, IsList(ch), Unanchored(ch), NEW r, "batch" \notin DOMAIN r
    PROVE  Unanchored(Append(ch, r))
<1> DEFINE new == Append(ch, r)
<1>1. /\ Len(new) = Len(ch) + 1 /\ Len(ch) \in Nat
      /\ \A i \in 1 .. Len(ch) : new[i] = ch[i]
      /\ new[Len(ch) + 1] = r
  BY ListAppend, ListFacts
<1> HIDE DEF new
<1>2. ASSUME NEW i \in 1 .. Len(new) PROVE "batch" \notin DOMAIN new[i]
  <2>1. i = Len(ch) + 1 \/ i \in 1 .. Len(ch)
    BY <1>1
  <2> QED BY <1>1, <2>1 DEF Unanchored
<1> QED BY <1>2 DEF Unanchored, new

\* close_record: a closed chain.
LEMMA ClosedChain ==
    ASSUME TrailConstants, NEW h, IsSigner(h.signer), NEW g, MaySign(g, h),
           NEW ch, NEW s, ChainOk(ch, s, h), ~IsClose(Last(ch)),
           NEW synthesised, NEW time \in Int, time >= Last(ch).timestamp
    PROVE  /\ ChainOk(Append(ch, Sign(CloseRecord(ch, synthesised, time), g)), s, h)
           /\ "batch" \notin DOMAIN Sign(CloseRecord(ch, synthesised, time), g)
<1> DEFINE last   == Last(ch)
           hashes == Append([i \in 1 .. Len(ch) - 1 |-> ch[i + 1].prev_hash], RecordHash(last))
           detail == [event        |-> "session_end",
                      trigger      |-> IF synthesised THEN "export" ELSE "task_complete",
                      session_hash |-> hashes,
                      record_count |-> Len(ch) + 1]
           rec == [record_id        |-> <<"close", last.session_id, RecordHash(last)>>,
                   timestamp        |-> time,
                   agent_id         |-> last.agent_id,
                   agent_version    |-> last.agent_version,
                   session_id       |-> last.session_id,
                   action_type      |-> "lifecycle",
                   action_detail    |-> detail,
                   outcome          |-> "success",
                   trust_level      |-> last.trust_level,
                   record_phase     |-> "post_execution",
                   parent_record_id |-> last.record_id,
                   prev_hash        |-> RecordHash(last)]
           more == [recording_component |-> last.recording_component]
           full == IF "recording_component" \in DOMAIN last THEN more ++ rec ELSE rec
           r    == Sign(full, g)
<1>1. IsList(ch) /\ Len(ch) \in Nat /\ Len(ch) # 0 /\ ch # << >> /\ Len(ch) \in 1 .. Len(ch)
  BY ListFacts DEF ChainOk
<1>2. InSession(last, s, ch[1].agent_id, h)
  BY <1>1, Kinds DEF Last
<1>3. ~(time < last.timestamp)
  BY <1>2 DEF InSession
<1>4. CloseRecord(ch, synthesised, time) = full
  BY <1>1, <1>3 DEF CloseRecord
<1>5. /\ detail.event = "session_end" /\ detail.session_hash = hashes
      /\ {"event", "session_hash"} \subseteq DOMAIN detail
  OBVIOUS
<1> HIDE DEF detail, last
<1>6. /\ DOMAIN rec = Mandatory /\ IsRecord(rec)
      /\ rec.record_id = <<"close", last.session_id, RecordHash(last)>>
      /\ rec.timestamp = time /\ rec.agent_id = last.agent_id
      /\ rec.session_id = last.session_id /\ rec.action_type = "lifecycle"
      /\ rec.action_detail = detail /\ rec.outcome = "success"
      /\ rec.trust_level = last.trust_level /\ rec.record_phase = "post_execution"
      /\ rec.parent_record_id = last.record_id /\ rec.prev_hash = RecordHash(last)
  BY DEF Mandatory, IsRecord
<1>7. DOMAIN more = {"recording_component"} /\ more.recording_component = last.recording_component
  OBVIOUS
<1> HIDE DEF rec, more
<1>8. /\ IsRecord(full)
      /\ DOMAIN full = Mandatory \cup (IF h.recorder # None THEN {"recording_component"} ELSE {})
      /\ \A k \in Mandatory : full[k] = rec[k]
      /\ h.recorder # None => full.recording_component = h.recorder
  <2>1. "recording_component" \in DOMAIN last <=> h.recorder # None
    BY <1>2 DEF InSession
  <2>2. "recording_component" \notin Mandatory
    BY DEF Mandatory
  <2>3. CASE h.recorder = None
    BY <1>6, <2>1, <2>3
  <2>4. CASE h.recorder # None
    <3>1. full = more ++ rec /\ last.recording_component = h.recorder
      BY <1>2, <2>1, <2>4 DEF InSession
    <3>2. /\ DOMAIN (more ++ rec) = DOMAIN more \cup DOMAIN rec /\ IsRecord(more ++ rec)
          /\ \A k \in DOMAIN more : (more ++ rec)[k] = more[k]
          /\ \A k \in DOMAIN rec \ DOMAIN more : (more ++ rec)[k] = rec[k]
      BY MergeFacts
    <3> HIDE DEF full
    <3> QED BY <1>6, <1>7, <2>2, <2>4, <3>1, <3>2
  <2> QED BY <2>3, <2>4
<1> HIDE DEF full
<1>9. SignatureFields \cap DOMAIN full = {}
  BY <1>8 DEF SignatureFields, Mandatory
<1>10. /\ IsRecord(r) /\ DOMAIN full \subseteq DOMAIN r
       /\ DOMAIN r \subseteq DOMAIN full \cup SignatureFields
       /\ \A k \in DOMAIN full : r[k] = full[k]
       /\ SignedBy(r, g)
  BY <1>8, <1>9, SignFacts, Signer
<1> HIDE DEF r
<1>11. /\ Mandatory \subseteq DOMAIN r /\ \A k \in Mandatory : r[k] = rec[k]
  BY <1>8, <1>10
<1>12. /\ r.record_id = <<"close", last.session_id, RecordHash(last)>>
       /\ r.timestamp = time /\ r.agent_id = last.agent_id
       /\ r.session_id = last.session_id /\ r.action_type = "lifecycle"
       /\ r.action_detail = detail /\ r.outcome = "success"
       /\ r.trust_level = last.trust_level /\ r.record_phase = "post_execution"
       /\ r.parent_record_id = last.record_id /\ r.prev_hash = RecordHash(last)
  BY <1>6, <1>11 DEF Mandatory
<1>13. InSession(r, s, ch[1].agent_id, h)
  <2>1. /\ "recording_component" \in DOMAIN r <=> h.recorder # None
        /\ h.recorder # None => r.recording_component = h.recorder
    BY <1>8, <1>10 DEF Mandatory, SignatureFields
  <2>2. DOMAIN r \subseteq TextFields \cup SignatureFields \cup {"batch"}
    BY <1>8, <1>10 DEF TextFields
  <2> QED BY <1>2, <1>10, <1>11, <1>12, <2>1, <2>2 DEF InSession
<1>14. IsClose(r)
  BY <1>5, <1>11, <1>12 DEF IsClose, IsEvent, Event, Get, Mandatory
<1>15. "tombstone_hash" \notin DOMAIN r /\ "batch" \notin DOMAIN r
  BY <1>8, <1>10 DEF Mandatory, SignatureFields
<1>16. WellSigned(r, h)
  BY <1>10, <1>14 DEF WellSigned, MaySign
<1>17. IsClosing(r, h, Append([i \in 1 .. Len(ch) - 1 |-> ch[i + 1].prev_hash], r.prev_hash))
  BY <1>5, <1>12, <1>15, <1>16 DEF IsClosing
<1>18. Linked(r, Last(ch))
  BY <1>12, HashFacts DEF Linked, last
<1>19. \A i \in 1 .. Len(ch) : ch[i].record_id # r.record_id
  <2> SUFFICES ASSUME NEW i \in 1 .. Len(ch) PROVE ch[i].record_id # r.record_id
    OBVIOUS
  <2>1. i = Len(ch) => ~IsClose(ch[i])
    BY DEF Last
  <2>2. IsGenesis(ch[i], s, h) \/ IsActionRecord(ch[i], h) \/ IsErased(ch[i], h)
    BY <2>1, Kinds
  <2>3. \/ ch[i].record_id = <<"genesis", s>>
        \/ \E seed : ch[i].record_id = <<"record", seed>>
    BY <2>2 DEF IsGenesis, IsActionRecord, IsErased, OfEntry
  <2> QED BY <1>12, <2>3
<1>20. Last(ch).timestamp <= r.timestamp
  BY <1>2, <1>12 DEF last, InSession
<1>21. ChainOk(Append(ch, r), s, h)
  BY <1>13, <1>17, <1>18, <1>19, <1>20, ChainAppended
<1> QED BY <1>4, <1>15, <1>21 DEF r


-----------------------------------------------------------------------------
(* from_omega: the records it makes                                         *)

LEMMA RecordMade ==
    ASSUME TrailConstants, NEW h, IsSigner(h.signer),
           NEW rec, IsRecord(rec), Mandatory \subseteq DOMAIN rec,
           DOMAIN rec \subseteq Mandatory \cup {"human_override"},
           rec.timestamp \in Int, rec.trust_level = h.trust
    PROVE  LET n == Sign(WithRecorder(rec, h), h.signer)
           IN  /\ InSession(n, rec.session_id, rec.agent_id, h)
               /\ \A k \in Mandatory : n[k] = rec[k]
               /\ "tombstone_hash" \notin DOMAIN n /\ "batch" \notin DOMAIN n
               /\ SignedBy(n, h.signer)
<1> DEFINE more == [recording_component |-> h.recorder]
           full == WithRecorder(rec, h)
           n    == Sign(full, h.signer)
<1>1. DOMAIN more = {"recording_component"} /\ more.recording_component = h.recorder
  OBVIOUS
<1> HIDE DEF more
<1>2. /\ IsRecord(full)
      /\ DOMAIN full = DOMAIN rec \cup (IF h.recorder # None THEN {"recording_component"} ELSE {})
      /\ \A k \in Mandatory : full[k] = rec[k]
      /\ h.recorder # None => full.recording_component = h.recorder
  <2>1. "recording_component" \notin Mandatory
    BY DEF Mandatory
  <2>2. CASE h.recorder = None
    BY <2>2 DEF WithRecorder
  <2>3. CASE h.recorder # None
    <3>1. full = more ++ rec
      BY <2>3 DEF WithRecorder, more
    <3>2. /\ DOMAIN (more ++ rec) = DOMAIN more \cup DOMAIN rec /\ IsRecord(more ++ rec)
          /\ \A k \in DOMAIN more : (more ++ rec)[k] = more[k]
          /\ \A k \in DOMAIN rec \ DOMAIN more : (more ++ rec)[k] = rec[k]
      BY MergeFacts
    <3> HIDE DEF full
    <3> QED BY <1>1, <2>1, <2>3, <3>1, <3>2
  <2> QED BY <2>2, <2>3
<1> HIDE DEF full
<1>3. SignatureFields \cap DOMAIN full = {}
  BY <1>2 DEF SignatureFields, Mandatory
<1>4. /\ IsRecord(n) /\ DOMAIN full \subseteq DOMAIN n
      /\ DOMAIN n \subseteq DOMAIN full \cup SignatureFields
      /\ \A k \in DOMAIN full : n[k] = full[k]
      /\ SignedBy(n, h.signer)
  BY <1>2, <1>3, SignFacts
<1> HIDE DEF n
<1>5. Mandatory \subseteq DOMAIN n /\ \A k \in Mandatory : n[k] = rec[k]
  BY <1>2, <1>4
<1>6. /\ n.session_id = rec.session_id /\ n.agent_id = rec.agent_id
      /\ n.timestamp = rec.timestamp /\ n.trust_level = rec.trust_level
  BY <1>5 DEF Mandatory
<1>7. /\ "recording_component" \in DOMAIN n <=> h.recorder # None
      /\ h.recorder # None => n.recording_component = h.recorder
  BY <1>2, <1>4 DEF Mandatory, SignatureFields
<1>8. /\ DOMAIN n \subseteq TextFields \cup SignatureFields \cup {"batch"}
      /\ "tombstone_hash" \notin DOMAIN n /\ "batch" \notin DOMAIN n
  BY <1>2, <1>4 DEF TextFields, SignatureFields, Mandatory
<1>9. InSession(n, rec.session_id, rec.agent_id, h)
  BY <1>4, <1>5, <1>6, <1>7, <1>8 DEF InSession
<1> QED BY <1>4, <1>5, <1>8, <1>9 DEF n, full

LEMMA GenesisChain ==
    ASSUME TrailConstants, NEW h, IsSigner(h.signer), NEW e, e.time \in Int,
           h.recorder # None => h.recorder # e.agent /\ Signs(h.signer)
    PROVE  LET r == Genesis(e, h)
           IN  /\ ChainOk(<<r>>, e.session, h)
               /\ r.agent_id = e.agent /\ r.timestamp = e.time
               /\ r.record_id = <<"genesis", e.session>>
               /\ "batch" \notin DOMAIN r
<1> DEFINE detail == [event |-> "session_start",
                      recording_mode |-> IF h.recorder = None THEN "self" ELSE "independent"]
                     ++ (IF h.recorder = None THEN << >>
                         ELSE [recording_component_id |-> h.recorder])
           rec == [record_id        |-> <<"genesis", e.session>>,
                   timestamp        |-> e.time,
                   agent_id         |-> e.agent,
                   agent_version    |-> "1",
                   session_id       |-> e.session,
                   action_type      |-> "lifecycle",
                   action_detail    |-> detail,
                   outcome          |-> "success",
                   trust_level      |-> h.trust,
                   record_phase     |-> "concurrent",
                   parent_record_id |-> None,
                   prev_hash        |-> None]
           r == Genesis(e, h)
<1>1. r = Sign(WithRecorder(rec, h), h.signer)
  BY DEF Genesis
<1>2. /\ {"event", "recording_mode"} \subseteq DOMAIN detail
      /\ detail.event = "session_start"
      /\ h.recorder = None => /\ detail.recording_mode = "self"
                              /\ "recording_component_id" \notin DOMAIN detail
      /\ h.recorder # None => /\ detail.recording_mode = "independent"
                              /\ "recording_component_id" \in DOMAIN detail
                              /\ detail.recording_component_id = h.recorder
  <2> DEFINE a == [event |-> "session_start",
                   recording_mode |-> IF h.recorder = None THEN "self" ELSE "independent"]
             b == IF h.recorder = None THEN << >> ELSE [recording_component_id |-> h.recorder]
  <2>1. /\ DOMAIN a = {"event", "recording_mode"} /\ a.event = "session_start"
        /\ h.recorder = None => a.recording_mode = "self"
        /\ h.recorder # None => a.recording_mode = "independent"
    OBVIOUS
  <2>2. h.recorder = None => DOMAIN b = {}
    OBVIOUS
  <2>3. h.recorder # None => /\ DOMAIN b = {"recording_component_id"}
                             /\ b.recording_component_id = h.recorder
    OBVIOUS
  <2> HIDE DEF a, b
  <2>4. /\ DOMAIN (a ++ b) = DOMAIN a \cup DOMAIN b
        /\ \A k \in DOMAIN a : (a ++ b)[k] = a[k]
        /\ \A k \in DOMAIN b \ DOMAIN a : (a ++ b)[k] = b[k]
    BY MergeFacts
  <2>5. detail = a ++ b
    BY DEF a, b
  <2> HIDE DEF detail
  <2>6. /\ {"event", "recording_mode"} \subseteq DOMAIN detail
        /\ detail.event = "session_start"
        /\ detail.recording_mode = a.recording_mode
    BY <2>1, <2>4, <2>5
  <2> QED BY <2>1, <2>2, <2>3, <2>4, <2>5, <2>6
<1> HIDE DEF detail
<1>3. /\ DOMAIN rec = Mandatory /\ IsRecord(rec)
      /\ rec.record_id = <<"genesis", e.session>> /\ rec.timestamp = e.time
      /\ rec.agent_id = e.agent /\ rec.session_id = e.session
      /\ rec.action_type = "lifecycle" /\ rec.action_detail = detail
      /\ rec.outcome = "success" /\ rec.trust_level = h.trust
      /\ rec.record_phase = "concurrent"
      /\ rec.parent_record_id = None /\ rec.prev_hash = None
  BY DEF Mandatory, IsRecord
<1> HIDE DEF rec
<1>4. /\ InSession(r, rec.session_id, rec.agent_id, h)
      /\ \A k \in Mandatory : r[k] = rec[k]
      /\ "tombstone_hash" \notin DOMAIN r /\ "batch" \notin DOMAIN r
      /\ SignedBy(r, h.signer)
  BY <1>1, <1>3, RecordMade
<1>5. InSession(r, e.session, e.agent, h)
  BY <1>3, <1>4
<1> HIDE DEF r
<1>6. /\ r.record_id = <<"genesis", e.session>> /\ r.timestamp = e.time
      /\ r.agent_id = e.agent /\ r.action_type = "lifecycle" /\ r.action_detail = detail
      /\ r.outcome = "success" /\ r.record_phase = "concurrent"
      /\ r.parent_record_id = None /\ r.prev_hash = None
  BY <1>3, <1>4 DEF Mandatory
<1>7. IsGenesis(r, e.session, h)
  BY <1>2, <1>4, <1>6 DEF IsGenesis
<1>8. IsList(<<r>>) /\ Len(<<r>>) = 1 /\ <<r>>[1] = r
  <2>1. <<r>> \in Seq({r})
    OBVIOUS
  <2> QED BY <2>1 DEF IsList
<1>9. ChainOk(<<r>>, e.session, h)
  <2> DEFINE c == <<r>>
  <2>1. IsList(c) /\ Len(c) = 1 /\ c[1] = r
    BY <1>8
  <2> HIDE DEF c
  <2>2. \A i \in 1 .. Len(c) : i = 1
    BY <2>1
  <2>3. \A i \in 2 .. Len(c) : FALSE
    BY <2>1
  <2>4. /\ \A i \in 1 .. Len(c) : InSession(c[i], e.session, c[1].agent_id, h)
        /\ IsGenesis(c[1], e.session, h)
    BY <1>5, <1>6, <1>7, <2>1, <2>2
  <2>5. h.recorder # None => h.recorder # c[1].agent_id /\ Signs(h.signer)
    BY <1>6, <2>1
  <2>6. \A i, j \in 1 .. Len(c) : i = j
    BY <2>2
  <2>7. r.timestamp \in Int
    BY <1>5 DEF InSession
  <2>8. \A i, j \in 1 .. Len(c) : c[i].timestamp <= c[j].timestamp
    BY <2>1, <2>2, <2>7
  <2>9. ChainOk(c, e.session, h)
    BY <2>1, <2>3, <2>4, <2>5, <2>6, <2>8 DEF ChainOk
  <2> QED BY <2>9 DEF c
<1> QED BY <1>4, <1>6, <1>9 DEF r

\* What from_omega refuses to map, it does not map.
LEMMA DetailTold ==
    ASSUME IsAtom(None), NEW e, e.action \in DOMAIN ActionMap, e.outcome \in DOMAIN OutcomeMap,
           DetailFor(e) # None
    PROVE  /\ ActionMap[e.action] \in {"tool_call", "decision"}
           /\ DetailRequired[ActionMap[e.action]] \subseteq DOMAIN DetailFor(e)
           /\ <<OutcomeMap[e.outcome], PhaseMap[e.outcome]>>
                \in {<<"success", "post_execution">>, <<"denied", "pre_execution">>,
                     <<"escalated", "pre_execution">>}
<1>1. ActionMap[e.action] \in {"tool_call", "decision"}
  BY DEF ActionMap
<1>2. <<OutcomeMap[e.outcome], PhaseMap[e.outcome]>>
        \in {<<"success", "post_execution">>, <<"denied", "pre_execution">>,
             <<"escalated", "pre_execution">>}
  BY DEF OutcomeMap, PhaseMap
<1>3. /\ DetailRequired["tool_call"] = {"tool_name", "parameters_hash"}
      /\ DetailRequired["decision"] = {"decision_type"}
  BY DEF DetailRequired
<1> DEFINE base == [omega_action |-> e.action, resource |-> e.resource,
                    decision |-> e.decision, omega_self_hash |-> e.seed]
           call == [tool_name |-> e.action, parameters_hash |-> <<"sha256", e.resource>>]
           dec  == [decision_type |-> e.decision]
<1>4. DOMAIN call = {"tool_name", "parameters_hash"} /\ DOMAIN dec = {"decision_type"}
  OBVIOUS
<1>5. /\ ActionMap[e.action] = "tool_call" => DetailFor(e) = call ++ base
      /\ ActionMap[e.action] # "tool_call" => DetailFor(e) = dec ++ base
  BY DEF DetailFor
<1> HIDE DEF call, dec, base
<1>6. DOMAIN (call ++ base) = DOMAIN call \cup DOMAIN base
  BY MergeFacts
<1>7. DOMAIN (dec ++ base) = DOMAIN dec \cup DOMAIN base
  BY MergeFacts
<1>8. CASE ActionMap[e.action] = "tool_call"
  BY <1>2, <1>3, <1>4, <1>5, <1>6, <1>8
<1>9. CASE ActionMap[e.action] # "tool_call"
  <2>1. ActionMap[e.action] = "decision"
    BY <1>1, <1>9
  <2> QED BY <1>2, <1>3, <1>4, <1>5, <1>7, <1>9, <2>1
<1> QED BY <1>8, <1>9

LEMMA ActionRecordTold ==
    ASSUME TrailConstants, NEW h, IsSigner(h.signer), NEW e, e.time \in Int,
           e.action \in DOMAIN ActionMap, e.outcome \in DOMAIN OutcomeMap, DetailFor(e) # None,
           NEW prev
    PROVE  LET r == ActionRecord(e, prev, h)
           IN  /\ InSession(r, e.session, e.agent, h) /\ IsActionRecord(r, h)
               /\ Linked(r, prev)
               /\ r.timestamp = e.time /\ r.record_id = <<"record", e.seed>>
               /\ "batch" \notin DOMAIN r
<1> DEFINE rec == [record_id        |-> <<"record", e.seed>>,
                   timestamp        |-> e.time,
                   agent_id         |-> e.agent,
                   agent_version    |-> "1",
                   session_id       |-> e.session,
                   action_type      |-> ActionMap[e.action],
                   action_detail    |-> DetailFor(e),
                   outcome          |-> OutcomeMap[e.outcome],
                   trust_level      |-> h.trust,
                   record_phase     |-> PhaseMap[e.outcome],
                   parent_record_id |-> prev.record_id,
                   prev_hash        |-> RecordHash(prev)]
           more == [human_override |-> e.approver]
           full == IF e.approver = None THEN rec ELSE more ++ rec
           r    == ActionRecord(e, prev, h)
<1>1. r = Sign(WithRecorder(full, h), h.signer)
  BY DEF ActionRecord
<1>2. /\ DOMAIN rec = Mandatory /\ IsRecord(rec)
      /\ rec.record_id = <<"record", e.seed>> /\ rec.timestamp = e.time
      /\ rec.agent_id = e.agent /\ rec.session_id = e.session
      /\ rec.action_type = ActionMap[e.action] /\ rec.action_detail = DetailFor(e)
      /\ rec.outcome = OutcomeMap[e.outcome] /\ rec.trust_level = h.trust
      /\ rec.record_phase = PhaseMap[e.outcome]
      /\ rec.parent_record_id = prev.record_id /\ rec.prev_hash = RecordHash(prev)
  BY DEF Mandatory, IsRecord
<1>3. DOMAIN more = {"human_override"}
  OBVIOUS
<1> HIDE DEF rec, more
<1>4. /\ IsRecord(full) /\ Mandatory \subseteq DOMAIN full
      /\ DOMAIN full \subseteq Mandatory \cup {"human_override"}
      /\ \A k \in Mandatory : full[k] = rec[k]
  <2>1. "human_override" \notin Mandatory
    BY DEF Mandatory
  <2>2. CASE e.approver = None
    BY <1>2, <2>2
  <2>3. CASE e.approver # None
    <3>1. /\ DOMAIN (more ++ rec) = DOMAIN more \cup DOMAIN rec /\ IsRecord(more ++ rec)
          /\ \A k \in DOMAIN rec \ DOMAIN more : (more ++ rec)[k] = rec[k]
      BY MergeFacts
    <3>2. full = more ++ rec
      BY <2>3
    <3> HIDE DEF full
    <3> QED BY <1>2, <1>3, <2>1, <3>1, <3>2
  <2> QED BY <2>2, <2>3
<1> HIDE DEF full
<1>5. /\ full.timestamp = e.time /\ full.agent_id = e.agent /\ full.session_id = e.session
      /\ full.trust_level = h.trust
  BY <1>2, <1>4 DEF Mandatory
<1>6. /\ InSession(r, full.session_id, full.agent_id, h)
      /\ \A k \in Mandatory : r[k] = full[k]
      /\ "tombstone_hash" \notin DOMAIN r /\ "batch" \notin DOMAIN r
      /\ SignedBy(r, h.signer)
  BY <1>1, <1>4, <1>5, RecordMade
<1>7. InSession(r, e.session, e.agent, h)
  BY <1>5, <1>6
<1> HIDE DEF r
<1>8. /\ r.record_id = <<"record", e.seed>> /\ r.timestamp = e.time
      /\ r.action_type = ActionMap[e.action] /\ r.action_detail = DetailFor(e)
      /\ r.outcome = OutcomeMap[e.outcome] /\ r.record_phase = PhaseMap[e.outcome]
      /\ r.parent_record_id = prev.record_id /\ r.prev_hash = RecordHash(prev)
  BY <1>2, <1>4, <1>6 DEF Mandatory
<1>9. IsActionRecord(r, h)
  <2>1. /\ ActionMap[e.action] \in {"tool_call", "decision"}
        /\ DetailRequired[ActionMap[e.action]] \subseteq DOMAIN DetailFor(e)
        /\ <<OutcomeMap[e.outcome], PhaseMap[e.outcome]>>
             \in {<<"success", "post_execution">>, <<"denied", "pre_execution">>,
                  <<"escalated", "pre_execution">>}
    BY DetailTold DEF TrailConstants
  <2> QED BY <1>6, <1>8, <2>1 DEF IsActionRecord, OfEntry
<1>10. Linked(r, prev)
  BY <1>8, HashFacts DEF Linked
<1> QED BY <1>6, <1>7, <1>8, <1>9, <1>10 DEF r

-----------------------------------------------------------------------------
(* from_omega: entry by entry                                               *)

Mapped(m, h) ==
    ~m.refused =>
      /\ IsFiniteSet(DOMAIN m.chains)
      /\ \A s \in DOMAIN m.chains :
           /\ ChainOk(m.chains[s], s, h)
           /\ ~IsClose(Last(m.chains[s])) /\ Unanchored(m.chains[s])
           /\ \A i \in 1 .. Len(m.chains[s]) : \A seed :
                m.chains[s][i].record_id = <<"record", seed>> => seed \in m.seeds

LEMMA EntryMapped ==
    ASSUME TrailConstants, NEW h, IsSigner(h.signer), h.recorder # None => Signs(h.signer),
           NEW m, Mapped(m, h), NEW e, e.time \in Int
    PROVE  Mapped(ExportEntry(m, e, h), h)
<1> DEFINE s     == e.session
           chain == IF s \in DOMAIN m.chains THEN m.chains[s] ELSE <<Genesis(e, h)>>
           prev  == Last(chain)
           r     == ActionRecord(e, prev, h)
           longer == Append(chain, r)
           out   == ExportEntry(m, e, h)
           next  == [refused |-> FALSE, seeds |-> m.seeds \cup {e.seed},
                     chains |-> Put(m.chains, s, longer)]
<1>1. CASE out = m
  BY <1>1
<1>2. CASE out = Refused
  BY <1>2 DEF Refused, Mapped
<1>3. CASE /\ ~m.refused /\ ~Unmappable(e, m.seeds, h)
           /\ ~(e.agent # prev.agent_id \/ e.time < prev.timestamp)
           /\ out = next
  <2>1. /\ IsFiniteSet(DOMAIN m.chains)
        /\ \A t \in DOMAIN m.chains :
             /\ ChainOk(m.chains[t], t, h)
             /\ ~IsClose(Last(m.chains[t])) /\ Unanchored(m.chains[t])
             /\ \A i \in 1 .. Len(m.chains[t]) : \A seed :
                  m.chains[t][i].record_id = <<"record", seed>> => seed \in m.seeds
    BY <1>3 DEF Mapped
  <2>2. /\ e.seed \notin m.seeds
        /\ h.recorder # None => h.recorder # e.agent /\ Signs(h.signer)
        /\ e.action \in DOMAIN ActionMap /\ e.outcome \in DOMAIN OutcomeMap
        /\ DetailFor(e) # None
    BY <1>3 DEF Unmappable
  <2>3. /\ ChainOk(chain, s, h)
        /\ ~IsClose(prev) /\ Unanchored(chain)
        /\ \A i \in 1 .. Len(chain) : \A seed :
             chain[i].record_id = <<"record", seed>> => seed \in m.seeds
    <3>1. CASE s \in DOMAIN m.chains
      BY <2>1, <3>1
    <3>2. CASE s \notin DOMAIN m.chains
      <4> DEFINE g == Genesis(e, h)
                 c == <<g>>
      <4>1. chain = c
        BY <3>2
      <4>2. ChainOk(c, s, h) /\ g.record_id = <<"genesis", s>> /\ "batch" \notin DOMAIN g
        BY <2>2, GenesisChain
      <4> HIDE DEF g
      <4>3. Len(c) = 1 /\ c[1] = g /\ Last(c) = g
        BY DEF Last
      <4> HIDE DEF c
      <4>4. 1 \in 1 .. Len(c) /\ \A i \in 1 .. Len(c) : i = 1
        BY <4>3
      <4>5. IsGenesis(c[1], s, h)
        BY <4>2 DEF ChainOk
      <4>6. ~IsClose(c[1])
        BY <4>2, <4>4, Kinds
      <4>7. \A seed : c[1].record_id # <<"record", seed>>
        BY <4>2, <4>3
      <4>8. Unanchored(c)
        BY <4>2, <4>3, <4>4 DEF Unanchored
      <4> QED BY <4>1, <4>2, <4>3, <4>4, <4>6, <4>7, <4>8
    <3> QED BY <3>1, <3>2
  <2> HIDE DEF chain
  <2>4. /\ InSession(r, e.session, e.agent, h) /\ IsActionRecord(r, h)
        /\ Linked(r, prev)
        /\ r.timestamp = e.time /\ r.record_id = <<"record", e.seed>>
        /\ "batch" \notin DOMAIN r
    <3> HIDE DEF prev
    <3> QED BY <2>2, ActionRecordTold
  <2> HIDE DEF r
  <2>5. /\ IsList(chain) /\ Len(chain) \in Nat /\ Len(chain) \in 1 .. Len(chain)
        /\ prev = chain[Len(chain)]
        /\ InSession(prev, s, chain[1].agent_id, h)
    <3>1. IsList(chain) /\ Len(chain) \in Nat /\ Len(chain) \in 1 .. Len(chain)
      BY <2>3, ListFacts DEF ChainOk
    <3>2. prev = chain[Len(chain)]
      BY DEF Last
    <3> QED BY <2>3, <3>1, <3>2, Kinds
  <2>6. e.agent = chain[1].agent_id /\ prev.timestamp <= e.time
    <3>1. e.agent = prev.agent_id /\ ~(e.time < prev.timestamp)
      BY <1>3
    <3> HIDE DEF prev
    <3> QED BY <2>5, <3>1 DEF InSession
  <2>7. \A i \in 1 .. Len(chain) : chain[i].record_id # r.record_id
    BY <2>2, <2>3, <2>4
  <2>8. ChainOk(longer, s, h)
    <3> HIDE DEF s
    <3> QED BY <2>3, <2>4, <2>6, <2>7, ChainAppended DEF s
  <2>9. /\ Len(longer) = Len(chain) + 1 /\ Last(longer) = r
        /\ \A i \in 1 .. Len(chain) : longer[i] = chain[i]
        /\ longer[Len(chain) + 1] = r
    BY <2>5, ListAppend DEF Last
  <2> HIDE DEF longer
  <2>10. ~IsClose(Last(longer))
    BY <2>4, <2>9, ActionTold DEF InSession, Mandatory, IsClose
  <2>11. \A i \in 1 .. Len(longer) : \A seed :
           longer[i].record_id = <<"record", seed>> => seed \in m.seeds \cup {e.seed}
    <3> SUFFICES ASSUME NEW i \in 1 .. Len(longer), NEW seed,
                        longer[i].record_id = <<"record", seed>>
                 PROVE  seed \in m.seeds \cup {e.seed}
      OBVIOUS
    <3>1. CASE i \in 1 .. Len(chain)
      BY <2>3, <2>9, <3>1
    <3>2. CASE i \notin 1 .. Len(chain)
      <4>1. i = Len(chain) + 1
        BY <2>5, <2>9, <3>2
      <4>2. <<"record", seed>> = <<"record", e.seed>>
        BY <2>4, <2>9, <4>1
      <4> QED BY <4>2
    <3> QED BY <3>1, <3>2
  <2>a. Unanchored(longer)
    BY <2>3, <2>4, <2>5, UnanchoredAppended DEF longer
  <2> DEFINE put == Put(m.chains, s, longer)
  <2>12. /\ DOMAIN put = DOMAIN m.chains \cup {s} /\ put[s] = longer
         /\ \A t \in DOMAIN m.chains \ {s} : put[t] = m.chains[t]
    BY DEF Put
  <2>13. IsFiniteSet(DOMAIN put)
    BY <2>1, <2>12, FS_AddElement
  <2>14. /\ out.refused = FALSE /\ out.chains = put /\ out.seeds = m.seeds \cup {e.seed}
    BY <1>3
  <2> HIDE DEF put, out, next
  <2>15. ASSUME NEW t \in DOMAIN put
         PROVE  /\ ChainOk(put[t], t, h)
                /\ ~IsClose(Last(put[t])) /\ Unanchored(put[t])
                /\ \A i \in 1 .. Len(put[t]) : \A seed :
                     put[t][i].record_id = <<"record", seed>> => seed \in m.seeds \cup {e.seed}
    <3>1. CASE t = s
      BY <2>8, <2>10, <2>11, <2>a, <2>12, <3>1
    <3>2. CASE t # s
      BY <2>1, <2>12, <2>15, <3>2
    <3> QED BY <3>1, <3>2
  <2>16. Mapped(out, h)
    BY <2>13, <2>14, <2>15 DEF Mapped
  <2> QED BY <2>16 DEF out
<1>4. \/ out = m \/ out = Refused
      \/ /\ ~m.refused /\ ~Unmappable(e, m.seeds, h)
         /\ ~(e.agent # prev.agent_id \/ e.time < prev.timestamp)
         /\ out = next
  <2> DEFINE U == Unmappable(e, m.seeds, h)
             A == e.agent # prev.agent_id \/ e.time < prev.timestamp
  <2>1. out = IF m.refused \/ e.kind # "agent_governance_action" THEN m
              ELSE IF U THEN Refused ELSE IF A THEN Refused ELSE next
    BY DEF ExportEntry
  <2> HIDE DEF U, A, out, next
  <2>2. \/ out = m \/ out = Refused \/ (~m.refused /\ ~U /\ ~A /\ out = next)
    BY <2>1, Zenon
  <2> QED BY <2>2 DEF U, A
<1> QED BY <1>1, <1>2, <1>3, <1>4

IsMapping(st, entries, h) ==
    st = [n \in 0 .. Len(entries) |->
             IF n = 0 THEN [refused |-> FALSE, chains |-> << >>, seeds |-> {}]
                      ELSE ExportEntry(st[n - 1], entries[n], h)]

LEMMA MappingExists ==
    ASSUME NEW entries, Len(entries) \in Nat, NEW h
    PROVE  \E st : IsMapping(st, entries, h)
<1> DEFINE N == Len(entries)
           nothing == [refused |-> FALSE, chains |-> << >>, seeds |-> {}]
           step(x, n) == ExportEntry(x, entries[n], h)
           Holds == {n \in 0 .. N :
                       \E f : f = [k \in 0 .. n |-> IF k = 0 THEN nothing ELSE step(f[k - 1], k)]}
<1> HIDE DEF nothing, step
<1>1. 0 \in Holds
  <2> DEFINE f == [k \in 0 .. 0 |-> nothing]
  <2>1. f = [k \in 0 .. 0 |-> IF k = 0 THEN nothing ELSE step(f[k - 1], k)]
    OBVIOUS
  <2> HIDE DEF f
  <2> QED BY <2>1
<1>2. ASSUME NEW n \in 0 .. (N - 1), n \in Holds PROVE n + 1 \in Holds
  <2>1. PICK f : f = [k \in 0 .. n |-> IF k = 0 THEN nothing ELSE step(f[k - 1], k)]
    BY <1>2
  <2> DEFINE g == [k \in 0 .. n + 1 |-> IF k = n + 1 THEN step(f[n], n + 1) ELSE f[k]]
  <2>2. \A k \in 0 .. n : f[k] = IF k = 0 THEN nothing ELSE step(f[k - 1], k)
    BY <2>1
  <2>3. g[n + 1] = step(f[n], n + 1) /\ \A k \in 0 .. n : g[k] = f[k]
    OBVIOUS
  <2>4. g = [k \in 0 .. n + 1 |-> g[k]]
    OBVIOUS
  <2> HIDE DEF g
  <2>5. ASSUME NEW k \in 0 .. n + 1
        PROVE  g[k] = IF k = 0 THEN nothing ELSE step(g[k - 1], k)
    <3>1. CASE k = n + 1
      <4>1. k # 0 /\ k - 1 = n /\ n \in 0 .. n
        BY <3>1
      <4> QED BY <2>3, <3>1, <4>1
    <3>2. CASE k # n + 1
      <4>1. k \in 0 .. n /\ (k # 0 => k - 1 \in 0 .. n)
        BY <3>2
      <4> QED BY <2>2, <2>3, <4>1
    <3> QED BY <3>1, <3>2
  <2>6. g = [k \in 0 .. n + 1 |-> IF k = 0 THEN nothing ELSE step(g[k - 1], k)]
    BY <2>4, <2>5
  <2> QED BY <2>6
<1>3. 0 \in Int /\ N \in Int /\ N \in 0 .. N
  OBVIOUS
<1> HIDE DEF Holds
<1>4. \A n \in 0 .. N : n \in Holds
  BY <1>1, <1>2, <1>3, Upward
<1>5. N \in Holds
  BY <1>3, <1>4
<1> QED BY <1>5 DEF Holds, IsMapping, nothing, step

LEMMA AllMapped ==
    ASSUME TrailConstants, NEW h, IsSigner(h.signer), h.recorder # None => Signs(h.signer),
           NEW entries, Len(entries) \in Nat,
           \A n \in 1 .. Len(entries) : entries[n].time \in Int,
           NEW st, IsMapping(st, entries, h)
    PROVE  Mapped(st[Len(entries)], h)
<1> DEFINE N == Len(entries)
           Holds == {n \in 0 .. N : Mapped(st[n], h)}
<1>1. /\ st[0] = [refused |-> FALSE, chains |-> << >>, seeds |-> {}]
      /\ \A n \in 1 .. N : st[n] = ExportEntry(st[n - 1], entries[n], h)
  <2>1. \A n \in 0 .. N : st[n] =
           IF n = 0 THEN [refused |-> FALSE, chains |-> << >>, seeds |-> {}]
                    ELSE ExportEntry(st[n - 1], entries[n], h)
    BY DEF IsMapping
  <2> QED BY <2>1
<1>2. 0 \in Holds
  <2>1. DOMAIN (st[0].chains) = {}
    BY <1>1
  <2>2. IsFiniteSet(DOMAIN (st[0].chains))
    BY <2>1, FS_EmptySet
  <2>3. Mapped(st[0], h)
    BY <2>1, <2>2 DEF Mapped
  <2> QED BY <2>3
<1>3. ASSUME NEW n \in 0 .. (N - 1), n \in Holds PROVE n + 1 \in Holds
  <2>1. n + 1 \in 1 .. N /\ (n + 1) - 1 = n /\ n + 1 \in 0 .. N
    OBVIOUS
  <2>2. st[n + 1] = ExportEntry(st[n], entries[n + 1], h)
    BY <1>1, <2>1
  <2>3. Mapped(st[n], h) /\ entries[n + 1].time \in Int
    BY <1>3, <2>1
  <2>4. Mapped(st[n + 1], h)
    BY <2>2, <2>3, EntryMapped
  <2> QED BY <2>1, <2>4
<1>4. 0 \in Int /\ N \in Int /\ N \in 0 .. N
  OBVIOUS
<1> HIDE DEF Holds
<1>5. \A n \in 0 .. N : n \in Holds
  BY <1>2, <1>3, <1>4, Upward
<1> QED BY <1>4, <1>5 DEF Holds


Finished(chain, h) ==
    IF h.close THEN Append(chain, Sign(CloseRecord(chain, TRUE, Last(chain).timestamp), h.signer))
               ELSE chain

\* What from_omega hands over is the mapping of the entries, closed when asked.
LEMMA FromOmegaTold ==
    ASSUME NEW entries, Len(entries) \in Nat, NEW h, ~FromOmega(entries, h).refused
    PROVE  \E st : /\ IsMapping(st, entries, h)
                   /\ h.recorder # None => Signs(h.signer)
                   /\ ~st[Len(entries)].refused
                   /\ FromOmega(entries, h).chains
                        = [s \in DOMAIN (st[Len(entries)].chains) |->
                              Finished(st[Len(entries)].chains[s], h)]
                   /\ \A s \in DOMAIN (FromOmega(entries, h).chains) :
                        VerifyChain(FromOmega(entries, h).chains[s], SelfOpts(h))
<1> DEFINE st[n \in 0 .. Len(entries)] ==
               IF n = 0 THEN [refused |-> FALSE, chains |-> << >>, seeds |-> {}]
                        ELSE ExportEntry(st[n - 1], entries[n], h)
           mapped == st[Len(entries)]
           Closed(chain) == Append(chain, Sign(CloseRecord(chain, TRUE, Last(chain).timestamp),
                                               h.signer))
           done == [s \in DOMAIN mapped.chains |->
                       IF h.close THEN Closed(mapped.chains[s]) ELSE mapped.chains[s]]
           Bad == \/ /\ h.recorder # None
                     /\ h.signer.pq = None /\ h.signer.classical = None
                  \/ mapped.refused
                  \/ \E s \in DOMAIN done : ~VerifyChain(done[s], SelfOpts(h))
<1>1. FromOmega(entries, h)
        = IF Bad THEN Refused ELSE [refused |-> FALSE, chains |-> done, seeds |-> mapped.seeds]
  BY DEF FromOmega
<1>2. IsMapping(st, entries, h)
  <2>1. \E f : f = [n \in 0 .. Len(entries) |->
                     IF n = 0 THEN [refused |-> FALSE, chains |-> << >>, seeds |-> {}]
                              ELSE ExportEntry(f[n - 1], entries[n], h)]
    BY MappingExists DEF IsMapping
  <2> QED BY <2>1 DEF IsMapping
<1>3. done = [s \in DOMAIN mapped.chains |-> Finished(mapped.chains[s], h)]
  BY DEF Finished
<1> HIDE DEF st, done
<1>4. ~Bad /\ FromOmega(entries, h).chains = done
  <2>1. Bad => FromOmega(entries, h).refused
    BY <1>1 DEF Refused
  <2>2. ~Bad
    BY <2>1
  <2> HIDE DEF Bad
  <2>3. FromOmega(entries, h) = [refused |-> FALSE, chains |-> done, seeds |-> mapped.seeds]
    BY <1>1, <2>2
  <2> QED BY <2>2, <2>3
<1>5. h.recorder # None => Signs(h.signer)
  BY <1>4 DEF Signs
<1>6. \A s \in DOMAIN (FromOmega(entries, h).chains) :
         VerifyChain(FromOmega(entries, h).chains[s], SelfOpts(h))
  BY <1>4
<1> QED BY <1>2, <1>3, <1>4, <1>5, <1>6

\* Export: every chain that is handed over is one of the invariant's.
LEMMA ExportedChains ==
    ASSUME TrailConstants, NEW h, IsSigner(h.signer),
           NEW entries, Len(entries) \in Nat,
           \A n \in 1 .. Len(entries) : entries[n].time \in Int,
           ~FromOmega(entries, h).refused, DOMAIN (FromOmega(entries, h).chains) # {}
    PROVE  /\ IsFiniteSet(DOMAIN (FromOmega(entries, h).chains))
           /\ IsRecord(FromOmega(entries, h).chains)
           /\ \A s \in DOMAIN (FromOmega(entries, h).chains) :
                /\ ChainOk(FromOmega(entries, h).chains[s], s, h)
                /\ Unanchored(FromOmega(entries, h).chains[s])
           /\ h.trust \in TrustLevels
<1> DEFINE cs == FromOmega(entries, h).chains
<1>1. PICK st : /\ IsMapping(st, entries, h)
                /\ h.recorder # None => Signs(h.signer)
                /\ ~st[Len(entries)].refused
                /\ cs = [s \in DOMAIN (st[Len(entries)].chains) |->
                           Finished(st[Len(entries)].chains[s], h)]
                /\ \A s \in DOMAIN cs : VerifyChain(cs[s], SelfOpts(h))
  BY FromOmegaTold
<1> DEFINE m == st[Len(entries)]
<1>2. Mapped(m, h)
  BY <1>1, AllMapped
<1> HIDE DEF cs, m
<1>3. /\ IsFiniteSet(DOMAIN (m.chains))
      /\ \A s \in DOMAIN (m.chains) : /\ ChainOk(m.chains[s], s, h) /\ ~IsClose(Last(m.chains[s]))
                                      /\ Unanchored(m.chains[s])
  BY <1>1, <1>2 DEF Mapped, m
<1>4. /\ DOMAIN cs = DOMAIN (m.chains) /\ IsRecord(cs)
      /\ \A s \in DOMAIN cs : cs[s] = Finished(m.chains[s], h)
  BY <1>1 DEF m, IsRecord
<1>5. ASSUME NEW s \in DOMAIN cs PROVE ChainOk(cs[s], s, h) /\ Unanchored(cs[s])
  <2> DEFINE ch == m.chains[s]
  <2>1. ChainOk(ch, s, h) /\ ~IsClose(Last(ch)) /\ Unanchored(ch)
    BY <1>3, <1>4
  <2>2. /\ cs[s] = Finished(ch, h)
    BY <1>4
  <2> HIDE DEF ch
  <2>3. CASE ~h.close
    BY <2>1, <2>2, <2>3 DEF Finished
  <2>4. CASE h.close
    <3>1. Len(ch) \in 1 .. Len(ch)
      BY <2>1, ListFacts DEF ChainOk
    <3>2. InSession(ch[Len(ch)], s, ch[1].agent_id, h)
      BY <2>1, <3>1, Kinds
    <3>3. Last(ch).timestamp \in Int
      BY <3>2 DEF InSession, Last
    <3>4. Last(ch).timestamp >= Last(ch).timestamp /\ MaySign(h.signer, h)
      BY <3>3 DEF MaySign
    <3> DEFINE r == Sign(CloseRecord(ch, TRUE, Last(ch).timestamp), h.signer)
    <3>5. ChainOk(Append(ch, r), s, h) /\ "batch" \notin DOMAIN r
      BY <2>1, <3>3, <3>4, ClosedChain
    <3>6. cs[s] = Append(ch, r)
      BY <2>2, <2>4 DEF Finished
    <3> HIDE DEF r
    <3>7. Unanchored(Append(ch, r))
      BY <2>1, <3>5, UnanchoredAppended DEF ChainOk
    <3> QED BY <3>5, <3>6, <3>7
  <2> QED BY <2>3, <2>4
<1>6. h.trust \in TrustLevels
  <2>1. DOMAIN cs # {}
    BY DEF cs
  <2>2. PICK s \in DOMAIN cs : TRUE
    BY <2>1
  <2> DEFINE ch == cs[s]
  <2>3. VerifyChain(ch, SelfOpts(h)) /\ ChainOk(ch, s, h)
    BY <1>1, <1>5
  <2> HIDE DEF ch
  <2>4. 1 \in 1 .. Len(ch)
    BY <2>3, ListFacts DEF ChainOk
  <2>5. FieldProblems(ch, 1) = {}
    BY <2>3, <2>4, Zenon DEF VerifyChain
  <2>6. Get(ch[1], "trust_level") \in TrustLevels
    BY <2>5 DEF FieldProblems, If
  <2>7. InSession(ch[1], s, ch[1].agent_id, h)
    BY <2>3, <2>4, Kinds
  <2> QED BY <2>6, <2>7 DEF InSession, Get, Mandatory
<1> QED BY <1>3, <1>4, <1>5, <1>6 DEF cs

-----------------------------------------------------------------------------
(* The records of some sessions, one after the other                        *)

LEMMA ListConcat ==
    ASSUME NEW a, IsList(a), NEW b, IsList(b)
    PROVE  /\ IsList(a \o b) /\ Len(a \o b) = Len(a) + Len(b)
           /\ \A k \in 1 .. Len(a) : (a \o b)[k] = a[k]
           /\ \A k \in 1 .. Len(b) : (a \o b)[Len(a) + k] = b[k]
<1>1. PICK S, T : a \in Seq(S) /\ b \in Seq(T)
  BY DEF IsList
<1>2. a \in Seq(S \cup T) /\ b \in Seq(S \cup T)
  <2>1. /\ Len(a) \in Nat /\ a = [i \in 1 .. Len(a) |-> a[i]] /\ \A i \in 1 .. Len(a) : a[i] \in S
        /\ Len(b) \in Nat /\ b = [i \in 1 .. Len(b) |-> b[i]] /\ \A i \in 1 .. Len(b) : b[i] \in T
    BY <1>1
  <2>2. a \in [1 .. Len(a) -> S \cup T] /\ b \in [1 .. Len(b) -> S \cup T]
    BY <2>1
  <2> QED BY <2>1, <2>2
<1>3. a \o b \in Seq(S \cup T)
  BY <1>2
<1> QED BY <1>2, <1>3 DEF IsList

\* Lists of different elements, concatenated: each element is there once.
IsFlat(f, seqs, n) ==
    /\ IsList(f)
    /\ \A m \in 1 .. n : \A i \in 1 .. Len(seqs[m]) : \E k \in 1 .. Len(f) : f[k] = seqs[m][i]
    /\ \A k \in 1 .. Len(f) : \E m \in 1 .. n : \E i \in 1 .. Len(seqs[m]) : f[k] = seqs[m][i]
    /\ \A k, l \in 1 .. Len(f) : f[k] = f[l] => k = l

LEMMA FlatStep ==
    ASSUME NEW seqs, NEW N \in Nat, \A n \in 1 .. N : IsList(seqs[n]),
           \A m, n \in 1 .. N : \A i \in 1 .. Len(seqs[m]), j \in 1 .. Len(seqs[n]) :
              seqs[m][i] = seqs[n][j] => m = n /\ i = j,
           NEW n \in 1 .. N - 1, NEW f, IsFlat(f, seqs, n)
    PROVE  IsFlat(f \o seqs[n + 1], seqs, n + 1)
<1> DEFINE b == seqs[n + 1]
           g == f \o b
<1>0. n \in 1 .. N /\ n + 1 \in 1 .. N /\ \A m \in 1 .. n + 1 : m \in 1 .. N /\ (m \in 1 .. n \/ m = n + 1)
  OBVIOUS
<1>1. IsList(f) /\ IsList(b) /\ Len(f) \in Nat /\ Len(b) \in Nat
  BY <1>0, ListFacts DEF IsFlat
<1>2. /\ IsList(g) /\ Len(g) = Len(f) + Len(b)
      /\ \A k \in 1 .. Len(f) : g[k] = f[k]
      /\ \A k \in 1 .. Len(b) : g[Len(f) + k] = b[k]
  BY <1>1, ListConcat
<1> HIDE DEF g
<1>3. ASSUME NEW k \in 1 .. Len(g)
      PROVE  \/ k \in 1 .. Len(f) /\ g[k] = f[k]
             \/ k - Len(f) \in 1 .. Len(b) /\ g[k] = b[k - Len(f)]
  <2>1. CASE k \in 1 .. Len(f)
    BY <1>2, <2>1
  <2>2. CASE k \notin 1 .. Len(f)
    <3>1. k - Len(f) \in 1 .. Len(b) /\ k = Len(f) + (k - Len(f))
      BY <1>1, <1>2, <2>2
    <3> QED BY <1>2, <3>1
  <2> QED BY <2>1, <2>2
<1>4. \A k \in 1 .. Len(f) : \E m \in 1 .. n : \E i \in 1 .. Len(seqs[m]) : f[k] = seqs[m][i]
  BY DEF IsFlat
<1>5. ASSUME NEW m \in 1 .. n + 1, NEW i \in 1 .. Len(seqs[m])
      PROVE  \E k \in 1 .. Len(g) : g[k] = seqs[m][i]
  <2>1. CASE m = n + 1
    <3>1. i \in 1 .. Len(b) /\ Len(f) + i \in 1 .. Len(g)
      BY <1>1, <1>2, <1>5, <2>1
    <3> QED BY <1>2, <2>1, <3>1
  <2>2. CASE m # n + 1
    <3>1. m \in 1 .. n
      BY <1>0, <2>2
    <3>2. PICK k \in 1 .. Len(f) : f[k] = seqs[m][i]
      BY <1>5, <3>1 DEF IsFlat
    <3>3. k \in 1 .. Len(g) /\ g[k] = f[k]
      <4> HIDE DEF b
      <4> QED BY <1>1, <1>2
    <3> QED BY <3>2, <3>3
  <2> QED BY <2>1, <2>2
<1>6. ASSUME NEW k \in 1 .. Len(g)
      PROVE  \E m \in 1 .. n + 1 : \E i \in 1 .. Len(seqs[m]) : g[k] = seqs[m][i]
  <2>1. CASE k \in 1 .. Len(f) /\ g[k] = f[k]
    <3>1. PICK m \in 1 .. n : \E i \in 1 .. Len(seqs[m]) : f[k] = seqs[m][i]
      BY <1>4, <2>1
    <3>2. m \in 1 .. n + 1
      OBVIOUS
    <3> QED BY <2>1, <3>1, <3>2
  <2>2. CASE k - Len(f) \in 1 .. Len(b) /\ g[k] = b[k - Len(f)]
    <3>1. n + 1 \in 1 .. n + 1
      OBVIOUS
    <3> QED BY <2>2, <3>1
  <2> QED BY <1>3, <2>1, <2>2
<1>7. ASSUME NEW k \in 1 .. Len(g), NEW l \in 1 .. Len(g), g[k] = g[l] PROVE k = l
  <2>1. ASSUME NEW x \in 1 .. Len(f), NEW y \in 1 .. Len(b), f[x] = b[y] PROVE FALSE
    <3>1. PICK m \in 1 .. n : \E i \in 1 .. Len(seqs[m]) : f[x] = seqs[m][i]
      BY <1>4
    <3>2. m \in 1 .. N /\ m # n + 1
      OBVIOUS
    <3>3. m = n + 1
      BY <1>0, <2>1, <3>1, <3>2
    <3> QED BY <3>2, <3>3
  <2>2. CASE k \in 1 .. Len(f) /\ g[k] = f[k] /\ l \in 1 .. Len(f) /\ g[l] = f[l]
    BY <1>7, <2>2 DEF IsFlat
  <2>3. CASE /\ k - Len(f) \in 1 .. Len(b) /\ g[k] = b[k - Len(f)]
             /\ l - Len(f) \in 1 .. Len(b) /\ g[l] = b[l - Len(f)]
    <3> DEFINE x == k - Len(f)
               y == l - Len(f)
    <3>0. x \in 1 .. Len(b) /\ y \in 1 .. Len(b) /\ b[x] = b[y]
      BY <1>7, <2>3
    <3>1. x = y
      <4> HIDE DEF x, y
      <4> QED BY <1>0, <3>0
    <3> QED BY <1>1, <3>1
  <2>4. CASE k \in 1 .. Len(f) /\ g[k] = f[k] /\ l - Len(f) \in 1 .. Len(b) /\ g[l] = b[l - Len(f)]
    BY <1>7, <2>1, <2>4
  <2>5. CASE l \in 1 .. Len(f) /\ g[l] = f[l] /\ k - Len(f) \in 1 .. Len(b) /\ g[k] = b[k - Len(f)]
    BY <1>7, <2>1, <2>5
  <2> QED BY <1>3, <2>2, <2>3, <2>4, <2>5
<1>8. IsFlat(g, seqs, n + 1)
  BY <1>2, <1>5, <1>6, <1>7 DEF IsFlat
<1> QED BY <1>8 DEF g, b

IsFlattening(f, seqs) ==
    f = [i \in 1 .. Len(seqs) |-> IF i = 1 THEN seqs[i] ELSE f[i - 1] \o seqs[i]]

LEMMA FlatteningExists ==
    ASSUME NEW seqs, Len(seqs) \in Nat, Len(seqs) # 0
    PROVE  \E f : IsFlattening(f, seqs)
<1> DEFINE N == Len(seqs)
           step(x, n) == x \o seqs[n]
           Holds == {n \in 1 .. N :
                       \E f : f = [k \in 1 .. n |-> IF k = 1 THEN seqs[k] ELSE step(f[k - 1], k)]}
<1> HIDE DEF step
<1>1. 1 \in Holds
  <2> DEFINE f == [k \in 1 .. 1 |-> seqs[k]]
  <2>1. f = [k \in 1 .. 1 |-> IF k = 1 THEN seqs[k] ELSE step(f[k - 1], k)]
    OBVIOUS
  <2> HIDE DEF f
  <2> QED BY <2>1
<1>2. ASSUME NEW n \in 1 .. (N - 1), n \in Holds PROVE n + 1 \in Holds
  <2>1. PICK f : f = [k \in 1 .. n |-> IF k = 1 THEN seqs[k] ELSE step(f[k - 1], k)]
    BY <1>2
  <2> DEFINE g == [k \in 1 .. n + 1 |-> IF k = n + 1 THEN step(f[n], n + 1) ELSE f[k]]
  <2>2. \A k \in 1 .. n : f[k] = IF k = 1 THEN seqs[k] ELSE step(f[k - 1], k)
    BY <2>1
  <2>3. g[n + 1] = step(f[n], n + 1) /\ \A k \in 1 .. n : g[k] = f[k]
    OBVIOUS
  <2>4. g = [k \in 1 .. n + 1 |-> g[k]]
    OBVIOUS
  <2> HIDE DEF g
  <2>5. ASSUME NEW k \in 1 .. n + 1
        PROVE  g[k] = IF k = 1 THEN seqs[k] ELSE step(g[k - 1], k)
    <3>1. CASE k = n + 1
      <4>1. k # 1 /\ k - 1 = n /\ n \in 1 .. n
        BY <3>1
      <4> QED BY <2>3, <3>1, <4>1
    <3>2. CASE k # n + 1
      <4>1. k \in 1 .. n /\ (k # 1 => k - 1 \in 1 .. n)
        BY <3>2
      <4> QED BY <2>2, <2>3, <4>1
    <3> QED BY <3>1, <3>2
  <2>6. g = [k \in 1 .. n + 1 |-> IF k = 1 THEN seqs[k] ELSE step(g[k - 1], k)]
    BY <2>4, <2>5
  <2> QED BY <2>6
<1>3. 1 \in Int /\ N \in Int /\ N \in 1 .. N
  OBVIOUS
<1> HIDE DEF Holds
<1>4. \A n \in 1 .. N : n \in Holds
  BY <1>1, <1>2, <1>3, Upward
<1>5. N \in Holds
  BY <1>3, <1>4
<1> QED BY <1>5 DEF Holds, IsFlattening, step

LEMMA Flattened ==
    ASSUME NEW seqs, IsList(seqs), Len(seqs) # 0, \A n \in 1 .. Len(seqs) : IsList(seqs[n]),
           \A m, n \in 1 .. Len(seqs) : \A i \in 1 .. Len(seqs[m]), j \in 1 .. Len(seqs[n]) :
              seqs[m][i] = seqs[n][j] => m = n /\ i = j
    PROVE  IsFlat(FlattenSeq(seqs), seqs, Len(seqs))
<1> DEFINE N == Len(seqs)
           flatten[i \in 1 .. Len(seqs)] == IF i = 1 THEN seqs[i] ELSE flatten[i - 1] \o seqs[i]
           Holds == {n \in 1 .. N : IsFlat(flatten[n], seqs, n)}
<1>1. FlattenSeq(seqs) = flatten[N]
  BY DEF FlattenSeq
<1>2. N \in Nat /\ 1 \in 1 .. N /\ N \in 1 .. N /\ N \in Int
  BY ListFacts
<1>3. flatten = [i \in 1 .. Len(seqs) |-> IF i = 1 THEN seqs[i] ELSE flatten[i - 1] \o seqs[i]]
  <2>1. \E f : f = [i \in 1 .. Len(seqs) |-> IF i = 1 THEN seqs[i] ELSE f[i - 1] \o seqs[i]]
    BY <1>2, FlatteningExists DEF IsFlattening
  <2> QED BY <2>1
<1> HIDE DEF flatten
<1>4. \A i \in 1 .. N : flatten[i] = IF i = 1 THEN seqs[i] ELSE flatten[i - 1] \o seqs[i]
  BY <1>3
<1>5. 1 \in Holds
  <2>1. flatten[1] = seqs[1]
    BY <1>2, <1>4
  <2>2. IsFlat(seqs[1], seqs, 1)
    <3>1. IsList(seqs[1])
      BY <1>2
    <3>2. \A m \in 1 .. 1 : m = 1
      OBVIOUS
    <3>3. 1 \in 1 .. 1
      OBVIOUS
    <3>4. \A k, l \in 1 .. Len(seqs[1]) : seqs[1][k] = seqs[1][l] => k = l
      BY <1>2
    <3> QED BY <3>1, <3>2, <3>3, <3>4 DEF IsFlat
  <2> QED BY <1>2, <2>1, <2>2
<1>6. ASSUME NEW n \in 1 .. (N - 1), n \in Holds PROVE n + 1 \in Holds
  <2>1. n + 1 \in 1 .. N /\ (n + 1) - 1 = n /\ n + 1 # 1
    BY <1>2
  <2>2. flatten[n + 1] = flatten[n] \o seqs[n + 1]
    BY <1>4, <2>1
  <2>3. IsFlat(flatten[n], seqs, n)
    BY <1>6
  <2>4. IsFlat(flatten[n] \o seqs[n + 1], seqs, n + 1)
    BY <1>2, <2>3, FlatStep
  <2> QED BY <2>1, <2>2, <2>4
<1> HIDE DEF Holds
<1>7. \A n \in 1 .. N : n \in Holds
  <2>1. 1 \in Int
    OBVIOUS
  <2> QED BY <1>2, <1>5, <1>6, <2>1, Upward
<1>8. N \in Holds
  BY <1>2, <1>7
<1> QED BY <1>1, <1>8 DEF Holds

LEMMA SetListed ==
    ASSUME NEW S, IsFiniteSet(S)
    PROVE  /\ IsList(SetToSeq(S)) /\ Len(SetToSeq(S)) = Cardinality(S)
           /\ \A n \in 1 .. Len(SetToSeq(S)) : SetToSeq(S)[n] \in S
           /\ \A x \in S : \E n \in 1 .. Len(SetToSeq(S)) : SetToSeq(S)[n] = x
           /\ \A m, n \in 1 .. Len(SetToSeq(S)) : SetToSeq(S)[m] = SetToSeq(S)[n] => m = n
<1> DEFINE N == Cardinality(S)
           f == SetToSeq(S)
<1>1. N \in Nat /\ ExistsBijection(1 .. N, S)
  BY FS_CardinalityType
<1>2. \E g \in [1 .. N -> S] : IsInjective(g)
  BY <1>1 DEF ExistsBijection, Bijection, Injection
<1>3. f \in [1 .. N -> S] /\ IsInjective(f)
  BY <1>2 DEF SetToSeq
<1> HIDE DEF f
<1>4. IsFiniteSet(1 .. N) /\ Cardinality(1 .. N) = N
  BY <1>1, FS_Interval
<1>5. f \in Injection(1 .. N, S)
  BY <1>3 DEF Injection
<1>6. f \in Surjection(1 .. N, S)
  BY <1>4, <1>5, FS_Injection
<1>7. IsList(f) /\ Len(f) = N
  <2>1. f = [i \in 1 .. N |-> f[i]]
    BY <1>3
  <2> QED BY <1>1, <2>1, ListOf
<1>8. \A x \in S : \E n \in 1 .. N : f[n] = x
  BY <1>6 DEF Surjection
<1>9. \A m, n \in 1 .. N : f[m] = f[n] => m = n
  BY <1>3 DEF IsInjective
<1> QED BY <1>3, <1>7, <1>8, <1>9 DEF f


\* Slots: every record of the sessions, once.
LEMMA SlotsTold ==
    ASSUME NEW S, IsFiniteSet(S), S # {}, \A s \in S : IsList(chains[s])
    PROVE  /\ IsList(Slots(S))
           /\ \A s \in S : \A i \in 1 .. Len(chains[s]) :
                \E n \in 1 .. Len(Slots(S)) : Slots(S)[n] = <<s, i>>
           /\ \A n \in 1 .. Len(Slots(S)) : \E s \in S : \E i \in 1 .. Len(chains[s]) :
                Slots(S)[n] = <<s, i>>
           /\ \A m, n \in 1 .. Len(Slots(S)) : Slots(S)[m] = Slots(S)[n] => m = n
<1> DEFINE order == SetToSeq(S)
           N     == Len(order)
           seqs  == [n \in 1 .. N |-> [i \in 1 .. Len(chains[order[n]]) |-> <<order[n], i>>]]
           slot  == Slots(S)
<1>1. /\ IsList(order) /\ N = Cardinality(S)
      /\ \A n \in 1 .. N : order[n] \in S
      /\ \A x \in S : \E n \in 1 .. N : order[n] = x
      /\ \A m, n \in 1 .. N : order[m] = order[n] => m = n
  BY SetListed
<1>2. slot = FlattenSeq(seqs)
  BY DEF Slots
<1>3. N \in Nat /\ N # 0
  BY <1>1, ListFacts, FS_EmptySet
<1> HIDE DEF order, N
<1>4. IsList(seqs) /\ Len(seqs) = N
  <2>1. seqs = [n \in 1 .. N |-> seqs[n]]
    OBVIOUS
  <2> HIDE DEF seqs
  <2> QED BY <1>3, <2>1, ListOf
<1>5. \A n \in 1 .. N : seqs[n] = [i \in 1 .. Len(chains[order[n]]) |-> <<order[n], i>>]
  OBVIOUS
<1> HIDE DEF seqs, slot
<1>6. ASSUME NEW n \in 1 .. N
      PROVE  /\ IsList(seqs[n]) /\ Len(seqs[n]) = Len(chains[order[n]])
             /\ \A i \in 1 .. Len(seqs[n]) : seqs[n][i] = <<order[n], i>>
  <2> DEFINE q == seqs[n]
             L == Len(chains[order[n]])
  <2>1. L \in Nat
    BY <1>1, ListFacts
  <2>2. q = [i \in 1 .. L |-> <<order[n], i>>]
    BY <1>5
  <2> HIDE DEF q, L
  <2>3. q = [i \in 1 .. L |-> q[i]] /\ \A i \in 1 .. L : q[i] = <<order[n], i>>
    BY <2>2
  <2>4. IsList(q) /\ Len(q) = L
    BY <2>1, <2>3, ListOf
  <2> QED BY <2>3, <2>4 DEF q, L
<1>7. \A m, n \in 1 .. N : \A i \in 1 .. Len(seqs[m]), j \in 1 .. Len(seqs[n]) :
         seqs[m][i] = seqs[n][j] => m = n /\ i = j
  <2> SUFFICES ASSUME NEW m \in 1 .. N, NEW n \in 1 .. N, NEW i \in 1 .. Len(seqs[m]),
                      NEW j \in 1 .. Len(seqs[n]), seqs[m][i] = seqs[n][j]
               PROVE  m = n /\ i = j
    OBVIOUS
  <2>1. <<order[m], i>> = <<order[n], j>>
    BY <1>6
  <2>2. order[m] = order[n] /\ i = j
    BY <2>1
  <2> QED BY <1>1, <2>2
<1>8. IsFlat(slot, seqs, N)
  <2>1. IsList(seqs) /\ Len(seqs) # 0 /\ \A n \in 1 .. Len(seqs) : IsList(seqs[n])
    BY <1>3, <1>4, <1>6
  <2>2. \A m, n \in 1 .. Len(seqs) : \A i \in 1 .. Len(seqs[m]), j \in 1 .. Len(seqs[n]) :
           seqs[m][i] = seqs[n][j] => m = n /\ i = j
    BY <1>4, <1>7
  <2>3. IsFlat(FlattenSeq(seqs), seqs, Len(seqs))
    BY <2>1, <2>2, Flattened
  <2> QED BY <1>2, <1>4, <2>3
<1>9. ASSUME NEW s \in S, NEW i \in 1 .. Len(chains[s])
      PROVE  \E n \in 1 .. Len(slot) : slot[n] = <<s, i>>
  <2>1. PICK m \in 1 .. N : order[m] = s
    BY <1>1
  <2>2. i \in 1 .. Len(seqs[m]) /\ seqs[m][i] = <<s, i>>
    BY <1>6, <2>1
  <2>3. PICK n \in 1 .. Len(slot) : slot[n] = seqs[m][i]
    BY <1>8, <2>2 DEF IsFlat
  <2> QED BY <2>2, <2>3
<1>10. ASSUME NEW n \in 1 .. Len(slot)
       PROVE  \E s \in S : \E i \in 1 .. Len(chains[s]) : slot[n] = <<s, i>>
  <2>1. PICK m \in 1 .. N : \E i \in 1 .. Len(seqs[m]) : slot[n] = seqs[m][i]
    BY <1>8 DEF IsFlat
  <2>2. PICK i \in 1 .. Len(seqs[m]) : slot[n] = seqs[m][i]
    BY <2>1
  <2>3. order[m] \in S /\ i \in 1 .. Len(chains[order[m]]) /\ slot[n] = <<order[m], i>>
    BY <1>1, <1>6, <2>2
  <2> QED BY <2>3
<1> QED BY <1>8, <1>9, <1>10 DEF IsFlat, slot

(* anchor_epoch: the records it is given, each with a batch object.         *)
BatchOf(records, eid, n) ==
    [epoch_id        |-> eid,
     merkle_root     |-> MerkleRoot([i \in 1 .. Len(records) |-> Leaf(records[i])]),
     leaf_index      |-> n - 1,
     inclusion_proof |-> AuditPaths([i \in 1 .. Len(records) |-> Leaf(records[i])])[n]]

\* Its anchor: the root over their leaves, how many they are, and perhaps a
\* token over that root.
AnchorTold(a, records, eid) ==
    /\ a.epoch_id = eid
    /\ a.merkle_root = MerkleRoot([i \in 1 .. Len(records) |-> Leaf(records[i])])
    /\ a.leaf_count = Len(records)
    /\ "tsa" \in DOMAIN a => /\ a.tsa.imprint = Imprint(a.merkle_root)
                             /\ a.tsa.token = Token(Imprint(a.merkle_root), Genuine)

LEMMA EpochTold ==
    ASSUME TrailConstants, NEW records, NEW eid, NEW tsa, NEW host
    PROVE  /\ AnchorEpoch(records, eid, tsa, host).records
                = [n \in 1 .. Len(records) |->
                     [batch |-> BatchOf(records, eid, n)] ++ NoBatch(records[n])]
           /\ AnchorEpoch(records, eid, tsa, host).anchor # None =>
                AnchorTold(AnchorEpoch(records, eid, tsa, host).anchor, records, eid)
<1> DEFINE out == AnchorEpoch(records, eid, tsa, host)
           root == MerkleRoot([i \in 1 .. Len(records) |-> Leaf(records[i])])
           anchor == [epoch_id |-> eid, merkle_root |-> root, leaf_count |-> Len(records)]
           st     == Stamp(host, Imprint(root), 32)
           stamped == [tsa |-> [token |-> st.token, imprint |-> Imprint(root)]]
<1>1. out.records = [n \in 1 .. Len(records) |->
                       [batch |-> BatchOf(records, eid, n)] ++ NoBatch(records[n])]
  BY DEF AnchorEpoch, BatchOf
<1>2. out.anchor = IF ~tsa THEN anchor
                   ELSE IF st.status = "anchored" THEN stamped ++ anchor ELSE None
  BY DEF AnchorEpoch
<1>3. /\ DOMAIN anchor = {"epoch_id", "merkle_root", "leaf_count"}
      /\ anchor.epoch_id = eid /\ anchor.merkle_root = root /\ anchor.leaf_count = Len(records)
      /\ DOMAIN stamped = {"tsa"}
      /\ stamped.tsa.token = st.token /\ stamped.tsa.imprint = Imprint(root)
  OBVIOUS
<1>4. st.status = "anchored" => st.token = Token(Imprint(root), Genuine)
  BY DEF Stamp
<1> HIDE DEF out, anchor, stamped, root, st
<1>5. /\ \A k \in DOMAIN anchor \ DOMAIN stamped : (stamped ++ anchor)[k] = anchor[k]
      /\ \A k \in DOMAIN stamped : (stamped ++ anchor)[k] = stamped[k]
  BY MergeFacts
<1>6. out.anchor # None => \/ out.anchor = anchor
                           \/ st.status = "anchored" /\ out.anchor = stamped ++ anchor
  BY <1>2
<1>7. /\ (stamped ++ anchor).epoch_id = eid /\ (stamped ++ anchor).merkle_root = root
      /\ (stamped ++ anchor).leaf_count = Len(records)
      /\ (stamped ++ anchor).tsa = stamped.tsa
  BY <1>3, <1>5
<1>8. AnchorTold(anchor, records, eid)
  BY <1>3 DEF AnchorTold, root
<1>9. st.status = "anchored" => AnchorTold(stamped ++ anchor, records, eid)
  BY <1>3, <1>4, <1>7 DEF AnchorTold, root
<1> QED BY <1>1, <1>6, <1>8, <1>9 DEF out

\* Where a record of the sessions went.
SlotOf(S, s, i) == CHOOSE n \in DOMAIN Slots(S) : Slots(S)[n] = <<s, i>>

LEMMA SlotOfTold ==
    ASSUME NEW S, IsFiniteSet(S), S # {}, \A s \in S : IsList(chains[s]),
           NEW s \in S, NEW i \in 1 .. Len(chains[s])
    PROVE  /\ SlotOf(S, s, i) \in 1 .. Len(Slots(S))
           /\ Slots(S)[SlotOf(S, s, i)] = <<s, i>>
           /\ IsList(Records(S)) /\ Len(Records(S)) = Len(Slots(S))
           /\ Records(S)[SlotOf(S, s, i)] = chains[s][i]
<1> DEFINE slot == Slots(S)
           recs == Records(S)
<1>1. IsList(slot) /\ DOMAIN slot = 1 .. Len(slot) /\ Len(slot) \in Nat
  BY SlotsTold, ListFacts
<1>2. \E n \in DOMAIN slot : slot[n] = <<s, i>>
  <2>1. \A t \in S : \A k \in 1 .. Len(chains[t]) :
          \E n \in 1 .. Len(Slots(S)) : Slots(S)[n] = <<t, k>>
    BY SlotsTold
  <2> QED BY <1>1, <2>1
<1>3. SlotOf(S, s, i) \in 1 .. Len(slot) /\ slot[SlotOf(S, s, i)] = <<s, i>>
  BY <1>1, <1>2 DEF SlotOf
<1>4. recs = [n \in 1 .. Len(slot) |-> chains[slot[n][1]][slot[n][2]]]
  BY <1>1 DEF Records
<1> HIDE DEF slot, recs
<1>5. recs = [n \in 1 .. Len(slot) |-> recs[n]]
  BY <1>4
<1>6. IsList(recs) /\ Len(recs) = Len(slot)
  BY <1>1, <1>5, ListOf
<1>7. recs[SlotOf(S, s, i)] = chains[s][i]
  <2>1. slot[SlotOf(S, s, i)][1] = s /\ slot[SlotOf(S, s, i)][2] = i
    BY <1>3
  <2> QED BY <1>3, <1>4, <2>1
<1> QED BY <1>3, <1>6, <1>7 DEF slot, recs

\* Anchor: the chains differ in batch objects only.
LEMMA AnchoredChains ==
    ASSUME TrailConstants, TrailInv, NEW S \in (SUBSET DOMAIN chains) \ {{}},
           NEW host, NEW tsa, Anchor(S, tsa, host)
    PROVE  /\ DOMAIN chains' = DOMAIN chains
           /\ \A s \in DOMAIN chains \ S : chains'[s] = chains[s]
           /\ \A s \in S : /\ IsList(chains'[s]) /\ Len(chains'[s]) = Len(chains[s])
                           /\ \A i \in 1 .. Len(chains[s]) :
                                chains'[s][i]
                                  = [batch |-> BatchOf(Records(S), calls, SlotOf(S, s, i))]
                                       ++ NoBatch(chains[s][i])
           /\ \A s \in DOMAIN chains : ChainOk(chains'[s], s, how)
<1> DEFINE out == AnchorEpoch(Records(S), calls, tsa, host)
<1>0. S # {} /\ S \subseteq DOMAIN chains
  OBVIOUS
<1>1. how # None
  <2>1. DOMAIN << >> = {}
    OBVIOUS
  <2> QED BY <1>0, <2>1 DEF TrailInv, ChainsOk
<1>2. \A s \in DOMAIN chains : ChainOk(chains[s], s, how)
  BY <1>1 DEF TrailInv, ChainsOk
<1>3. \A s \in DOMAIN chains : /\ IsList(chains[s]) /\ Len(chains[s]) \in Nat
                              /\ DOMAIN chains[s] = 1 .. Len(chains[s])
  BY <1>2, ListFacts DEF ChainOk
<1>4. IsFiniteSet(S)
  BY <1>0, FS_Subset DEF TrailInv, CountsOk
<1>5. out.records = [n \in 1 .. Len(Records(S)) |->
                       [batch |-> BatchOf(Records(S), calls, n)] ++ NoBatch(Records(S)[n])]
  BY EpochTold
<1>6. chains' = [s \in DOMAIN chains |->
                   IF s \notin S THEN chains[s]
                   ELSE [i \in DOMAIN chains[s] |-> out.records[SlotOf(S, s, i)]]]
  BY DEF Anchor, SlotOf
<1> HIDE DEF out
<1>7. ASSUME NEW s \in S
      PROVE  /\ IsList(chains'[s]) /\ Len(chains'[s]) = Len(chains[s])
             /\ \A i \in 1 .. Len(chains[s]) :
                   chains'[s][i]
                     = [batch |-> BatchOf(Records(S), calls, SlotOf(S, s, i))]
                          ++ NoBatch(chains[s][i])
  <2> DEFINE new == chains'[s]
             N   == Len(chains[s])
  <2>1. new = [i \in 1 .. N |-> out.records[SlotOf(S, s, i)]]
    BY <1>0, <1>3, <1>6
  <2>2. N \in Nat
    BY <1>0, <1>3
  <2> HIDE DEF new, N
  <2>3. new = [i \in 1 .. N |-> new[i]]
    BY <2>1
  <2>4. IsList(new) /\ Len(new) = N
    BY <2>2, <2>3, ListOf
  <2>5. ASSUME NEW i \in 1 .. N
        PROVE  new[i] = [batch |-> BatchOf(Records(S), calls, SlotOf(S, s, i))]
                           ++ NoBatch(chains[s][i])
    <3>1. \A t \in S : IsList(chains[t])
      BY <1>0, <1>3
    <3>2. /\ SlotOf(S, s, i) \in 1 .. Len(Records(S))
          /\ Records(S)[SlotOf(S, s, i)] = chains[s][i]
      BY <1>0, <1>4, <3>1, SlotOfTold DEF N
    <3>3. out.records[SlotOf(S, s, i)]
            = [batch |-> BatchOf(Records(S), calls, SlotOf(S, s, i))]
                 ++ NoBatch(Records(S)[SlotOf(S, s, i)])
      BY <1>5, <3>2
    <3> QED BY <2>1, <3>2, <3>3
  <2> QED BY <2>4, <2>5 DEF new, N
<1>8. DOMAIN chains' = DOMAIN chains /\ \A s \in DOMAIN chains \ S : chains'[s] = chains[s]
  BY <1>6
<1>9. ASSUME NEW s \in DOMAIN chains PROVE ChainOk(chains'[s], s, how)
  <2>1. CASE s \notin S
    BY <1>2, <1>8, <2>1
  <2>2. CASE s \in S
    <3> DEFINE ch  == chains[s]
               new == chains'[s]
               b(i) == BatchOf(Records(S), calls, SlotOf(S, s, i))
    <3>1. ChainOk(ch, s, how)
      BY <1>2
    <3>2. /\ IsList(new) /\ Len(new) = Len(ch)
          /\ \A i \in 1 .. Len(ch) : new[i] = [batch |-> b(i)] ++ NoBatch(ch[i])
      BY <1>7, <2>2
    <3> HIDE DEF ch, new, b
    <3>3. \A i \in 1 .. Len(ch) : Becomes(ch[i], new[i], s, ch[1].agent_id, how)
      <4> SUFFICES ASSUME NEW i \in 1 .. Len(ch)
                   PROVE  Becomes(ch[i], new[i], s, ch[1].agent_id, how)
        OBVIOUS
      <4>1. /\ InSession(ch[i], s, ch[1].agent_id, how)
            /\ IsTombstone(ch[i]) => "tombstone_hash" \in DOMAIN ch[i]
        BY <3>1, Kinds DEF IsErased
      <4>2. Becomes(ch[i], [batch |-> b(i)] ++ NoBatch(ch[i]), s, ch[1].agent_id, how)
        BY <4>1, RebatchedBecomes
      <4> QED BY <3>2, <4>2
    <3>4. ChainOk(new, s, how)
      BY <3>1, <3>2, <3>3, ChainChanged
    <3> QED BY <3>4 DEF new
  <2> QED BY <2>1, <2>2
<1> QED BY <1>7, <1>8, <1>9

-----------------------------------------------------------------------------
(* The invariant                                                            *)

LEMMA TrailInvInit == TrailConstants /\ TrailInit => TrailInv
<1> SUFFICES ASSUME TrailConstants, TrailInit PROVE TrailInv
  OBVIOUS
<1>1. DOMAIN << >> = {} /\ Len(<< >>) = 0
  OBVIOUS
<1>2. << >> \in Seq({})
  OBVIOUS
<1>3. EntriesOk
  BY <1>1, <1>2 DEF EntriesOk, TrailInit, TrailConstants, IsList
<1>4. CountsOk
  BY <1>1, FS_EmptySet DEF CountsOk, TrailInit, TrailConstants, Anchored
<1>5. ChainsOk
  BY DEF ChainsOk, TrailInit
<1> QED BY <1>3, <1>4, <1>5 DEF TrailInv

\* An erasure, a closing or an anchoring finds chains and leaves work.
LEMMA WorkTold ==
    ASSUME TrailConstants, TrailInv, WorkLeft
    PROVE  calls \in Nat /\ calls + 1 \in 0 .. MaxWork
<1>1. Cardinality(DOMAIN chains) \in Nat /\ calls \in 0 .. MaxWork
  BY FS_CardinalityType DEF TrailInv, CountsOk
<1> QED BY <1>1 DEF WorkLeft, TrailConstants

LEMMA TrailInvNext == TrailConstants /\ TrailInv /\ [TrailNext]_trailVars => TrailInv'
<1> SUFFICES ASSUME TrailConstants, TrailInv, [TrailNext]_trailVars PROVE TrailInv'
  OBVIOUS
<1>0. DOMAIN << >> = {}
  OBVIOUS
<1>1. ASSUME NEW e \in Templates, LogEntry(e) PROVE TrailInv'
  <2> DEFINE x == [seed |-> Len(omega) + 1] ++ e
  <2>1. x.time \in Int
    <3> DEFINE d == [seed |-> Len(omega) + 1]
    <3>1. DOMAIN d = {"seed"}
      OBVIOUS
    <3> HIDE DEF d
    <3>2. \A k \in DOMAIN e \ DOMAIN d : (d ++ e)[k] = e[k]
      BY MergeFacts
    <3>3. "time" \in DOMAIN e /\ e.time \in Int
      BY DEF TrailConstants
    <3>4. (d ++ e)["time"] = e["time"]
      BY <3>1, <3>2, <3>3
    <3>5. x = d ++ e
      BY DEF d
    <3> HIDE DEF x
    <3> QED BY <3>3, <3>4, <3>5
  <2> HIDE DEF x
  <2>2. omega' = Append(omega, x) /\ Len(omega) < MaxOmega
    BY <1>1 DEF LogEntry, x
  <2>3. IsList(omega) /\ Len(omega) \in Nat /\ \A n \in 1 .. Len(omega) : omega[n].time \in Int
    BY ListFacts DEF TrailInv, EntriesOk
  <2>4. /\ IsList(omega') /\ Len(omega') = Len(omega) + 1
        /\ \A n \in 1 .. Len(omega) : omega'[n] = omega[n]
        /\ omega'[Len(omega) + 1] = x
    BY <2>2, <2>3, ListAppend
  <2>5. \A n \in 1 .. Len(omega') : omega'[n].time \in Int
    <3> SUFFICES ASSUME NEW n \in 1 .. Len(omega') PROVE omega'[n].time \in Int
      OBVIOUS
    <3>1. n \in 1 .. Len(omega) \/ n = Len(omega) + 1
      BY <2>3, <2>4
    <3> QED BY <2>1, <2>3, <2>4, <3>1
  <2>6. Len(omega') <= MaxOmega
    BY <2>2, <2>3, <2>4 DEF TrailConstants
  <2>7. EntriesOk'
    BY <2>4, <2>5, <2>6 DEF EntriesOk
  <2>8. CountsOk' /\ ChainsOk'
    BY <1>1 DEF LogEntry, TrailInv, CountsOk, ChainsOk, Anchored
  <2> QED BY <2>7, <2>8 DEF TrailInv
<1>2. ASSUME NEW h \in Exports, Export(h) PROVE TrailInv'
  <2> DEFINE out == FromOmega(omega, h)
  <2>1. /\ ~out.refused /\ DOMAIN (out.chains) # {}
        /\ how' = h /\ chains' = out.chains
        /\ UNCHANGED <<omega, anchors, sealed, calls>>
    BY <1>2 DEF Export
  <2>2. Len(omega) \in Nat /\ \A n \in 1 .. Len(omega) : omega[n].time \in Int
    BY ListFacts DEF TrailInv, EntriesOk
  <2>3. IsSigner(h.signer) /\ h # None
    BY DEF TrailConstants
  <2>4. /\ IsFiniteSet(DOMAIN (out.chains))
        /\ \A s \in DOMAIN (out.chains) : ChainOk(out.chains[s], s, h)
        /\ h.trust \in TrustLevels
    BY <2>1, <2>2, <2>3, ExportedChains
  <2> HIDE DEF out
  <2>5. EntriesOk'
    BY <2>1 DEF TrailInv, EntriesOk
  <2>6. CountsOk'
    BY <2>1, <2>4 DEF TrailInv, CountsOk, Anchored
  <2>7. ChainsOk'
    BY <2>1, <2>3, <2>4 DEF ChainsOk
  <2> QED BY <2>5, <2>6, <2>7 DEF TrailInv
<1>3. ASSUME NEW s \in DOMAIN chains, NEW new,
             ChainOk(chains[s], s, how) => ChainOk(new, s, how),
             WorkLeft, DOMAIN chains' = DOMAIN chains, chains'[s] = new,
             \A t \in DOMAIN chains : t # s => chains'[t] = chains[t],
             calls' = calls + 1, UNCHANGED <<omega, how, anchors, sealed>>
      PROVE  TrailInv'
  <2>1. how # None
    BY <1>0 DEF TrailInv, ChainsOk
  <2>2. EntriesOk'
    BY <1>3 DEF TrailInv, EntriesOk
  <2>3. CountsOk'
    BY <1>3, WorkTold DEF TrailInv, CountsOk, Anchored
  <2>4. ASSUME NEW t \in DOMAIN chains PROVE ChainOk(chains'[t], t, how)
    BY <1>3, <2>1, <2>4 DEF TrailInv, ChainsOk
  <2>5. ChainsOk'
    BY <1>3, <2>1, <2>4 DEF TrailInv, ChainsOk
  <2> QED BY <2>2, <2>3, <2>5 DEF TrailInv
<1>4. how # None => IsSigner(how.signer)
  BY DEF TrailInv, ChainsOk, TrailConstants
<1>5. \A g \in TombstoneSigners : MaySign(g, how)
  BY DEF TombstoneSigners, MaySign, Signed, Signs
<1>6. ASSUME NEW s \in DOMAIN chains, NEW i \in DOMAIN chains[s], NEW g \in TombstoneSigners,
             EraseRecord(s, i, g)
      PROVE  TrailInv'
  <2> DEFINE ch  == chains[s]
             new == [ch EXCEPT ![i] = Tombstone(ch[i], Last(ch).timestamp, g)]
  <2>1. how # None
    BY <1>0 DEF TrailInv, ChainsOk
  <2>2. /\ WorkLeft /\ Tombstone(ch[i], Last(ch).timestamp, g) # None
        /\ chains' = [chains EXCEPT ![s] = new]
        /\ calls' = calls + 1 /\ UNCHANGED <<omega, how, anchors, sealed>>
    BY <1>6 DEF EraseRecord
  <2>3. ChainOk(ch, s, how) => ChainOk(new, s, how)
    <3> HIDE DEF ch
    <3>1. i \in DOMAIN ch
      BY DEF ch
    <3> QED BY <1>4, <1>5, <2>1, <2>2, <3>1, ErasedChain
  <2> HIDE DEF new
  <2>4. /\ DOMAIN chains' = DOMAIN chains /\ chains'[s] = new
        /\ \A t \in DOMAIN chains : t # s => chains'[t] = chains[t]
    BY <2>2
  <2> QED BY <1>3, <2>2, <2>3, <2>4
<1>7. ASSUME NEW s \in DOMAIN chains, NEW g \in TombstoneSigners, CloseSession(s, g)
      PROVE  TrailInv'
  <2> DEFINE ch  == chains[s]
             new == Append(ch, Sign(CloseRecord(ch, FALSE, Last(ch).timestamp + 1), g))
  <2>1. how # None
    BY <1>0 DEF TrailInv, ChainsOk
  <2>2. /\ WorkLeft /\ ~IsClose(Last(ch))
        /\ chains' = [chains EXCEPT ![s] = new]
        /\ calls' = calls + 1 /\ UNCHANGED <<omega, how, anchors, sealed>>
    BY <1>7 DEF CloseSession
  <2>3. ChainOk(ch, s, how) => ChainOk(new, s, how)
    <3> HIDE DEF ch
    <3> SUFFICES ASSUME ChainOk(ch, s, how) PROVE ChainOk(new, s, how)
      OBVIOUS
    <3>1. Last(ch).timestamp \in Int
      <4>1. Len(ch) \in 1 .. Len(ch)
        BY ListFacts DEF ChainOk
      <4>2. InSession(ch[Len(ch)], s, ch[1].agent_id, how)
        BY <4>1, Kinds
      <4> QED BY <4>2 DEF InSession, Last
    <3>2. Last(ch).timestamp + 1 \in Int /\ Last(ch).timestamp + 1 >= Last(ch).timestamp
      BY <3>1
    <3> QED BY <1>4, <1>5, <2>1, <2>2, <3>2, ClosedChain
  <2> HIDE DEF new
  <2>4. /\ DOMAIN chains' = DOMAIN chains /\ chains'[s] = new
        /\ \A t \in DOMAIN chains : t # s => chains'[t] = chains[t]
    BY <2>2
  <2> QED BY <1>3, <2>2, <2>3, <2>4
<1>8. ASSUME NEW S \in (SUBSET DOMAIN chains) \ {{}}, NEW host \in AnchorHosts,
             NEW tsa \in BOOLEAN, Anchor(S, tsa, host)
      PROVE  TrailInv'
  <2> DEFINE out == AnchorEpoch(Records(S), calls, tsa, host)
  <2>0. DOMAIN chains # {}
    OBVIOUS
  <2>1. how # None
    BY <1>0, <2>0 DEF TrailInv, ChainsOk
  <2>2. DOMAIN chains' = DOMAIN chains /\ \A s \in DOMAIN chains : ChainOk(chains'[s], s, how)
    BY <1>8, AnchoredChains
  <2>3. /\ WorkLeft /\ calls' = calls + 1 /\ UNCHANGED <<omega, how>>
        /\ out.anchor = None => UNCHANGED <<anchors, sealed>>
        /\ out.anchor # None => /\ anchors' = anchors \cup {out.anchor}
                                /\ DOMAIN sealed' = DOMAIN sealed \cup {calls}
    BY <1>8 DEF Anchor, Put
  <2>4. out.anchor # None => out.anchor.epoch_id = calls
    <3>1. out.anchor # None => AnchorTold(out.anchor, Records(S), calls)
      BY EpochTold
    <3> QED BY <3>1 DEF AnchorTold
  <2> HIDE DEF out
  <2>5. DOMAIN sealed' = Anchored(anchors')
    <3>1. DOMAIN sealed = Anchored(anchors)
      BY DEF TrailInv, CountsOk
    <3> QED BY <2>3, <2>4, <3>1 DEF Anchored
  <2>6. EntriesOk'
    BY <2>3 DEF TrailInv, EntriesOk
  <2>7. CountsOk'
    BY <2>2, <2>3, <2>5, WorkTold DEF TrailInv, CountsOk, Anchored
  <2>8. ChainsOk'
    BY <2>1, <2>2, <2>3 DEF TrailInv, ChainsOk
  <2> QED BY <2>6, <2>7, <2>8 DEF TrailInv
<1>9. CASE UNCHANGED trailVars
  BY <1>9 DEF trailVars, TrailInv, EntriesOk, CountsOk, ChainsOk, Anchored
<1> QED BY <1>1, <1>2, <1>6, <1>7, <1>8, <1>9 DEF TrailNext

LEMMA TrailInvAlways == TrailConstants /\ TrailSpec => []TrailInv
<1> SUFFICES ASSUME TrailConstants PROVE TrailSpec => []TrailInv
  OBVIOUS
<1>1. TrailInv /\ [TrailNext]_trailVars => TrailInv'
  BY TrailInvNext
<1>2. TrailInit => TrailInv
  BY TrailInvInit
<1> QED BY <1>1, <1>2, PTL DEF TrailSpec

\* Every record of a chain carries the mandatory fields and the session of
\* its chain, whatever was erased, closed or anchored, and there is an anchor
\* of every sealed epoch and of no other (aat.py:421-676).
THEOREM TrailTypes == TrailConstants /\ TrailSpec => []TrailTypeOK
<1> SUFFICES ASSUME TrailConstants PROVE TrailSpec => []TrailTypeOK
  OBVIOUS
<1>1. TrailInv => TrailTypeOK
  <2> SUFFICES ASSUME TrailInv PROVE TrailTypeOK
    OBVIOUS
  <2>1. Len(omega) <= MaxOmega
    BY DEF TrailInv, EntriesOk
  <2>2. how \in Exports \cup {None} /\ (how = None => chains = << >>)
    BY DEF TrailInv, ChainsOk
  <2>3. ASSUME NEW s \in DOMAIN chains, NEW i \in DOMAIN chains[s]
        PROVE  Mandatory \subseteq DOMAIN chains[s][i] /\ chains[s][i].session_id = s
    <3>1. DOMAIN << >> = {}
      OBVIOUS
    <3>2. how # None
      BY <2>2, <3>1
    <3>3. ChainOk(chains[s], s, how)
      BY <3>2 DEF TrailInv, ChainsOk
    <3>4. i \in 1 .. Len(chains[s])
      BY <3>3, ListFacts DEF ChainOk
    <3> QED BY <3>3, <3>4, Kinds DEF InSession
  <2>4. DOMAIN sealed = Anchored(anchors) /\ calls \in 0 .. MaxWork
    BY DEF TrailInv, CountsOk
  <2> QED BY <2>1, <2>2, <2>3, <2>4 DEF TrailTypeOK
<1>2. TrailSpec => []TrailInv
  BY TrailInvAlways
<1> QED BY <1>1, <1>2, PTL

(* Whatever the order of exports, erasures, closings and anchorings,        *)
(* verify_chain accepts a chain exactly when its last record is no          *)
(* tombstone, one principal signed it and no record was erased again after  *)
(* its successor had linked to its tombstone (aat.py:599-640).              *)
THEOREM TrailVerdict == TrailConstants /\ TrailSpec => []VerdictIsExact
<1> SUFFICES ASSUME TrailConstants PROVE TrailSpec => []VerdictIsExact
  OBVIOUS
<1>1. TrailInv => VerdictIsExact
  <2> SUFFICES ASSUME TrailInv, NEW s \in DOMAIN chains, NEW pinned \in BOOLEAN
               PROVE  VerifyChain(chains[s], Party(pinned)) <=> WellMade(chains[s])
    BY DEF VerdictIsExact
  <2>1. DOMAIN << >> = {}
    OBVIOUS
  <2>2. how # None
    BY <2>1 DEF TrailInv, ChainsOk
  <2>3. ChainOk(chains[s], s, how) /\ IsSigner(how.signer) /\ how.trust \in TrustLevels
    BY <2>2 DEF TrailInv, ChainsOk, TrailConstants
  <2> QED BY <2>3, ChainVerdict
<1>2. TrailSpec => []TrailInv
  BY TrailInvAlways
<1> QED BY <1>1, <1>2, PTL

-----------------------------------------------------------------------------
(* An altered chain                                                         *)

\* What verify_chain has found right of a chain it accepts.
Passed(recs, require) ==
    /\ recs # << >>
    /\ \A i \in 1 .. Len(recs) :
         /\ i = 1 => IsEvent(recs[i], "session_start")
         /\ i # 1 => /\ recs[i].parent_record_id = recs[i - 1].record_id
                     /\ recs[i].prev_hash # None /\ ~IsTombstone(recs[i - 1])
                          => recs[i].prev_hash = RecordHash(recs[i - 1])
         /\ \A j \in 1 .. i - 1 : recs[j].record_id # recs[i].record_id
         /\ "signature" \in DOMAIN recs[i] => recs[i].signature.over = SigningInput(recs[i])
         /\ require => "signature" \in DOMAIN recs[i]

LEMMA VerifiedPassed ==
    ASSUME NEW recs, NEW opts, VerifyChain(recs, opts)
    PROVE  Passed(recs, opts.require)
<1>1. /\ recs # << >>
      /\ \A i \in 1 .. Len(recs) : /\ LinkProblems(recs, i) = {}
                                   /\ SignatureProblems(recs, i, opts) = {}
                                   /\ FieldProblems(recs, i) = {}
  BY Zenon DEF VerifyChain
<1>2. ASSUME NEW i \in 1 .. Len(recs), i = 1 PROVE IsEvent(recs[i], "session_start")
  BY <1>1, <1>2 DEF LinkProblems, If
<1>3. ASSUME NEW i \in 1 .. Len(recs), i # 1
      PROVE  /\ recs[i].parent_record_id = recs[i - 1].record_id
             /\ recs[i].prev_hash # None /\ ~IsTombstone(recs[i - 1])
                  => recs[i].prev_hash = RecordHash(recs[i - 1])
  BY <1>1, <1>3 DEF LinkProblems, If
<1>4. ASSUME NEW i \in 1 .. Len(recs), NEW j \in 1 .. i - 1
      PROVE  recs[j].record_id # recs[i].record_id
  BY <1>1 DEF FieldProblems, If
<1>5. ASSUME NEW i \in 1 .. Len(recs), "signature" \in DOMAIN recs[i]
      PROVE  recs[i].signature.over = SigningInput(recs[i])
  <2>1. RecordSignaturesVerify(recs[i], opts)
    BY <1>1, <1>5 DEF SignatureProblems, If
  <2> QED BY <2>1 DEF RecordSignaturesVerify, SignatureVerifies
<1>6. ASSUME NEW i \in 1 .. Len(recs), opts.require PROVE "signature" \in DOMAIN recs[i]
  BY <1>1, <1>6 DEF SignatureProblems, If
<1> QED BY <1>1, <1>2, <1>3, <1>4, <1>5, <1>6 DEF Passed

\* What one field of the text says is in the record's hash and in what is signed.
LEMMA FieldEdited ==
    ASSUME NEW old, IsRecord(old), NEW k \in DOMAIN old \ (SignatureValueFields \cup {"batch"}),
           NEW x, x # old[k]
    PROVE  LET r == [old EXCEPT ![k] = x]
           IN  /\ DOMAIN r = DOMAIN old
               /\ \A f \in DOMAIN old : f # k => r[f] = old[f]
               /\ SigningInput(r) # SigningInput(old)
               /\ RecordHash(r) # RecordHash(old)
<1> DEFINE r == [old EXCEPT ![k] = x]
<1>1. DOMAIN r = DOMAIN old /\ r[k] = x /\ \A f \in DOMAIN old : f # k => r[f] = old[f]
  <2>1. DOMAIN r = DOMAIN old
    OBVIOUS
  <2>2. r[k] = x
    OBVIOUS
  <2>3. \A f \in DOMAIN old : f # k => r[f] = old[f]
    OBVIOUS
  <2> QED BY <2>1, <2>2, <2>3
<1> HIDE DEF r
<1>2. SigningInput(r)[k] = x /\ SigningInput(old)[k] = old[k]
  <2>1. SigningInput(r)[k] = r[k]
    BY <1>1 DEF SigningInput, Without
  <2>2. SigningInput(old)[k] = old[k]
    BY DEF SigningInput, Without
  <2> QED BY <1>1, <2>1, <2>2
<1>3. RecordHash(r)[k] = x /\ RecordHash(old)[k] = old[k]
  BY <1>1, HashFacts
<1> QED BY <1>1, <1>2, <1>3 DEF r

\* A changed text, at a record that says the same of itself.
TextEdited(r, old) ==
    /\ SigningInput(r) # SigningInput(old) /\ RecordHash(r) # RecordHash(old)
    /\ IsTombstone(r) <=> IsTombstone(old)
    /\ "signature" \in DOMAIN old => "signature" \in DOMAIN r /\ r.signature = old.signature

\* The signature in ECDSA's other form.
Reformed(r, old) ==
    /\ Unforgeable(r) = Unforgeable(old) /\ RecordHash(r) # RecordHash(old)
    /\ IsTombstone(r) <=> IsTombstone(old)

LEMMA EditTold ==
    ASSUME TrailConstants, NEW g, IsSigner(g), NEW old, IsRecord(old), SignedBy(old, g),
           Mandatory \subseteq DOMAIN old, NEW r \in Edits(old)
    PROVE  \/ r = old
           \/ TextEdited(r, old)
           \/ Signs(g) /\ "signature" \notin DOMAIN r
           \/ Signs(g) /\ Reformed(r, old)
<1>1. {"timestamp", "agent_version", "action_detail", "action_type"} \subseteq DOMAIN old
  BY DEF Mandatory
<1>2. ASSUME NEW k \in {"timestamp", "agent_version", "action_detail"}, NEW x,
             k = "action_detail" => /\ DOMAIN old.action_detail \subseteq DOMAIN x
                                    /\ "event" \in DOMAIN x => "event" \in DOMAIN old.action_detail
                                    /\ "event" \in DOMAIN x => x.event = old.action_detail.event,
             r = [old EXCEPT ![k] = x]
      PROVE  r = old \/ TextEdited(r, old)
  <2>1. CASE x = old[k]
    BY <1>1, <1>2, <2>1 DEF IsRecord
  <2>2. CASE x # old[k]
    <3>1. k \in DOMAIN old \ (SignatureValueFields \cup {"batch"})
      BY <1>1, <1>2 DEF SignatureValueFields
    <3>2. /\ DOMAIN r = DOMAIN old
          /\ \A f \in DOMAIN old : f # k => r[f] = old[f]
          /\ SigningInput(r) # SigningInput(old)
          /\ RecordHash(r) # RecordHash(old)
      BY <1>2, <2>2, <3>1, FieldEdited
    <3>3. r[k] = x
      BY <1>2, <3>1
    <3>4. r.action_type = old.action_type /\ "action_type" \in DOMAIN r
          /\ "action_detail" \in DOMAIN r
      BY <1>1, <3>2
    <3>5. Event(r) = Event(old)
      <4>1. CASE k = "action_detail"
        <5>1. r.action_detail = x
          BY <3>3, <4>1
        <5> QED BY <1>1, <1>2, <3>4, <4>1, <5>1 DEF Event, Get
      <4>2. CASE k # "action_detail"
        <5>1. r.action_detail = old.action_detail
          BY <1>1, <3>2, <4>2
        <5> QED BY <1>1, <3>4, <5>1 DEF Event, Get
      <4> QED BY <4>1, <4>2
    <3>6. IsTombstone(r) <=> IsTombstone(old)
      BY <1>1, <3>4, <3>5 DEF IsTombstone, IsEvent, Get
    <3>7. "signature" \in DOMAIN old => "signature" \in DOMAIN r /\ r.signature = old.signature
      BY <1>2, <3>2
    <3> QED BY <3>2, <3>6, <3>7 DEF TextEdited
  <2> QED BY <2>1, <2>2
<1>3. CASE r = [old EXCEPT !.timestamp = @ + 1]
  BY <1>2, <1>3
<1>4. CASE r = [old EXCEPT !.agent_version = "2"]
  BY <1>2, <1>4
<1>5. CASE r = [old EXCEPT !.action_detail = [note |-> "edited"] ++ @]
  <2> DEFINE n == [note |-> "edited"]
             d == old.action_detail
             x == n ++ d
  <2>1. DOMAIN n = {"note"}
    OBVIOUS
  <2>2. r = [old EXCEPT !["action_detail"] = x]
    BY <1>5
  <2> HIDE DEF n, d
  <2>3. /\ DOMAIN (n ++ d) = DOMAIN n \cup DOMAIN d
        /\ \A k \in DOMAIN d \ DOMAIN n : (n ++ d)[k] = d[k]
    BY MergeFacts
  <2>4. /\ DOMAIN d \subseteq DOMAIN x
        /\ "event" \in DOMAIN x => "event" \in DOMAIN d
        /\ "event" \in DOMAIN x => x.event = d.event
    BY <2>1, <2>3
  <2> HIDE DEF x
  <2> QED BY <1>2, <2>2, <2>4 DEF d
<1>6. ~Signs(g) => SignatureFields \cap DOMAIN old = {}
  BY DEF SignedBy, Both, Signs, SignatureFields
<1>7. CASE r = Without(old, SignatureFields)
  <2>0. /\ IsRecord(r) /\ DOMAIN r = DOMAIN old \ SignatureFields
        /\ \A k \in DOMAIN old \ SignatureFields : r[k] = old[k]
    BY <1>7, WithoutFacts
  <2>1. CASE Signs(g)
    BY <2>0, <2>1 DEF SignatureFields
  <2>2. CASE ~Signs(g)
    <3>1. DOMAIN old \ SignatureFields = DOMAIN old
      BY <1>6, <2>2
    <3>2. r = old
      BY <2>0, <3>1, SameRecord
    <3> QED BY <3>2
  <2> QED BY <2>1, <2>2
<1>8. CASE r = OtherForm(old)
  <2>1. CASE ~Signs(g)
    BY <1>6, <1>8, <2>1 DEF OtherForm, SignatureFields
  <2>2. CASE Signs(g)
    <3> DEFINE over == SigningInput(old)
               sig  == Signature(Main(g), over)
               high == [by |-> Main(g), over |-> over, form |-> "high"]
    <3>1. "signature" \in DOMAIN old /\ old.signature = sig
      BY <2>2 DEF SignedBy
    <3>2. r = [old EXCEPT !.signature = high]
      BY <1>8, <3>1 DEF OtherForm, Signature
    <3>3. /\ DOMAIN r = DOMAIN old /\ r["signature"] = high
          /\ \A k \in DOMAIN old : k # "signature" => r[k] = old[k]
      BY <3>1, <3>2
    <3>4. SigningInput(r) = over
      BY <3>3, SameSigningInput DEF SignatureValueFields
    <3>5. RecordHash(r)["signature"] = [by |-> Main(g), form |-> "high"]
      <4>1. RecordHash(r)["signature"] = IF r["signature"].over = SigningInput(r)
               THEN [by |-> r["signature"].by, form |-> r["signature"].form] ELSE r["signature"]
        BY <3>1, <3>3, HashFacts DEF SignatureValueFields
      <4> QED BY <3>3, <3>4, <4>1
    <3>6. RecordHash(old)["signature"] = [by |-> Main(g), form |-> "low"]
      <4>1. RecordHash(old)["signature"] = IF old["signature"].over = SigningInput(old)
               THEN [by |-> old["signature"].by, form |-> old["signature"].form]
               ELSE old["signature"]
        BY <3>1, HashFacts DEF SignatureValueFields
      <4> QED BY <3>1, <4>1 DEF Signature
    <3>7. RecordHash(r) # RecordHash(old)
      <4>1. [by |-> Main(g), form |-> "high"].form = "high"
            /\ [by |-> Main(g), form |-> "low"].form = "low"
        OBVIOUS
      <4> QED BY <3>5, <3>6, <4>1
    <3>8. Unforgeable(r) = Unforgeable(old)
      <4>1. DOMAIN r \ SignatureValueFields = DOMAIN old \ SignatureValueFields
        BY <3>3
      <4>2. \A k \in DOMAIN old \ SignatureValueFields : r[k] = old[k]
        BY <3>3 DEF SignatureValueFields
      <4>3. Without(r, SignatureValueFields) = Without(old, SignatureValueFields)
        BY <4>1, <4>2 DEF Without
      <4> QED BY <4>3 DEF Unforgeable
    <3>9. IsTombstone(r) <=> IsTombstone(old)
      BY <1>1, <3>3 DEF IsTombstone, IsEvent, Event, Get
    <3> QED BY <2>2, <3>7, <3>8, <3>9 DEF Reformed
  <2> QED BY <2>1, <2>2
<1> QED BY <1>3, <1>4, <1>5, <1>7, <1>8 DEF Edits

\* What an alteration that passes leaves of a good chain.
Limits(alt, ch) ==
    /\ SameBytes(Front(alt), ch)
    /\ Signed => SameText(alt, ch)
    /\ Len(alt) < Len(ch) => ~IsClose(Last(alt))

LEMMA FrontTold ==
    ASSUME NEW a, IsList(a), Len(a) # 0
    PROVE  Len(Front(a)) = Len(a) - 1 /\ \A i \in 1 .. Len(a) - 1 : Front(a)[i] = a[i]
<1>1. Len(a) \in Nat /\ Len(a) - 1 \in 0 .. Len(a)
  BY ListFacts
<1> QED BY <1>1, ListPrefix DEF Front

\* One record edited in its place.
LEMMA EditLimits ==
    ASSUME TrailConstants, NEW ch, NEW s, ChainOk(ch, s, how), IsSigner(how.signer),
           NEW i \in 1 .. Len(ch), NEW r \in Edits(ch[i]),
           Passed([ch EXCEPT ![i] = r], Signed)
    PROVE  Limits([ch EXCEPT ![i] = r], ch)
<1> DEFINE alt == [ch EXCEPT ![i] = r]
           old == ch[i]
           N   == Len(ch)
<1>1. IsList(ch) /\ N \in Nat /\ N # 0 /\ DOMAIN ch = 1 .. N
  BY ListFacts DEF ChainOk
<1>2. /\ IsList(alt) /\ Len(alt) = N /\ alt[i] = r
      /\ \A j \in 1 .. N : j # i => alt[j] = ch[j]
  BY <1>1, ListExcept
<1>3. PICK g : IsSigner(g) /\ SignedBy(old, g) /\ (Signs(g) <=> Signs(how.signer))
  BY SignedSomehow, SignerOf
<1>4. Signs(g) <=> Signed
  BY <1>3 DEF Signed, Signs
<1>5. InSession(old, s, ch[1].agent_id, how)
  BY Kinds
<1>6. \/ r = old
      \/ TextEdited(r, old)
      \/ Signed /\ "signature" \notin DOMAIN r
      \/ Signed /\ Reformed(r, old)
  BY <1>3, <1>4, <1>5, EditTold DEF InSession
<1> HIDE DEF alt
<1>7. Passed(alt, Signed)
  BY DEF alt
<1>0. N \in Nat /\ i \in 1 .. N
  BY <1>1
<1> HIDE DEF N
<1>8. Signed => "signature" \in DOMAIN r
  BY <1>2, <1>7 DEF Passed, N
<1>9. Signed => ~TextEdited(r, old)
  <2> SUFFICES ASSUME Signed, TextEdited(r, old) PROVE FALSE
    OBVIOUS
  <2>1. "signature" \in DOMAIN old /\ old.signature.over = SigningInput(old)
    BY <1>3, <1>4, SignatureTold
  <2>2. "signature" \in DOMAIN r /\ r.signature.over = SigningInput(r)
    BY <1>2, <1>7, <1>8 DEF Passed, N
  <2> QED BY <2>1, <2>2 DEF TextEdited
<1>10. ASSUME i # N, ~IsTombstone(old) PROVE r = old
  <2>0. i # N
    BY <1>10
  <2>1. i + 1 \in 2 .. N /\ i + 1 \in 1 .. N /\ i + 1 # 1 /\ (i + 1) - 1 = i /\ i + 1 # i
    BY <1>0, <2>0
  <2>2. Linked(ch[i + 1], old)
    BY <2>1 DEF ChainOk, N
  <2>3. ch[i + 1].prev_hash = RecordHash(old) /\ ch[i + 1].prev_hash # None
    BY <1>10, <2>2, RecordIsNotNone DEF Linked, TrailConstants
  <2>4. ~IsTombstone(r) => ch[i + 1].prev_hash = RecordHash(r)
    <3>1. /\ alt[i + 1].prev_hash # None /\ ~IsTombstone(alt[(i + 1) - 1])
               => alt[i + 1].prev_hash = RecordHash(alt[(i + 1) - 1])
      BY <1>2, <1>7, <2>1 DEF Passed, N
    <3>2. alt[i + 1] = ch[i + 1] /\ alt[(i + 1) - 1] = r
      BY <1>2, <2>1
    <3> QED BY <2>3, <3>1, <3>2
  <2>5. ~TextEdited(r, old) /\ ~Reformed(r, old)
    BY <1>10, <2>3, <2>4 DEF TextEdited, Reformed
  <2>6. r = old
    BY <1>6, <1>8, <2>5
  <2> QED BY <2>6
<1>11. SameBytes(Front(alt), ch)
  <2>1. /\ Len(Front(alt)) = N - 1 /\ \A j \in 1 .. N - 1 : Front(alt)[j] = alt[j]
    BY <1>1, <1>2, FrontTold DEF N
  <2>2. ASSUME NEW j \in 1 .. N - 1 PROVE NoBatch(alt[j]) = NoBatch(ch[j]) \/ IsTombstone(ch[j])
    <3>1. j \in 1 .. N /\ j # N
      BY <1>0
    <3>2. CASE j = i
      BY <1>2, <1>10, <3>1, <3>2
    <3>3. CASE j # i
      BY <1>2, <3>1, <3>3 DEF N
    <3> QED BY <3>2, <3>3
  <2> QED BY <2>1, <2>2 DEF SameBytes
<1>12. Signed => SameText(alt, ch)
  <2> SUFFICES ASSUME Signed PROVE SameText(alt, ch)
    OBVIOUS
  <2>1. Unforgeable(r) = Unforgeable(old)
    BY <1>6, <1>8, <1>9 DEF Reformed
  <2>2. \A j \in 1 .. N : Unforgeable(alt[j]) = Unforgeable(ch[j])
    BY <1>2, <2>1 DEF N
  <2>3. Len(alt) = N /\ N = Len(ch) /\ N \in Nat
    BY <1>1, <1>2 DEF N
  <2> QED BY <2>2, <2>3 DEF SameText
<1>13. ~(Len(alt) < Len(ch))
  BY <1>1, <1>2 DEF N
<1>14. Limits(alt, ch)
  BY <1>11, <1>12, <1>13 DEF Limits
<1> QED BY <1>14 DEF alt

\* Records dropped, swapped or repeated: only a cut at the end passes.
LEMMA DropLimits ==
    ASSUME NEW ch, NEW s, NEW h, ChainOk(ch, s, h), NEW i \in 1 .. Len(ch),
           Passed(Drop(ch, i), Signed)
    PROVE  Limits(Drop(ch, i), ch)
<1> DEFINE alt == Drop(ch, i)
           N   == Len(ch)
<1>1. IsList(ch) /\ N \in Nat /\ N # 0
  BY ListFacts DEF ChainOk
<1>2. alt = [j \in 1 .. N - 1 |-> IF j < i THEN ch[j] ELSE ch[j + 1]]
  BY DEF Drop
<1>3. N - 1 \in Nat
  BY <1>1
<1> HIDE DEF alt
<1>4. IsList(alt) /\ Len(alt) = N - 1
  <2>1. alt = [j \in 1 .. N - 1 |-> alt[j]]
    BY <1>2
  <2> HIDE DEF N
  <2> QED BY <1>3, <2>1, ListOf
<1>5. Passed(alt, Signed)
  BY DEF alt
<1>6. N # 1
  <2> SUFFICES ASSUME N = 1 PROVE FALSE
    OBVIOUS
  <2>1. alt = << >>
    BY <1>4, EmptyIsList, ListEqual
  <2> QED BY <1>5, <2>1 DEF Passed
<1> HIDE DEF N
<1>7. i = N
  <2> SUFFICES ASSUME i # N PROVE FALSE
    OBVIOUS
  <2>1. i \in 1 .. N - 1 /\ i + 1 \in 2 .. N /\ i + 1 \in 1 .. N /\ i + 1 # 1 /\ (i + 1) - 1 = i
    BY <1>1 DEF N
  <2>2. alt[i] = ch[i + 1]
    BY <1>2, <2>1
  <2>3. CASE i = 1
    <3>1. IsEvent(alt[i], "session_start")
      BY <1>4, <1>5, <2>1, <2>3 DEF Passed
    <3>2. ~IsEvent(ch[i + 1], "session_start")
      BY <2>1, Kinds DEF N
    <3> QED BY <2>2, <3>1, <3>2
  <2>4. CASE i # 1
    <3>1. i - 1 \in 1 .. N - 1 /\ i - 1 < i /\ i - 1 \in 1 .. N /\ i \in 1 .. N /\ i - 1 # i
      BY <1>1, <2>1, <2>4
    <3>2. alt[i - 1] = ch[i - 1]
      BY <1>2, <3>1
    <3>3. alt[i].parent_record_id = alt[i - 1].record_id
      BY <1>4, <1>5, <2>1, <2>4 DEF Passed
    <3>4. Linked(ch[i + 1], ch[(i + 1) - 1])
      BY <2>1 DEF ChainOk, N
    <3>5. ch[i].record_id = ch[i - 1].record_id
      BY <2>1, <2>2, <3>2, <3>3, <3>4 DEF Linked
    <3> QED BY <3>1, <3>5 DEF ChainOk, N
  <2> QED BY <2>3, <2>4
<1>8. \A j \in 1 .. N - 1 : alt[j] = ch[j]
  BY <1>1, <1>2, <1>7
<1>9. Len(alt) # 0 /\ Len(alt) \in 1 .. N - 1 /\ Len(alt) \in 1 .. N /\ Len(alt) # N
  BY <1>1, <1>4, <1>6
<1>10. SameBytes(Front(alt), ch)
  <2>1. \A j \in 1 .. Len(Front(alt)) : j \in 1 .. N - 1 /\ Front(alt)[j] = alt[j]
    BY <1>1, <1>4, <1>9, FrontTold
  <2> QED BY <1>8, <2>1 DEF SameBytes
<1>11. SameText(alt, ch)
  <2>1. Len(alt) <= Len(ch)
    BY <1>1, <1>4 DEF N
  <2> QED BY <1>4, <1>8, <2>1 DEF SameText
<1>12. ~IsClose(Last(alt))
  <2>1. Last(alt) = ch[Len(alt)]
    BY <1>8, <1>9 DEF Last
  <2> QED BY <1>9, <2>1, Kinds DEF N
<1>13. Limits(alt, ch)
  BY <1>10, <1>11, <1>12 DEF Limits
<1> QED BY <1>13 DEF alt

LEMMA SwapFails ==
    ASSUME NEW ch, NEW s, NEW h, ChainOk(ch, s, h), NEW i \in 1 .. Len(ch) - 1, NEW require
    PROVE  ~Passed(Swap(ch, i), require)
<1> DEFINE alt == Swap(ch, i)
           N   == Len(ch)
<1>0. SUFFICES ASSUME Passed(alt, require) PROVE FALSE
  OBVIOUS
<1>1. IsList(ch) /\ N \in Nat /\ DOMAIN ch = 1 .. N
  BY ListFacts DEF ChainOk
<1>2. /\ i \in 1 .. N /\ i + 1 \in 2 .. N /\ i + 1 \in 1 .. N /\ i + 1 # 1 /\ (i + 1) - 1 = i
      /\ i + 1 # i
  BY <1>1
<1>3. /\ DOMAIN alt = 1 .. N /\ alt[i] = ch[i + 1]
      /\ \A j \in 1 .. N : j # i /\ j # i + 1 => alt[j] = ch[j]
  BY <1>1, <1>2 DEF Swap
<1>4. Len(alt) = N
  <2> HIDE DEF N
  <2>1. alt = [j \in 1 .. N |-> alt[j]]
    BY <1>1, <1>3 DEF Swap
  <2> HIDE DEF alt
  <2> QED BY <1>1, <2>1, ListOf
<1> HIDE DEF alt, N
<1>5. CASE i = 1
  <2>1. IsEvent(alt[i], "session_start")
    BY <1>0, <1>2, <1>4, <1>5 DEF Passed
  <2>2. ~IsEvent(ch[i + 1], "session_start")
    BY <1>2, Kinds DEF N
  <2> QED BY <1>3, <2>1, <2>2
<1>6. CASE i # 1
  <2>1. i - 1 \in 1 .. N /\ i - 1 # i /\ i - 1 # i + 1
    BY <1>1, <1>2, <1>6
  <2>2. alt[i - 1] = ch[i - 1]
    BY <1>3, <2>1
  <2>3. alt[i].parent_record_id = alt[i - 1].record_id
    BY <1>0, <1>2, <1>4, <1>6 DEF Passed
  <2>4. Linked(ch[i + 1], ch[(i + 1) - 1])
    BY <1>2 DEF ChainOk, N
  <2>5. ch[i].record_id = ch[i - 1].record_id
    BY <1>2, <1>3, <2>2, <2>3, <2>4 DEF Linked
  <2> QED BY <1>2, <2>1, <2>5 DEF ChainOk, N
<1> QED BY <1>5, <1>6

LEMMA RepeatFails ==
    ASSUME NEW ch, NEW s, NEW h, ChainOk(ch, s, h), NEW i \in 1 .. Len(ch), NEW require
    PROVE  ~Passed(Repeat(ch, i), require)
<1> DEFINE a == SubSeq(ch, 1, i)
           b == SubSeq(ch, i, Len(ch))
           alt == Repeat(ch, i)
<1>0. SUFFICES ASSUME Passed(alt, require) PROVE FALSE
  OBVIOUS
<1>1. PICK S : ch \in Seq(S)
  BY DEF ChainOk, IsList
<1>2. Len(ch) \in Nat /\ i \in 1 .. Len(ch)
  BY <1>1
<1>3. /\ a \in Seq(S) /\ Len(a) = i /\ a[i] = ch[i]
  BY <1>1, <1>2
<1>4. /\ b \in Seq(S) /\ Len(b) = Len(ch) - i + 1 /\ b[1] = ch[i]
  BY <1>1, <1>2
<1>5. alt = a \o b /\ IsList(a) /\ IsList(b)
  BY <1>3, <1>4 DEF Repeat, IsList
<1> HIDE DEF a, b, alt
<1>6. i \in 1 .. Len(a) /\ 1 \in 1 .. Len(b) /\ Len(b) \in Nat
  BY <1>2, <1>3, <1>4
<1>7. /\ Len(alt) = i + Len(b)
      /\ alt[i] = ch[i] /\ alt[i + 1] = ch[i]
  <2>1. /\ Len(a \o b) = Len(a) + Len(b)
        /\ \A k \in 1 .. Len(a) : (a \o b)[k] = a[k]
        /\ \A k \in 1 .. Len(b) : (a \o b)[Len(a) + k] = b[k]
    BY <1>5, ListConcat
  <2>2. (a \o b)[i] = a[i] /\ (a \o b)[Len(a) + 1] = b[1]
    BY <1>3, <1>6, <2>1
  <2> QED BY <1>3, <1>4, <1>5, <2>1, <2>2
<1>8. i + 1 \in 1 .. Len(alt) /\ i \in 1 .. (i + 1) - 1
  BY <1>2, <1>6, <1>7
<1>9. alt[i].record_id # alt[i + 1].record_id
  BY <1>0, <1>8 DEF Passed
<1> QED BY <1>7, <1>9

(***************************************************************************)
(* An altered copy of a good chain that verify_chain still accepts says the *)
(* same up to where it was cut, within the declared limits (aat.py:955):    *)
(* whatever the chain went through, however long it is.                     *)
(***************************************************************************)
THEOREM TrailAlteration == TrailConstants /\ TrailSpec => []AlterationIsFound
<1> SUFFICES ASSUME TrailConstants PROVE TrailSpec => []AlterationIsFound
  OBVIOUS
<1>1. TrailInv => AlterationIsFound
  <2> SUFFICES ASSUME TrailInv, NEW s \in DOMAIN chains, NEW alt \in Altered(chains[s]),
                      VerifyChain(alt, Party(FALSE))
               PROVE  Limits(alt, chains[s])
    BY Zenon DEF AlterationIsFound, Limits
  <2> DEFINE ch == chains[s]
  <2>1. DOMAIN << >> = {}
    OBVIOUS
  <2>2. how # None
    BY <2>1 DEF TrailInv, ChainsOk
  <2>3. ChainOk(ch, s, how) /\ IsSigner(how.signer)
    BY <2>2 DEF TrailInv, ChainsOk, TrailConstants
  <2>4. Passed(alt, Signed)
    <3>1. Party(FALSE).require = Signed
      BY DEF Party
    <3> QED BY <3>1, VerifiedPassed
  <2> HIDE DEF ch
  <2>5. \/ \E i \in 1 .. Len(ch) : alt = Drop(ch, i)
        \/ \E i \in 1 .. Len(ch) - 1 : alt = Swap(ch, i)
        \/ \E i \in 1 .. Len(ch) : alt = Repeat(ch, i)
        \/ \E i \in 1 .. Len(ch) : \E r \in Edits(ch[i]) : alt = [ch EXCEPT ![i] = r]
    BY DEF Altered, ch
  <2>6. CASE \E i \in 1 .. Len(ch) : alt = Drop(ch, i)
    <3>1. PICK i \in 1 .. Len(ch) : alt = Drop(ch, i)
      BY <2>6
    <3> QED BY <2>3, <2>4, <3>1, DropLimits DEF ch
  <2>7. CASE \E i \in 1 .. Len(ch) - 1 : alt = Swap(ch, i)
    BY <2>3, <2>4, <2>7, SwapFails
  <2>8. CASE \E i \in 1 .. Len(ch) : alt = Repeat(ch, i)
    BY <2>3, <2>4, <2>8, RepeatFails
  <2>9. CASE \E i \in 1 .. Len(ch) : \E r \in Edits(ch[i]) : alt = [ch EXCEPT ![i] = r]
    <3>1. PICK i \in 1 .. Len(ch) : \E r \in Edits(ch[i]) : alt = [ch EXCEPT ![i] = r]
      BY <2>9
    <3>2. PICK r \in Edits(ch[i]) : alt = [ch EXCEPT ![i] = r]
      BY <3>1
    <3> QED BY <2>3, <2>4, <3>2, EditLimits DEF ch
  <2> QED BY <2>5, <2>6, <2>7, <2>8, <2>9
<1>2. TrailSpec => []TrailInv
  BY TrailInvAlways
<1> QED BY <1>1, <1>2, PTL

-----------------------------------------------------------------------------
(* Different leaves, different roots                                        *)

LEMMA RootsDiffer ==
    ASSUME NEW a, IsList(a), NEW b, IsList(b), Len(a) = Len(b), Len(a) # 0,
           MerkleRoot(a) = MerkleRoot(b)
    PROVE  a = b
<1> DEFINE N == Len(a)
           Same(lo, c) == SubtreeRoot(a, lo, c) = SubtreeRoot(b, lo, c)
           Holds == {c \in 1 .. N : \A lo \in 0 .. N - c :
                        Same(lo, c) => \A i \in lo .. lo + c - 1 : a[i + 1] = b[i + 1]}
<1>1. N \in Nat /\ N \in 1 .. N /\ 0 \in 0 .. N - N
  BY ListFacts
<1>2. ASSUME NEW c \in 1 .. N, \A d \in 1 .. (c - 1) : d \in Holds
      PROVE  c \in Holds
  <2> SUFFICES ASSUME NEW lo \in 0 .. N - c, Same(lo, c), NEW i \in lo .. lo + c - 1
               PROVE  a[i + 1] = b[i + 1]
    OBVIOUS
  <2>1. CASE c = 1
    <3>1. i = lo /\ lo \in 0 .. Len(a) - 1 /\ lo \in 0 .. Len(b) - 1
      BY <1>1, <2>1
    <3> QED BY <2>1, <3>1, RootOfPart
  <2>2. CASE c # 1
    <3> DEFINE k == Split(c)
    <3>1. c \in 2 .. N /\ c \in Nat /\ c >= 2
      BY <1>1, <2>2
    <3>2. k \in 1 .. c - 1
      BY <3>1, SplitBounds
    <3>3. /\ SubtreeRoot(a, lo, c) = Node(SubtreeRoot(a, lo, k), SubtreeRoot(a, lo + k, c - k))
          /\ SubtreeRoot(b, lo, c) = Node(SubtreeRoot(b, lo, k), SubtreeRoot(b, lo + k, c - k))
      BY <3>1, RootOfPart
    <3> HIDE DEF k
    <3>4. Same(lo, k) /\ Same(lo + k, c - k)
      <4>1. Node(SubtreeRoot(a, lo, k), SubtreeRoot(a, lo + k, c - k))
              = Node(SubtreeRoot(b, lo, k), SubtreeRoot(b, lo + k, c - k))
        BY <3>3
      <4> QED BY <4>1 DEF Node
    <3>5. /\ k \in 1 .. (c - 1) /\ lo \in 0 .. N - k
          /\ c - k \in 1 .. (c - 1) /\ lo + k \in 0 .. N - (c - k)
      BY <1>1, <3>1, <3>2
    <3>6. k \in Holds /\ c - k \in Holds
      BY <1>2, <3>5
    <3>7. \/ i \in lo .. lo + k - 1
          \/ i \in (lo + k) .. (lo + k) + (c - k) - 1
      BY <1>1, <3>1, <3>2
    <3> QED BY <3>4, <3>5, <3>6, <3>7
  <2> QED BY <2>1, <2>2
<1>3. \A c \in 1 .. N : c \in Holds
  <2> HIDE DEF Holds, N
  <2> QED BY <1>1, <1>2, FromBelow
<1>4. Same(0, N)
  BY DEF MerkleRoot
<1>5. \A i \in 0 .. 0 + N - 1 : a[i + 1] = b[i + 1]
  BY <1>1, <1>3, <1>4
<1>6. ASSUME NEW i \in 1 .. N PROVE a[i] = b[i]
  <2>1. i - 1 \in 0 .. 0 + N - 1 /\ (i - 1) + 1 = i
    BY <1>1
  <2> QED BY <1>5, <2>1
<1> QED BY <1>6, ListEqual
-----------------------------------------------------------------------------
(* What an epoch and its anchor are                                         *)

\* The leaves of an epoch, from the hashes it was anchored over.
LeavesOf(L) == [k \in 1 .. Len(L) |-> LeafHash(L[k])]

LEMMA LeavesOfList ==
    ASSUME NEW L, IsList(L)
    PROVE  /\ IsList(LeavesOf(L)) /\ Len(LeavesOf(L)) = Len(L) /\ Len(L) \in Nat
           /\ \A k \in 1 .. Len(L) : LeavesOf(L)[k] = LeafHash(L[k])
<1> DEFINE ls == LeavesOf(L)
           N  == Len(L)
<1>1. N \in Nat
  BY ListFacts
<1>2. ls = [k \in 1 .. N |-> LeafHash(L[k])]
  BY DEF LeavesOf
<1> HIDE DEF ls, N
<1>3. ls = [k \in 1 .. N |-> ls[k]] /\ \A k \in 1 .. N : ls[k] = LeafHash(L[k])
  BY <1>2
<1>4. IsList(ls) /\ Len(ls) = N
  BY <1>1, <1>3, ListOf
<1> QED BY <1>1, <1>3, <1>4 DEF ls, N

\* An anchor over the hashes L, which are all different.
IsAnchor(a, L) ==
    /\ IsList(L) /\ Len(L) # 0
    /\ \A k, l \in 1 .. Len(L) : L[k] = L[l] => k = l
    /\ a.leaf_count = Len(L)
    /\ a.merkle_root = MerkleRoot(LeavesOf(L))
    /\ "tsa" \in DOMAIN a => /\ a.tsa.imprint = Imprint(a.merkle_root)
                             /\ a.tsa.token = Token(Imprint(a.merkle_root), Genuine)

\* Epochs are numbered by the calls: no two anchors are of one epoch.
AnchorsAre(anch, seals, count) ==
    /\ DOMAIN seals = Anchored(anch)
    /\ \A a, b \in anch : a.epoch_id = b.epoch_id => a = b
    /\ \A a \in anch : a.epoch_id \in 0 .. count - 1 /\ IsAnchor(a, seals[a.epoch_id])

\* The record is the leaf number k of an epoch over L.
LeafIn(r, L, k) == k + 1 \in 1 .. Len(L) /\ L[k + 1] = RecordHash(r)

\* The batch object anchor_epoch gave a record: of an epoch that has an anchor,
\* it says which leaf the record is.
BatchIs(r, seals, count) ==
    "batch" \in DOMAIN r =>
      /\ r.batch.epoch_id \in 0 .. count - 1
      /\ r.batch.leaf_index \in Nat
      /\ DOMAIN r.batch = {"epoch_id", "merkle_root", "leaf_index", "inclusion_proof"}
      /\ r.batch.epoch_id \in DOMAIN seals =>
           /\ LeafIn(r, seals[r.batch.epoch_id], r.batch.leaf_index)
           /\ r.batch.merkle_root = MerkleRoot(LeavesOf(seals[r.batch.epoch_id]))
           /\ r.batch.inclusion_proof
                = AuditPaths(LeavesOf(seals[r.batch.epoch_id]))[r.batch.leaf_index + 1]

\* What a relying party may be handed instead: a record with a batch object of
\* an epoch, its proof (if it has one) of some leaf there, of its own if the
\* record is the leaf it says.
Handed(r, seals) ==
    /\ "batch" \in DOMAIN r
    /\ r.batch.epoch_id \in DOMAIN seals
    => /\ r.batch.leaf_index \in Nat
       /\ r.batch.merkle_root = MerkleRoot(LeavesOf(seals[r.batch.epoch_id]))
       /\ \/ Proof(r) = None
          \/ \E k \in 0 .. Len(seals[r.batch.epoch_id]) - 1 :
               /\ Proof(r) = AuditPaths(LeavesOf(seals[r.batch.epoch_id]))[k + 1]
               /\ LeafIn(r, seals[r.batch.epoch_id], r.batch.leaf_index)
                    => r.batch.leaf_index = k

LEMMA LeafInIs ==
    ASSUME NEW r, r.batch.epoch_id \in DOMAIN sealed => IsList(sealed[r.batch.epoch_id])
    PROVE  IsLeaf(r) <=> /\ r.batch.epoch_id \in DOMAIN sealed
                         /\ LeafIn(r, sealed[r.batch.epoch_id], r.batch.leaf_index)
<1>1. r.batch.epoch_id \in DOMAIN sealed =>
        DOMAIN sealed[r.batch.epoch_id] = 1 .. Len(sealed[r.batch.epoch_id])
  BY ListFacts
<1> QED BY <1>1 DEF IsLeaf, LeafIn

\* The anchor of an epoch, and no conflict.
LEMMA AnchorIs ==
    ASSUME AnchorsAre(anchors, sealed, calls)
    PROVE  /\ ConflictProblems(anchors) = {}
           /\ \A eid \in DOMAIN sealed : /\ AnchorOf(anchors, eid) \in anchors
                                         /\ IsAnchor(AnchorOf(anchors, eid), sealed[eid])
<1>1. ConflictProblems(anchors) = {}
  BY DEF ConflictProblems, If, AnchorsAre
<1>2. ASSUME NEW eid \in DOMAIN sealed
      PROVE  AnchorOf(anchors, eid) \in anchors /\ IsAnchor(AnchorOf(anchors, eid), sealed[eid])
  <2>1. \E a \in anchors : a.epoch_id = eid
    BY DEF AnchorsAre, Anchored
  <2>2. AnchorOf(anchors, eid) \in anchors /\ AnchorOf(anchors, eid).epoch_id = eid
    BY <2>1 DEF AnchorOf
  <2> QED BY <2>2 DEF AnchorsAre
<1> QED BY <1>1, <1>2

\* The tokens are those the TSA gave, and verify on a host that runs the check.
LEMMA TokensGood ==
    ASSUME TrailConstants, AnchorsAre(anchors, sealed, calls), NEW fit \in BOOLEAN
    PROVE  VerifyEpochs(fit, anchors, Good, Genuine) = "ok" <=> fit
<1>1. ASSUME NEW a \in anchors
      PROVE  /\ TsaVerdict(a, Good, Genuine) \in {"none", "good"}
             /\ "tsa" \in DOMAIN a => a.tsa.imprint = Imprint(a.merkle_root)
  <2>1. IsAnchor(a, sealed[a.epoch_id])
    BY DEF AnchorsAre
  <2> DEFINE d == Imprint(a.merkle_root)
  <2>2. Token(d, Genuine) # Garbage
    <3>1. Token(d, Genuine).authority = Genuine /\ Garbage.authority = None
      BY DEF Token, Garbage
    <3> QED BY <3>1 DEF TrailConstants
  <2> HIDE DEF d
  <2>3. VerifyToken(Good, Token(d, Genuine), d, Genuine) = "good"
    BY <2>2 DEF VerifyToken, Good, TrailConstants
  <2> QED BY <2>1, <2>3 DEF IsAnchor, TsaVerdict, d
<1>2. TsaProblems(anchors, Good, Genuine) = {}
  BY <1>1 DEF TsaProblems, If
<1>3. ~ \E a \in anchors : TsaVerdict(a, Good, Genuine) = "not_run"
  BY <1>1
<1> QED BY <1>2, <1>3 DEF VerifyEpochs

-----------------------------------------------------------------------------
(* What verify_epochs answers                                               *)

\* The proof of a record that is the leaf it says passes, and only that.
LEMMA ProofTold ==
    ASSUME NEW r, "batch" \in DOMAIN r, NEW L, IsList(L), Len(L) # 0, NEW seals,
           r.batch.epoch_id \in DOMAIN seals, L = seals[r.batch.epoch_id], Handed(r, seals)
    PROVE  /\ r.batch.leaf_index \in Nat
           /\ r.batch.merkle_root = MerkleRoot(LeavesOf(L))
           /\ LeafIn(r, L, r.batch.leaf_index) => /\ r.batch.leaf_index \in 0 .. Len(L) - 1
                                                  /\ Leaf(r) = LeavesOf(L)[r.batch.leaf_index + 1]
           /\ Proof(r) # None =>
                (/\ RootFromPath(Leaf(r), Proof(r)) = MerkleRoot(LeavesOf(L))
                 /\ IndexFromPath(Proof(r), Len(L)) = r.batch.leaf_index)
                <=> LeafIn(r, L, r.batch.leaf_index)
<1> DEFINE ls   == LeavesOf(L)
           N    == Len(L)
           root == MerkleRoot(ls)
           x    == r.batch.leaf_index
<1>1. IsList(ls) /\ Len(ls) = N /\ N \in Nat /\ \A k \in 1 .. N : ls[k] = LeafHash(L[k])
  BY LeavesOfList
<1>2. /\ x \in Nat /\ r.batch.merkle_root = root
      /\ \/ Proof(r) = None
         \/ \E k \in 0 .. N - 1 : /\ Proof(r) = AuditPaths(ls)[k + 1]
                                  /\ LeafIn(r, L, x) => x = k
  BY DEF Handed
<1> HIDE DEF ls, N, root, x
<1>3. LeafIn(r, L, x) => x \in 0 .. N - 1 /\ Leaf(r) = ls[x + 1]
  <2> SUFFICES ASSUME LeafIn(r, L, x) PROVE x \in 0 .. N - 1 /\ Leaf(r) = ls[x + 1]
    OBVIOUS
  <2>1. x + 1 \in 1 .. N /\ L[x + 1] = RecordHash(r)
    BY DEF LeafIn, N
  <2>2. ls[x + 1] = LeafHash(RecordHash(r))
    BY <1>1, <2>1
  <2> QED BY <1>1, <1>2, <2>1, <2>2 DEF Leaf
<1>4. ASSUME Proof(r) # None
      PROVE  (RootFromPath(Leaf(r), Proof(r)) = root /\ IndexFromPath(Proof(r), N) = x)
               <=> LeafIn(r, L, x)
  <2>1. PICK k \in 0 .. N - 1 : /\ Proof(r) = AuditPaths(ls)[k + 1]
                                /\ LeafIn(r, L, x) => x = k
    BY <1>2, <1>4
  <2>2. k + 1 \in 1 .. N /\ (k + 1) - 1 = k
    BY <1>1
  <2>3. /\ IsList(Proof(r)) /\ IndexFromPath(Proof(r), N) = k
        /\ RootFromPath(ls[k + 1], Proof(r)) = root
    BY <1>1, <2>1, <2>2, PathFacts DEF root
  <2>4. ASSUME RootFromPath(Leaf(r), Proof(r)) = root, IndexFromPath(Proof(r), N) = x
        PROVE  LeafIn(r, L, x)
    <3>1. Leaf(r) = ls[k + 1] /\ x = k
      BY <2>3, <2>4, PathIsOneLeafs
    <3>2. LeafHash(RecordHash(r)) = LeafHash(L[k + 1])
      BY <1>1, <2>2, <3>1 DEF Leaf
    <3>3. RecordHash(r) = L[k + 1]
      BY <3>2 DEF LeafHash
    <3> QED BY <2>2, <3>1, <3>3 DEF LeafIn, N
  <2>5. ASSUME LeafIn(r, L, x)
        PROVE  RootFromPath(Leaf(r), Proof(r)) = root /\ IndexFromPath(Proof(r), N) = x
    BY <1>3, <2>1, <2>3, <2>5
  <2> QED BY <2>4, <2>5
<1> QED BY <1>2, <1>3, <1>4 DEF ls, N, root, x

\* A batch object without a problem is of an anchored epoch, and the record
\* that carries a proof is its leaf.
LEMMA BatchSound ==
    ASSUME AnchorsAre(anchors, sealed, calls), NEW recs, NEW i \in InBatch(recs),
           Handed(recs[i], sealed), BatchProblems(recs, anchors, i) = {}
    PROVE  /\ recs[i].batch.epoch_id \in DOMAIN sealed
           /\ Proof(recs[i]) # None => IsLeaf(recs[i])
<1> DEFINE r   == recs[i]
           eid == r.batch.epoch_id
           a   == AnchorOf(anchors, eid)
           L   == sealed[eid]
<1>1. "batch" \in DOMAIN r
  BY DEF InBatch
<1>2. eid \in DOMAIN sealed
  BY <1>1 DEF BatchProblems, AnchorsAre
<1>3. IsAnchor(a, L)
  BY <1>2, AnchorIs
<1>4. Proof(r) # None => /\ RootFromPath(Leaf(r), Proof(r)) = r.batch.merkle_root
                         /\ IndexFromPath(Proof(r), a.leaf_count) = r.batch.leaf_index
  <2>1. eid \in Anchored(anchors)
    BY <1>2 DEF AnchorsAre
  <2>2. /\ If(Proof(r) # None /\ RootFromPath(Leaf(r), Proof(r)) # r.batch.merkle_root,
              "proof does not lead to merkle_root") = {}
        /\ If(/\ Proof(r) # None
              /\ RootFromPath(Leaf(r), Proof(r)) = r.batch.merkle_root
              /\ IndexFromPath(Proof(r), a.leaf_count) # r.batch.leaf_index,
              "proof proves another leaf index") = {}
    BY <1>1, <2>1 DEF BatchProblems
  <2> QED BY <2>2 DEF If
<1>5. IsList(L) /\ Len(L) # 0 /\ a.leaf_count = Len(L)
  BY <1>3 DEF IsAnchor
<1> HIDE DEF r, L, a
<1>6. /\ r.batch.merkle_root = MerkleRoot(LeavesOf(L))
      /\ Proof(r) # None =>
           (/\ RootFromPath(Leaf(r), Proof(r)) = MerkleRoot(LeavesOf(L))
            /\ IndexFromPath(Proof(r), Len(L)) = r.batch.leaf_index)
           <=> LeafIn(r, L, r.batch.leaf_index)
  <2>1. Handed(r, sealed) /\ L = sealed[r.batch.epoch_id] /\ r.batch.epoch_id \in DOMAIN sealed
    BY <1>2 DEF r, L
  <2> QED BY <1>1, <1>5, <2>1, ProofTold
<1>7. Proof(r) # None => LeafIn(r, L, r.batch.leaf_index)
  BY <1>4, <1>5, <1>6
<1>8. Proof(r) # None => IsLeaf(r)
  BY <1>2, <1>5, <1>7, LeafInIs DEF r, L
<1> QED BY <1>2, <1>8 DEF r

\* Among records that are the leaves they say, none has a problem.
LEMMA BatchComplete ==
    ASSUME AnchorsAre(anchors, sealed, calls), NEW recs,
           \A i \in 1 .. Len(recs) : Handed(recs[i], sealed),
           \A i \in InBatch(recs) : IsLeaf(recs[i]),
           NEW i \in 1 .. Len(recs)
    PROVE  BatchProblems(recs, anchors, i) = {}
<1>1. CASE "batch" \notin DOMAIN recs[i]
  BY <1>1 DEF BatchProblems
<1>2. CASE "batch" \in DOMAIN recs[i]
  <2> DEFINE eid == recs[i].batch.epoch_id
             a   == AnchorOf(anchors, eid)
             L   == sealed[eid]
  <2>1. i \in InBatch(recs) /\ eid \in DOMAIN sealed
    BY <1>2 DEF InBatch, IsLeaf
  <2>2. IsAnchor(a, L)
    BY <2>1, AnchorIs
  <2>3. /\ IsList(L) /\ Len(L) # 0 /\ a.leaf_count = Len(L)
        /\ a.merkle_root = MerkleRoot(LeavesOf(L)) /\ Len(L) \in Nat
    BY <2>2, ListFacts DEF IsAnchor
  <2> HIDE DEF a
  <2>4. ASSUME NEW j \in InBatch(recs), recs[j].batch.epoch_id = eid
        PROVE  LeafIn(recs[j], L, recs[j].batch.leaf_index)
    BY <2>1, <2>3, <2>4, LeafInIs
  <2>5. /\ recs[i].batch.leaf_index \in Nat
        /\ recs[i].batch.merkle_root = MerkleRoot(LeavesOf(L))
        /\ recs[i].batch.leaf_index \in 0 .. Len(L) - 1
        /\ Proof(recs[i]) # None =>
             /\ RootFromPath(Leaf(recs[i]), Proof(recs[i])) = MerkleRoot(LeavesOf(L))
             /\ IndexFromPath(Proof(recs[i]), Len(L)) = recs[i].batch.leaf_index
    <3> DEFINE r == recs[i]
    <3>1. LeafIn(r, L, r.batch.leaf_index)
      BY <2>1, <2>4
    <3>2. "batch" \in DOMAIN r /\ Handed(r, sealed) /\ r.batch.epoch_id \in DOMAIN sealed
          /\ L = sealed[r.batch.epoch_id]
      BY <1>2, <2>1
    <3> HIDE DEF r, L
    <3>3. /\ r.batch.leaf_index \in Nat
          /\ r.batch.merkle_root = MerkleRoot(LeavesOf(L))
          /\ LeafIn(r, L, r.batch.leaf_index) => r.batch.leaf_index \in 0 .. Len(L) - 1
          /\ Proof(r) # None =>
                (/\ RootFromPath(Leaf(r), Proof(r)) = MerkleRoot(LeavesOf(L))
                 /\ IndexFromPath(Proof(r), Len(L)) = r.batch.leaf_index)
                <=> LeafIn(r, L, r.batch.leaf_index)
      BY <2>3, <3>2, ProofTold
    <3> QED BY <3>1, <3>3 DEF r
  <2>6. ASSUME NEW j \in Judged(recs, anchors, eid),
               recs[j].batch.leaf_index = recs[i].batch.leaf_index
        PROVE  Leaf(recs[j]) = Leaf(recs[i])
    <3>1. j \in InBatch(recs) /\ recs[j].batch.epoch_id = eid
      BY <2>6 DEF Judged, InBatch
    <3>2. RecordHash(recs[j]) = RecordHash(recs[i])
      BY <2>1, <2>4, <2>6, <3>1 DEF LeafIn
    <3> QED BY <3>2 DEF Leaf
  <2>7. eid \in Anchored(anchors)
    BY <2>1 DEF AnchorsAre
  <2>8. ~ (recs[i].batch.leaf_index >= a.leaf_count)
    BY <2>3, <2>5
  <2> HIDE DEF L
  <2>9. /\ a.merkle_root = recs[i].batch.merkle_root
        /\ Proof(recs[i]) # None =>
             /\ RootFromPath(Leaf(recs[i]), Proof(recs[i])) = recs[i].batch.merkle_root
             /\ IndexFromPath(Proof(recs[i]), a.leaf_count) = recs[i].batch.leaf_index
    BY <2>3, <2>5
  <2> QED BY <1>2, <2>6, <2>7, <2>8, <2>9 DEF BatchProblems, If, a
<1> QED BY <1>1, <1>2

\* The indexes the judged records claim.
IndexesOf(recs, eid) == {recs[i].batch.leaf_index : i \in Judged(recs, anchors, eid)}

\* The leaf at a claimed index is that of a record which claims it.
LEMMA LeafAtTold ==
    ASSUME NEW recs, Len(recs) \in Nat, NEW eid, NEW x \in IndexesOf(recs, eid)
    PROVE  \E i \in Judged(recs, anchors, eid) :
              /\ recs[i].batch.leaf_index = x
              /\ LeafAt(recs, Judged(recs, anchors, eid), x) = Leaf(recs[i])
<1> DEFINE judged == Judged(recs, anchors, eid)
           N      == Len(recs)
           at     == {i \in judged : recs[i].batch.leaf_index = x}
           proven == {i \in at : Proof(recs[i]) # None}
<1>1. judged \subseteq 1 .. N /\ at \subseteq 1 .. N /\ proven \subseteq at
  BY DEF Judged
<1>2. at # {}
  BY DEF IndexesOf
<1>3. LeafAt(recs, judged, x)
        = IF proven # {} THEN Leaf(recs[CHOOSE i \in proven : \A j \in proven : j <= i])
                         ELSE Leaf(recs[CHOOSE i \in at : \A j \in at : i <= j])
  BY DEF LeafAt
<1>4. \A i \in at : i \in judged /\ recs[i].batch.leaf_index = x
  OBVIOUS
<1> HIDE DEF judged, at, proven, N
<1>5. CASE proven # {}
  <2> DEFINE T == {n \in Nat : \E i \in proven : n = N - i}
  <2>1. \E n \in T : \A m \in T : n <= m
    <3>1. PICK i \in proven : TRUE
      BY <1>5
    <3>2. N - i \in T
      BY <1>1, <3>1 DEF N
    <3>3. T \subseteq Nat /\ T # {}
      BY <3>2
    <3> HIDE DEF T
    <3> QED BY <3>3, LeastNat
  <2>2. PICK n \in T : \A m \in T : n <= m
    BY <2>1
  <2>3. PICK i \in proven : n = N - i
    BY <2>2
  <2>4. \A j \in proven : j <= i
    <3> SUFFICES ASSUME NEW j \in proven PROVE j <= i
      OBVIOUS
    <3>1. i \in 1 .. N /\ j \in 1 .. N /\ N \in Nat
      BY <1>1 DEF N
    <3>2. N - j \in T
      BY <3>1
    <3>3. N - i <= N - j
      BY <2>2, <2>3, <3>2
    <3> QED BY <3>1, <3>3
  <2>5. (CHOOSE k \in proven : \A j \in proven : j <= k) \in proven
    BY <2>4
  <2> QED BY <1>1, <1>3, <1>4, <1>5, <2>5 DEF judged
<1>6. CASE proven = {}
  <2>1. at \subseteq Nat
    BY <1>1 DEF N
  <2>2. \E i \in at : \A j \in at : i <= j
    BY <1>2, <2>1, LeastNat
  <2>3. (CHOOSE i \in at : \A j \in at : i <= j) \in at
    BY <2>2
  <2> QED BY <1>3, <1>4, <1>6, <2>3 DEF judged
<1> QED BY <1>5, <1>6

\* The leaves an epoch is rebuilt from, as a list.
LEMMA RebuiltList ==
    ASSUME NEW recs, NEW judged, NEW n \in Nat
    PROVE  /\ IsList([k \in 1 .. n |-> LeafAt(recs, judged, k - 1)])
           /\ Len([k \in 1 .. n |-> LeafAt(recs, judged, k - 1)]) = n
<1> DEFINE s == [k \in 1 .. n |-> LeafAt(recs, judged, k - 1)]
<1>1. s = [k \in 1 .. n |-> s[k]]
  OBVIOUS
<1> HIDE DEF s
<1>2. IsList(s) /\ Len(s) = n
  BY <1>1, ListOf
<1> QED BY <1>2 DEF s

\* A record without a proof passes only in a whole epoch, as the leaf it says.
LEMMA EpochSound ==
    ASSUME AnchorsAre(anchors, sealed, calls), NEW recs, NEW i \in InBatch(recs),
           Handed(recs[i], sealed), recs[i].batch.epoch_id \in DOMAIN sealed,
           Proof(recs[i]) = None, NEW complete,
           EpochProblems(recs, anchors, recs[i].batch.epoch_id, complete) = {}
    PROVE  IsLeaf(recs[i])
<1> DEFINE eid     == recs[i].batch.epoch_id
           x       == recs[i].batch.leaf_index
           a       == AnchorOf(anchors, eid)
           L       == sealed[eid]
           n       == Len(L)
           judged  == Judged(recs, anchors, eid)
           indexes == {recs[j].batch.leaf_index : j \in judged}
           bare    == {j \in judged : Proof(recs[j]) = None}
           built   == [k \in 1 .. a.leaf_count |-> LeafAt(recs, judged, k - 1)]
           whole   == indexes = 0 .. a.leaf_count - 1
<1>1. IsAnchor(a, L)
  BY AnchorIs
<1>2. /\ IsList(L) /\ n # 0 /\ n \in Nat
      /\ a.leaf_count = n /\ a.merkle_root = MerkleRoot(LeavesOf(L))
  BY <1>1, ListFacts DEF IsAnchor
<1>3. i \in judged /\ i \in bare
  BY DEF InBatch, Judged, AnchorsAre
<1>4. /\ If(/\ whole /\ MerkleRoot(built) = a.merkle_root
            /\ \E j \in bare : Leaf(recs[j]) # LeafAt(recs, judged, recs[j].batch.leaf_index),
            "record without a proof is not the leaf") = {}
      /\ If(bare # {} /\ ~ (whole /\ MerkleRoot(built) = a.merkle_root),
            "membership not verifiable") = {}
  BY DEF EpochProblems
<1>5. whole /\ MerkleRoot(built) = a.merkle_root /\ Leaf(recs[i]) = LeafAt(recs, judged, x)
  <2> HIDE DEF whole, bare, built, judged, a
  <2> QED BY <1>3, <1>4 DEF If
<1>6. x \in 0 .. n - 1
  BY <1>2, <1>3, <1>5
<1>7. built = LeavesOf(L)
  <2>1. IsList(built) /\ Len(built) = n
    <3>1. built = [k \in 1 .. n |-> LeafAt(recs, judged, k - 1)] /\ n \in Nat
      BY <1>2
    <3> HIDE DEF a, n, judged, built
    <3> QED BY <3>1, RebuiltList
  <2>2. IsList(LeavesOf(L)) /\ Len(LeavesOf(L)) = n
    BY <1>2, LeavesOfList
  <2>3. MerkleRoot(built) = MerkleRoot(LeavesOf(L))
    BY <1>2, <1>5
  <2> HIDE DEF built, L
  <2> QED BY <1>2, <2>1, <2>2, <2>3, RootsDiffer
<1>8. LeafHash(RecordHash(recs[i])) = LeafHash(L[x + 1])
  <2>1. x + 1 \in 1 .. n /\ (x + 1) - 1 = x
    BY <1>2, <1>6
  <2>2. built[x + 1] = LeafAt(recs, judged, x)
    <3> HIDE DEF judged, a
    <3> QED BY <1>2, <2>1
  <2>3. LeavesOf(L)[x + 1] = LeafHash(L[x + 1])
    BY <1>2, <2>1, LeavesOfList
  <2> QED BY <1>5, <1>7, <2>2, <2>3 DEF Leaf
<1>9. LeafIn(recs[i], L, x)
  <2>1. RecordHash(recs[i]) = L[x + 1]
    BY <1>8 DEF LeafHash
  <2> QED BY <1>2, <1>6, <2>1 DEF LeafIn
<1> QED BY <1>2, <1>9, LeafInIs

\* Records that are the leaves they say claim indexes of the epoch; all of them
\* when every leaf is there, and otherwise one is missing.
LEMMA IndexesTold ==
    ASSUME AnchorsAre(anchors, sealed, calls), NEW recs, Len(recs) \in Nat,
           \A i \in 1 .. Len(recs) : Handed(recs[i], sealed),
           \A i \in InBatch(recs) : IsLeaf(recs[i]),
           NEW eid \in DOMAIN sealed
    PROVE  /\ IndexesOf(recs, eid) \subseteq 0 .. Len(sealed[eid]) - 1
           /\ IsFiniteSet(IndexesOf(recs, eid))
           /\ \A i \in Judged(recs, anchors, eid) :
                LeafIn(recs[i], sealed[eid], recs[i].batch.leaf_index)
           /\ (IndexesOf(recs, eid) = 0 .. Len(sealed[eid]) - 1) <=>
                \A k \in DOMAIN sealed[eid] : \E i \in InBatch(recs) :
                   /\ recs[i].batch.epoch_id = eid
                   /\ recs[i].batch.leaf_index = k - 1
                   /\ RecordHash(recs[i]) = sealed[eid][k]
           /\ Cardinality(IndexesOf(recs, eid)) >= Len(sealed[eid])
                <=> IndexesOf(recs, eid) = 0 .. Len(sealed[eid]) - 1
           /\ Cardinality(IndexesOf(recs, eid)) <= Len(sealed[eid])
<1> DEFINE L       == sealed[eid]
           n       == Len(L)
           judged  == Judged(recs, anchors, eid)
           indexes == IndexesOf(recs, eid)
<1>1. IsAnchor(AnchorOf(anchors, eid), L)
  BY AnchorIs
<1>2. IsList(L) /\ n # 0 /\ n \in Nat /\ DOMAIN L = 1 .. n
  BY <1>1, ListFacts DEF IsAnchor
<1>3. \A i : i \in judged <=> i \in InBatch(recs) /\ recs[i].batch.epoch_id = eid
  BY DEF Judged, InBatch, AnchorsAre
<1>4. ASSUME NEW i \in judged
      PROVE  /\ LeafIn(recs[i], L, recs[i].batch.leaf_index)
             /\ recs[i].batch.leaf_index \in 0 .. n - 1
  <2>1. i \in InBatch(recs) /\ recs[i].batch.epoch_id = eid
    BY <1>3, <1>4
  <2>2. LeafIn(recs[i], L, recs[i].batch.leaf_index)
    BY <1>2, <2>1, LeafInIs
  <2>3. Handed(recs[i], sealed) /\ "batch" \in DOMAIN recs[i]
    BY <2>1 DEF InBatch
  <2>4. recs[i].batch.leaf_index \in Nat
    BY <2>1, <2>3 DEF Handed
  <2> QED BY <1>2, <2>2, <2>4 DEF LeafIn
<1>5. indexes = {recs[i].batch.leaf_index : i \in judged}
  BY DEF IndexesOf
<1> HIDE DEF L, n, judged, indexes
<1>6. indexes \subseteq 0 .. n - 1
  BY <1>4, <1>5
<1>7. IsFiniteSet(0 .. n - 1) /\ Cardinality(0 .. n - 1) = n
  <2>1. 0 \in Int /\ n - 1 \in Int
    BY <1>2
  <2>2. IsFiniteSet(0 .. n - 1)
        /\ Cardinality(0 .. n - 1) = IF 0 > n - 1 THEN 0 ELSE (n - 1) - 0 + 1
    BY <2>1, FS_Interval
  <2> QED BY <1>2, <2>2
<1>8. /\ IsFiniteSet(indexes) /\ Cardinality(indexes) <= n
      /\ Cardinality(indexes) = n => indexes = 0 .. n - 1
      /\ Cardinality(indexes) \in Nat
  <2> DEFINE all == 0 .. n - 1
  <2>1. indexes \in SUBSET all /\ IsFiniteSet(all) /\ Cardinality(all) = n
    BY <1>6, <1>7
  <2> HIDE DEF all
  <2>2. /\ IsFiniteSet(indexes) /\ Cardinality(indexes) <= Cardinality(all)
        /\ Cardinality(all) = Cardinality(indexes) => all = indexes
    BY <2>1, FS_Subset
  <2>3. Cardinality(indexes) \in Nat
    BY <2>2, FS_CardinalityType
  <2> QED BY <2>1, <2>2, <2>3 DEF all
<1>9. Cardinality(indexes) >= n <=> indexes = 0 .. n - 1
  BY <1>2, <1>7, <1>8
<1>10. ASSUME indexes = 0 .. n - 1, NEW k \in DOMAIN L
       PROVE  \E i \in InBatch(recs) : /\ recs[i].batch.epoch_id = eid
                                       /\ recs[i].batch.leaf_index = k - 1
                                       /\ RecordHash(recs[i]) = L[k]
  <2>1. k \in 1 .. n /\ k - 1 \in 0 .. n - 1 /\ (k - 1) + 1 = k
    BY <1>2, <1>10
  <2>2. PICK i \in judged : recs[i].batch.leaf_index = k - 1
    BY <1>5, <1>10, <2>1
  <2>3. L[k] = RecordHash(recs[i])
    BY <1>4, <2>1, <2>2 DEF LeafIn
  <2> QED BY <1>3, <2>2, <2>3
<1>11. ASSUME \A k \in DOMAIN L : \E i \in InBatch(recs) : /\ recs[i].batch.epoch_id = eid
                                                           /\ recs[i].batch.leaf_index = k - 1
                                                           /\ RecordHash(recs[i]) = L[k],
              NEW x \in 0 .. n - 1
       PROVE  x \in indexes
  <2>1. x + 1 \in DOMAIN L /\ (x + 1) - 1 = x
    BY <1>2, <1>11
  <2>2. PICK i \in InBatch(recs) : /\ recs[i].batch.epoch_id = eid
                                   /\ recs[i].batch.leaf_index = (x + 1) - 1
    BY <1>11, <2>1
  <2> QED BY <1>3, <1>5, <2>1, <2>2
<1>12. indexes = 0 .. n - 1 <=>
         \A k \in DOMAIN L : \E i \in InBatch(recs) : /\ recs[i].batch.epoch_id = eid
                                                      /\ recs[i].batch.leaf_index = k - 1
                                                      /\ RecordHash(recs[i]) = L[k]
  BY <1>6, <1>10, <1>11
<1> QED BY <1>4, <1>6, <1>8, <1>9, <1>12 DEF L, n, judged, indexes

\* A whole epoch of the records it was anchored over has no problem.
LEMMA EpochComplete ==
    ASSUME AnchorsAre(anchors, sealed, calls), NEW recs, Len(recs) \in Nat,
           \A i \in 1 .. Len(recs) : Handed(recs[i], sealed),
           \A i \in InBatch(recs) : IsLeaf(recs[i]),
           NEW eid \in DOMAIN sealed, NEW complete,
           IndexesOf(recs, eid) = 0 .. Len(sealed[eid]) - 1
    PROVE  EpochProblems(recs, anchors, eid, complete) = {}
<1> DEFINE a       == AnchorOf(anchors, eid)
           L       == sealed[eid]
           n       == Len(L)
           judged  == Judged(recs, anchors, eid)
           indexes == {recs[j].batch.leaf_index : j \in judged}
           bare    == {j \in judged : Proof(recs[j]) = None}
           built   == [k \in 1 .. a.leaf_count |-> LeafAt(recs, judged, k - 1)]
<1>1. IsAnchor(a, L)
  BY AnchorIs
<1>2. /\ IsList(L) /\ n # 0 /\ n \in Nat
      /\ a.leaf_count = n /\ a.merkle_root = MerkleRoot(LeavesOf(L))
  BY <1>1, ListFacts DEF IsAnchor
<1>3. indexes = 0 .. a.leaf_count - 1
  BY <1>2 DEF IndexesOf
<1>4. Cardinality(indexes) = n
  <2>1. /\ Cardinality(IndexesOf(recs, eid)) >= n /\ Cardinality(IndexesOf(recs, eid)) <= n
        /\ IsFiniteSet(IndexesOf(recs, eid))
    BY IndexesTold
  <2>2. Cardinality(IndexesOf(recs, eid)) \in Nat
    BY <2>1, FS_CardinalityType
  <2>3. Cardinality(IndexesOf(recs, eid)) = n
    BY <1>2, <2>1, <2>2
  <2> QED BY <2>3 DEF IndexesOf
<1>5. \A j \in judged : LeafIn(recs[j], L, recs[j].batch.leaf_index)
  BY IndexesTold
<1>6. ASSUME NEW x \in indexes
      PROVE  x + 1 \in 1 .. n /\ LeafAt(recs, judged, x) = LeafHash(L[x + 1])
  <2>1. PICK i \in judged : /\ recs[i].batch.leaf_index = x
                            /\ LeafAt(recs, judged, x) = Leaf(recs[i])
    <3>1. x \in IndexesOf(recs, eid)
      BY DEF IndexesOf
    <3> QED BY <3>1, LeafAtTold
  <2>2. LeafIn(recs[i], L, x)
    BY <1>5, <2>1
  <2> QED BY <2>1, <2>2 DEF LeafIn, Leaf
<1> HIDE DEF indexes
<1>7. \A j \in bare : Leaf(recs[j]) = LeafAt(recs, judged, recs[j].batch.leaf_index)
  <2> SUFFICES ASSUME NEW j \in bare
               PROVE  Leaf(recs[j]) = LeafAt(recs, judged, recs[j].batch.leaf_index)
    OBVIOUS
  <2>1. recs[j].batch.leaf_index \in indexes
    BY DEF indexes
  <2>2. LeafIn(recs[j], L, recs[j].batch.leaf_index)
    BY <1>5
  <2> QED BY <1>6, <2>1, <2>2 DEF LeafIn, Leaf
<1>8. built = LeavesOf(L)
  <2>1. IsList(built) /\ Len(built) = n
    <3>1. built = [k \in 1 .. n |-> LeafAt(recs, judged, k - 1)] /\ n \in Nat
      BY <1>2
    <3> HIDE DEF a, n, judged, built
    <3> QED BY <3>1, RebuiltList
  <2>2. /\ IsList(LeavesOf(L)) /\ Len(LeavesOf(L)) = n
        /\ \A k \in 1 .. n : LeavesOf(L)[k] = LeafHash(L[k])
    BY <1>2, LeavesOfList
  <2>3. ASSUME NEW k \in 1 .. n PROVE built[k] = LeavesOf(L)[k]
    <3>1. k - 1 \in indexes /\ (k - 1) + 1 = k
      <4> HIDE DEF a, n
      <4> QED BY <1>2, <1>3, <2>3
    <3>2. LeafAt(recs, judged, k - 1) = LeafHash(L[(k - 1) + 1])
      BY <1>6, <3>1
    <3>3. built[k] = LeafAt(recs, judged, k - 1)
      <4> HIDE DEF a, n, judged
      <4> QED BY <1>2, <2>3
    <3> QED BY <2>2, <3>1, <3>2, <3>3
  <2> HIDE DEF built, L, n
  <2> QED BY <2>1, <2>2, <2>3, ListEqual
<1>9. MerkleRoot(built) = a.merkle_root
  BY <1>2, <1>8
<1>10. EpochProblems(recs, anchors, eid, complete)
         = If(Cardinality(indexes) > a.leaf_count, "more leaves than leaf_count")
           \cup If(indexes = 0 .. a.leaf_count - 1 /\ MerkleRoot(built) # a.merkle_root,
                   "leaves do not rebuild the root")
           \cup If(/\ indexes = 0 .. a.leaf_count - 1 /\ MerkleRoot(built) = a.merkle_root
                   /\ \E i \in bare : Leaf(recs[i])
                        # LeafAt(recs, judged, recs[i].batch.leaf_index),
                   "record without a proof is not the leaf")
           \cup If(bare # {} /\ ~ (/\ indexes = 0 .. a.leaf_count - 1
                                   /\ MerkleRoot(built) = a.merkle_root),
                   "membership not verifiable")
           \cup If(complete /\ Cardinality(indexes) < a.leaf_count, "anchored leaves missing")
  BY DEF EpochProblems, LeavesMissing, indexes
<1>11. ~ (Cardinality(indexes) > a.leaf_count) /\ ~ (Cardinality(indexes) < a.leaf_count)
  <2> HIDE DEF a, n
  <2> QED BY <1>2, <1>4
<1> HIDE DEF a, built, bare, judged
<1> QED BY <1>3, <1>7, <1>9, <1>10, <1>11 DEF If

\* verify_epochs is exact about every list of records it may be handed.
LEMMA EpochVerdict ==
    ASSUME TrailConstants, AnchorsAre(anchors, sealed, calls), NEW recs, Len(recs) \in Nat,
           \A i \in 1 .. Len(recs) : Handed(recs[i], sealed)
    PROVE  /\ VerifyEpochs(BatchesFit(recs, anchors, TRUE), anchors, Good, Genuine) = "ok"
                <=> Intact(recs) /\ \A i \in InBatch(recs) : IsLeaf(recs[i])
           /\ VerifyEpochs(BatchesFit(recs, anchors, FALSE), anchors, Good, Genuine) = "ok"
                => \A i \in InBatch(recs) : IsLeaf(recs[i])
<1>1. \A c \in BOOLEAN : VerifyEpochs(BatchesFit(recs, anchors, c), anchors, Good, Genuine) = "ok"
                           <=> BatchesFit(recs, anchors, c)
  <2>1. \A c : BatchesFit(recs, anchors, c) \in BOOLEAN
    BY DEF BatchesFit
  <2> QED BY <2>1, TokensGood
<1>2. Anchored(anchors) = DOMAIN sealed /\ ConflictProblems(anchors) = {}
  BY AnchorIs DEF AnchorsAre
<1>3. ASSUME NEW c \in BOOLEAN, BatchesFit(recs, anchors, c), NEW i \in InBatch(recs)
      PROVE  IsLeaf(recs[i])
  <2>1. i \in 1 .. Len(recs)
    BY DEF InBatch
  <2>2. BatchProblems(recs, anchors, i) = {} /\ Handed(recs[i], sealed)
    BY <1>3, <2>1 DEF BatchesFit
  <2>3. recs[i].batch.epoch_id \in DOMAIN sealed /\ (Proof(recs[i]) # None => IsLeaf(recs[i]))
    BY <2>2, BatchSound
  <2>4. EpochProblems(recs, anchors, recs[i].batch.epoch_id, c) = {}
    BY <1>2, <1>3, <2>3 DEF BatchesFit
  <2> QED BY <2>2, <2>3, <2>4, EpochSound
<1>4. ASSUME BatchesFit(recs, anchors, TRUE) PROVE Intact(recs)
  <2>1. \A i \in InBatch(recs) : IsLeaf(recs[i])
    BY <1>3, <1>4
  <2>2. ASSUME NEW eid \in DOMAIN sealed
        PROVE  \A k \in DOMAIN sealed[eid] : \E i \in InBatch(recs) :
                  /\ recs[i].batch.epoch_id = eid
                  /\ recs[i].batch.leaf_index = k - 1
                  /\ RecordHash(recs[i]) = sealed[eid][k]
    <3> DEFINE a == AnchorOf(anchors, eid)
               L == sealed[eid]
               indexes == IndexesOf(recs, eid)
    <3>1. EpochProblems(recs, anchors, eid, TRUE) = {}
      BY <1>2, <1>4 DEF BatchesFit
    <3>2. ~ (Cardinality(indexes) < a.leaf_count)
      <4>1. If(TRUE /\ LeavesMissing(indexes, a), "anchored leaves missing") = {}
        BY <3>1 DEF EpochProblems, IndexesOf
      <4> QED BY <4>1 DEF If, LeavesMissing
    <3>3. IsAnchor(a, L)
      BY AnchorIs
    <3>4. a.leaf_count = Len(L) /\ Len(L) \in Nat
      BY <3>3, ListFacts DEF IsAnchor
    <3>5. /\ IsFiniteSet(indexes)
          /\ Cardinality(indexes) >= Len(L) <=> indexes = 0 .. Len(L) - 1
          /\ (indexes = 0 .. Len(L) - 1) <=>
                \A k \in DOMAIN L : \E i \in InBatch(recs) :
                   /\ recs[i].batch.epoch_id = eid
                   /\ recs[i].batch.leaf_index = k - 1
                   /\ RecordHash(recs[i]) = L[k]
      BY <2>1, IndexesTold
    <3>6. Cardinality(indexes) \in Nat
      BY <3>5, FS_CardinalityType
    <3> HIDE DEF a, L, indexes
    <3>7. Cardinality(indexes) >= Len(L)
      BY <3>2, <3>4, <3>6
    <3> QED BY <3>5, <3>7 DEF L
  <2> QED BY <2>2 DEF Intact
<1>5. ASSUME Intact(recs), \A i \in InBatch(recs) : IsLeaf(recs[i])
      PROVE  BatchesFit(recs, anchors, TRUE)
  <2>1. \A i \in 1 .. Len(recs) : BatchProblems(recs, anchors, i) = {}
    BY <1>5, BatchComplete
  <2>2. ASSUME NEW eid \in DOMAIN sealed PROVE EpochProblems(recs, anchors, eid, TRUE) = {}
    <3>1. IndexesOf(recs, eid) = 0 .. Len(sealed[eid]) - 1
      BY <1>5, IndexesTold DEF Intact
    <3> QED BY <1>5, <3>1, EpochComplete
  <2> QED BY <1>2, <2>1, <2>2 DEF BatchesFit
<1> QED BY <1>1, <1>3, <1>4, <1>5

-----------------------------------------------------------------------------
(* What a relying party may be handed                                       *)

\* A record as anchored, and what it may be changed to.
LEMMA OriginalHanded ==
    ASSUME AnchorsAre(anchors, sealed, calls), NEW r, BatchIs(r, sealed, calls),
           NEW q, "batch" \in DOMAIN q => "batch" \in DOMAIN r /\ q.batch = r.batch
    PROVE  Handed(q, sealed)
<1> SUFFICES ASSUME "batch" \in DOMAIN q, q.batch.epoch_id \in DOMAIN sealed
             PROVE  /\ q.batch.leaf_index \in Nat
                    /\ q.batch.merkle_root = MerkleRoot(LeavesOf(sealed[q.batch.epoch_id]))
                    /\ \E k \in 0 .. Len(sealed[q.batch.epoch_id]) - 1 :
                         /\ Proof(q) = AuditPaths(LeavesOf(sealed[q.batch.epoch_id]))[k + 1]
                         /\ LeafIn(q, sealed[q.batch.epoch_id], q.batch.leaf_index)
                              => q.batch.leaf_index = k
  BY DEF Handed
<1> DEFINE b == r.batch
           L == sealed[b.epoch_id]
<1>1. q.batch = b /\ b.epoch_id \in DOMAIN sealed
  OBVIOUS
<1>2. /\ b.leaf_index \in Nat /\ b.merkle_root = MerkleRoot(LeavesOf(L))
      /\ LeafIn(r, L, b.leaf_index)
      /\ "inclusion_proof" \in DOMAIN b
      /\ b.inclusion_proof = AuditPaths(LeavesOf(L))[b.leaf_index + 1]
  BY <1>1 DEF BatchIs
<1>3. Proof(q) = AuditPaths(LeavesOf(L))[b.leaf_index + 1]
  BY <1>1, <1>2 DEF Proof, Get
<1>4. IsAnchor(AnchorOf(anchors, b.epoch_id), L)
  BY <1>1, AnchorIs
<1>5. Len(L) \in Nat
  BY <1>4, ListFacts DEF IsAnchor
<1>6. b.leaf_index \in 0 .. Len(L) - 1
  BY <1>2, <1>5 DEF LeafIn
<1> HIDE DEF b, L
<1>7. /\ b.leaf_index \in Nat /\ b.merkle_root = MerkleRoot(LeavesOf(L))
      /\ \E k \in 0 .. Len(L) - 1 : /\ Proof(q) = AuditPaths(LeavesOf(L))[k + 1]
                                    /\ LeafIn(q, L, b.leaf_index) => b.leaf_index = k
  BY <1>2, <1>3, <1>6
<1> QED BY <1>1, <1>7 DEF L

LEMMA BareHanded ==
    ASSUME AnchorsAre(anchors, sealed, calls), NEW r, BatchIs(r, sealed, calls)
    PROVE  Handed(Bare(r), sealed)
<1>1. CASE "batch" \notin DOMAIN r
  BY <1>1 DEF Bare, Handed
<1>2. CASE "batch" \in DOMAIN r
  <2> DEFINE w == Without(r.batch, {"inclusion_proof"})
             q == Bare(r)
  <2>1. q = [r EXCEPT !.batch = w]
    BY <1>2 DEF Bare
  <2>2. /\ DOMAIN w = DOMAIN r.batch \ {"inclusion_proof"}
        /\ \A k \in DOMAIN r.batch \ {"inclusion_proof"} : w[k] = r.batch[k]
    BY WithoutFacts
  <2> HIDE DEF w, q
  <2>3. "batch" \in DOMAIN q /\ q.batch = w
    BY <1>2, <2>1
  <2>4. DOMAIN r.batch = {"epoch_id", "merkle_root", "leaf_index", "inclusion_proof"}
    BY <1>2 DEF BatchIs
  <2>5. /\ w.epoch_id = r.batch.epoch_id /\ w.merkle_root = r.batch.merkle_root
        /\ w.leaf_index = r.batch.leaf_index /\ "inclusion_proof" \notin DOMAIN w
    BY <2>2, <2>4
  <2>6. Proof(q) = None
    BY <2>3, <2>5 DEF Proof, Get
  <2>7. Handed(q, sealed)
    BY <1>2, <2>3, <2>5, <2>6 DEF Handed, BatchIs
  <2> QED BY <2>7 DEF q
<1> QED BY <1>1, <1>2

\* The next index is not the record's: the hashes of an epoch all differ.
LEMMA ShiftedHanded ==
    ASSUME AnchorsAre(anchors, sealed, calls), NEW r, BatchIs(r, sealed, calls),
           "batch" \in DOMAIN r
    PROVE  Handed([r EXCEPT !.batch.leaf_index = @ + 1], sealed)
<1> DEFINE b == r.batch
           x == b.leaf_index
           L == sealed[b.epoch_id]
           c == [b EXCEPT !.leaf_index = x + 1]
           q == [r EXCEPT !.batch = c]
<1>1. [r EXCEPT !.batch.leaf_index = @ + 1] = q
  OBVIOUS
<1>2. DOMAIN b = {"epoch_id", "merkle_root", "leaf_index", "inclusion_proof"}
  BY DEF BatchIs
<1>3. /\ DOMAIN c = DOMAIN b /\ c.epoch_id = b.epoch_id /\ c.merkle_root = b.merkle_root
      /\ c.leaf_index = x + 1 /\ c.inclusion_proof = b.inclusion_proof
  <2> HIDE DEF b
  <2> QED BY <1>2
<1>4. /\ DOMAIN q = DOMAIN r /\ q.batch = c
      /\ \A k \in DOMAIN r \ {"batch"} : q[k] = r[k]
  <2> HIDE DEF c
  <2> QED OBVIOUS
<1> HIDE DEF q, c
<1>5. RecordHash(q) = RecordHash(r)
  BY <1>4, SameButBatch
<1>6. ASSUME b.epoch_id \in DOMAIN sealed
      PROVE  /\ x + 1 \in Nat /\ c.merkle_root = MerkleRoot(LeavesOf(L))
             /\ x \in 0 .. Len(L) - 1
             /\ Proof(q) = AuditPaths(LeavesOf(L))[x + 1]
             /\ ~LeafIn(q, L, x + 1)
  <2>1. /\ x \in Nat /\ b.merkle_root = MerkleRoot(LeavesOf(L))
        /\ LeafIn(r, L, x)
        /\ b.inclusion_proof = AuditPaths(LeavesOf(L))[x + 1]
    BY <1>6 DEF BatchIs
  <2>2. IsAnchor(AnchorOf(anchors, b.epoch_id), L)
    BY <1>6, AnchorIs
  <2>3. Len(L) \in Nat /\ \A k, l \in 1 .. Len(L) : L[k] = L[l] => k = l
    BY <2>2, ListFacts DEF IsAnchor
  <2>4. x \in 0 .. Len(L) - 1
    BY <2>1, <2>3 DEF LeafIn
  <2>5. Proof(q) = AuditPaths(LeavesOf(L))[x + 1]
    BY <1>2, <1>3, <1>4, <2>1 DEF Proof, Get
  <2> HIDE DEF L, x
  <2>6. ~LeafIn(q, L, x + 1)
    <3> SUFFICES ASSUME LeafIn(q, L, x + 1) PROVE FALSE
      OBVIOUS
    <3>1. /\ x + 1 \in 1 .. Len(L) /\ L[x + 1] = RecordHash(r)
          /\ (x + 1) + 1 \in 1 .. Len(L) /\ L[(x + 1) + 1] = RecordHash(r)
      BY <1>5, <2>1 DEF LeafIn
    <3>2. x + 1 = (x + 1) + 1
      BY <2>3, <3>1
    <3> QED BY <2>1, <3>2
  <2> QED BY <1>3, <2>1, <2>4, <2>5, <2>6 DEF x
<1>7. Handed(q, sealed)
  <2> SUFFICES ASSUME "batch" \in DOMAIN q, q.batch.epoch_id \in DOMAIN sealed
               PROVE  /\ q.batch.leaf_index \in Nat
                      /\ q.batch.merkle_root = MerkleRoot(LeavesOf(sealed[q.batch.epoch_id]))
                      /\ \E k \in 0 .. Len(sealed[q.batch.epoch_id]) - 1 :
                           /\ Proof(q) = AuditPaths(LeavesOf(sealed[q.batch.epoch_id]))[k + 1]
                           /\ LeafIn(q, sealed[q.batch.epoch_id], q.batch.leaf_index)
                                => q.batch.leaf_index = k
    BY DEF Handed
  <2>1. /\ q.batch.epoch_id = b.epoch_id /\ q.batch.leaf_index = x + 1
        /\ q.batch.merkle_root = c.merkle_root
    BY <1>3, <1>4
  <2> HIDE DEF b, x
  <2>2. b.epoch_id \in DOMAIN sealed
    BY <2>1
  <2> QED BY <1>6, <2>1, <2>2 DEF L
<1> QED BY <1>1, <1>7

\* Every altered copy the property asks about.
LEMMA AlteredHanded ==
    ASSUME AnchorsAre(anchors, sealed, calls), NEW recs, IsList(recs),
           \A i \in 1 .. Len(recs) : BatchIs(recs[i], sealed, calls),
           NEW alt \in AlteredEpoch(recs)
    PROVE  Len(alt) \in Nat /\ \A i \in 1 .. Len(alt) : Handed(alt[i], sealed)
<1> DEFINE N == Len(recs)
<1>1. N \in Nat /\ DOMAIN recs = 1 .. N
  BY ListFacts
<1>2. ASSUME NEW i \in 1 .. N
      PROVE  /\ Handed(recs[i], sealed) /\ Handed(Bare(recs[i]), sealed)
             /\ Handed(NoBatch(recs[i]), sealed)
             /\ Handed([recs[i] EXCEPT !.timestamp = @ + 1], sealed)
             /\ i \in InBatch(recs) => Handed([recs[i] EXCEPT !.batch.leaf_index = @ + 1], sealed)
  <2> DEFINE r == recs[i]
             q == [r EXCEPT !.timestamp = @ + 1]
  <2>1. BatchIs(r, sealed, calls)
    OBVIOUS
  <2>2. i \in InBatch(recs) <=> "batch" \in DOMAIN r
    BY DEF InBatch
  <2>3. "batch" \in DOMAIN q => "batch" \in DOMAIN r /\ q.batch = r.batch
    <3> HIDE DEF r
    <3> QED OBVIOUS
  <2>4. "batch" \notin DOMAIN NoBatch(r)
    BY DEF NoBatch, Without
  <2> HIDE DEF r, q
  <2>5. Handed(r, sealed) /\ Handed(q, sealed) /\ Handed(Bare(r), sealed)
    BY <2>1, <2>3, OriginalHanded, BareHanded
  <2>6. Handed(NoBatch(r), sealed)
    BY <2>4 DEF Handed
  <2>7. "batch" \in DOMAIN r => Handed([r EXCEPT !.batch.leaf_index = @ + 1], sealed)
    BY <2>1, ShiftedHanded
  <2> QED BY <2>2, <2>5, <2>6, <2>7 DEF r, q
<1>3. ASSUME NEW i \in 1 .. N, NEW q, Handed(q, sealed), alt = [recs EXCEPT ![i] = q]
      PROVE  Len(alt) \in Nat /\ \A j \in 1 .. Len(alt) : Handed(alt[j], sealed)
  <2>1. /\ Len(alt) = N /\ alt[i] = q
        /\ \A j \in DOMAIN recs : j # i => alt[j] = recs[j]
    BY <1>1, <1>3, ListExcept
  <2> QED BY <1>1, <1>2, <1>3, <2>1
<1>4. CASE alt = recs
  BY <1>1, <1>2, <1>4
<1>5. CASE alt = [i \in 1 .. N |-> Bare(recs[i])]
  <2>1. alt = [i \in 1 .. N |-> alt[i]] /\ \A i \in 1 .. N : alt[i] = Bare(recs[i])
    BY <1>5
  <2>2. Len(alt) = N
    BY <1>1, <2>1, ListOf
  <2> QED BY <1>1, <1>2, <2>1, <2>2
<1>6. ASSUME NEW i \in 1 .. N, alt = Drop(recs, i)
      PROVE  Len(alt) \in Nat /\ \A j \in 1 .. Len(alt) : Handed(alt[j], sealed)
  <2>1. /\ alt = [j \in 1 .. N - 1 |-> alt[j]] /\ N - 1 \in Nat
        /\ \A j \in 1 .. N - 1 : alt[j] = recs[j] \/ alt[j] = recs[j + 1]
    BY <1>1, <1>6 DEF Drop
  <2>2. Len(alt) = N - 1
    BY <2>1, ListOf
  <2>3. \A j \in 1 .. N - 1 : j \in 1 .. N /\ j + 1 \in 1 .. N
    BY <1>1
  <2> QED BY <1>2, <2>1, <2>2, <2>3
<1>7. \/ alt = recs \/ alt = [i \in 1 .. N |-> Bare(recs[i])]
      \/ \E i \in 1 .. N : alt = Drop(recs, i)
      \/ \E i \in 1 .. N : \/ alt = [recs EXCEPT ![i] = NoBatch(recs[i])]
                           \/ alt = [recs EXCEPT ![i] = Bare(recs[i])]
                           \/ alt = [recs EXCEPT ![i] = [recs[i] EXCEPT !.timestamp = @ + 1]]
      \/ \E i \in InBatch(recs) :
           alt = [recs EXCEPT ![i] = [recs[i] EXCEPT !.batch.leaf_index = @ + 1]]
  <2>1. alt \in {[recs EXCEPT ![i] = NoBatch(@)] : i \in 1 .. N}
          => \E i \in 1 .. N : alt = [recs EXCEPT ![i] = NoBatch(recs[i])]
    BY <1>1
  <2>2. alt \in {[recs EXCEPT ![i] = Bare(@)] : i \in 1 .. N}
          => \E i \in 1 .. N : alt = [recs EXCEPT ![i] = Bare(recs[i])]
    BY <1>1
  <2>3. alt \in {[recs EXCEPT ![i].timestamp = @ + 1] : i \in 1 .. N}
          => \E i \in 1 .. N : alt = [recs EXCEPT ![i] = [recs[i] EXCEPT !.timestamp = @ + 1]]
    BY <1>1
  <2>4. alt \in {[recs EXCEPT ![i].batch.leaf_index = @ + 1] : i \in InBatch(recs)}
          => \E i \in InBatch(recs) :
               alt = [recs EXCEPT ![i] = [recs[i] EXCEPT !.batch.leaf_index = @ + 1]]
    BY <1>1
  <2>5. \/ alt \in {recs, [i \in 1 .. N |-> Bare(recs[i])]}
        \/ alt \in {Drop(recs, i) : i \in 1 .. N}
        \/ alt \in {[recs EXCEPT ![i] = NoBatch(@)] : i \in 1 .. N}
        \/ alt \in {[recs EXCEPT ![i] = Bare(@)] : i \in 1 .. N}
        \/ alt \in {[recs EXCEPT ![i].timestamp = @ + 1] : i \in 1 .. N}
        \/ alt \in {[recs EXCEPT ![i].batch.leaf_index = @ + 1] : i \in InBatch(recs)}
    BY Zenon DEF AlteredEpoch
  <2> QED BY <2>1, <2>2, <2>3, <2>4, <2>5
<1>8. InBatch(recs) \subseteq 1 .. N
  BY DEF InBatch
<1> QED BY <1>2, <1>3, <1>4, <1>5, <1>6, <1>7, <1>8

-----------------------------------------------------------------------------
(* What the anchorings leave behind: the invariant of the epochs            *)

EpochsOk ==
    /\ AnchorsAre(anchors, sealed, calls)
    /\ \A s \in DOMAIN chains : \A i \in 1 .. Len(chains[s]) : BatchIs(chains[s][i], sealed, calls)

\* A call later, what was anchored still is.
LEMMA Later ==
    ASSUME NEW anch, NEW seals, NEW c \in Nat
    PROVE  /\ AnchorsAre(anch, seals, c) => AnchorsAre(anch, seals, c + 1)
           /\ \A r : BatchIs(r, seals, c) => BatchIs(r, seals, c + 1)
BY DEF AnchorsAre, BatchIs

\* A record without a batch object is judged by no epoch.
LEMMA Unbatched ==
    ASSUME NEW r, "batch" \notin DOMAIN r, NEW seals, NEW c
    PROVE  BatchIs(r, seals, c)
BY DEF BatchIs

\* The records of some sessions are all different, in what is hashed too.
LEMMA RecordsDiffer ==
    ASSUME NEW h, NEW S, IsFiniteSet(S), S # {}, \A s \in S : ChainOk(chains[s], s, h)
    PROVE  /\ IsList(Records(S)) /\ Len(Records(S)) # 0 /\ Len(Records(S)) \in Nat
           /\ \A n \in 1 .. Len(Records(S)) : IsRecord(Records(S)[n])
           /\ \A m, n \in 1 .. Len(Records(S)) :
                RecordHash(Records(S)[m]) = RecordHash(Records(S)[n]) => m = n
<1> DEFINE slot == Slots(S)
           recs == Records(S)
           N    == Len(slot)
<1>1. \A s \in S : IsList(chains[s]) /\ Len(chains[s]) \in Nat /\ Len(chains[s]) # 0
  BY ListFacts DEF ChainOk
<1>2. /\ IsList(slot)
      /\ \A s \in S : \A i \in 1 .. Len(chains[s]) : \E n \in 1 .. N : slot[n] = <<s, i>>
      /\ \A n \in 1 .. N : \E s \in S : \E i \in 1 .. Len(chains[s]) : slot[n] = <<s, i>>
      /\ \A m, n \in 1 .. N : slot[m] = slot[n] => m = n
  BY <1>1, SlotsTold
<1>3. N \in Nat /\ DOMAIN slot = 1 .. N
  BY <1>2, ListFacts
<1>4. recs = [n \in 1 .. N |-> chains[slot[n][1]][slot[n][2]]]
  BY <1>3 DEF Records
<1> HIDE DEF slot, recs, N
<1>5. IsList(recs) /\ Len(recs) = N
  <2>1. recs = [n \in 1 .. N |-> recs[n]]
    BY <1>4
  <2> QED BY <1>3, <2>1, ListOf
<1>6. N # 0
  <2>1. PICK s \in S : TRUE
    OBVIOUS
  <2>2. 1 \in 1 .. Len(chains[s])
    BY <1>1
  <2>3. \E n \in 1 .. N : slot[n] = <<s, 1>>
    BY <1>2, <2>2
  <2> QED BY <1>3, <2>3
<1>7. ASSUME NEW n \in 1 .. N
      PROVE  \E s \in S : \E i \in 1 .. Len(chains[s]) :
                slot[n] = <<s, i>> /\ recs[n] = chains[s][i]
  <2>1. PICK s \in S : \E i \in 1 .. Len(chains[s]) : slot[n] = <<s, i>>
    BY <1>2
  <2>2. PICK i \in 1 .. Len(chains[s]) : slot[n] = <<s, i>>
    BY <2>1
  <2>3. slot[n][1] = s /\ slot[n][2] = i
    BY <2>2
  <2>4. recs[n] = chains[s][i]
    BY <1>4, <2>3
  <2> QED BY <2>2, <2>4
<1>8. ASSUME NEW s \in S, NEW i \in 1 .. Len(chains[s])
      PROVE  /\ InSession(chains[s][i], s, chains[s][1].agent_id, h)
             /\ RecordHash(chains[s][i]).record_id = chains[s][i].record_id
             /\ RecordHash(chains[s][i]).session_id = s
  <2> DEFINE r == chains[s][i]
  <2>1. InSession(r, s, chains[s][1].agent_id, h)
    BY <1>8, Kinds
  <2>2. {"record_id", "session_id"} \subseteq DOMAIN r \ ({"batch"} \cup SignatureValueFields)
    BY <2>1 DEF InSession, Mandatory, SignatureValueFields
  <2> HIDE DEF r
  <2>3. \A k \in DOMAIN r \ ({"batch"} \cup SignatureValueFields) : RecordHash(r)[k] = r[k]
    BY HashFacts
  <2> QED BY <2>1, <2>2, <2>3 DEF InSession, r
<1>9. \A n \in 1 .. N : IsRecord(recs[n])
  BY <1>7, <1>8 DEF InSession
<1>10. ASSUME NEW m \in 1 .. N, NEW n \in 1 .. N, RecordHash(recs[m]) = RecordHash(recs[n])
       PROVE  m = n
  <2>1. PICK s \in S : \E i \in 1 .. Len(chains[s]) : slot[m] = <<s, i>> /\ recs[m] = chains[s][i]
    BY <1>7
  <2>2. PICK i \in 1 .. Len(chains[s]) : slot[m] = <<s, i>> /\ recs[m] = chains[s][i]
    BY <2>1
  <2>3. PICK t \in S : \E j \in 1 .. Len(chains[t]) : slot[n] = <<t, j>> /\ recs[n] = chains[t][j]
    BY <1>7
  <2>4. PICK j \in 1 .. Len(chains[t]) : slot[n] = <<t, j>> /\ recs[n] = chains[t][j]
    BY <2>3
  <2>5. s = t /\ chains[s][i].record_id = chains[t][j].record_id
    <3>1. /\ RecordHash(chains[s][i]).session_id = s
          /\ RecordHash(chains[s][i]).record_id = chains[s][i].record_id
      BY <1>8
    <3>2. /\ RecordHash(chains[t][j]).session_id = t
          /\ RecordHash(chains[t][j]).record_id = chains[t][j].record_id
      BY <1>8
    <3> QED BY <1>10, <2>2, <2>4, <3>1, <3>2
  <2>6. i = j
    <3>1. ChainOk(chains[s], s, h)
      OBVIOUS
    <3> QED BY <2>5, <3>1 DEF ChainOk
  <2> QED BY <1>2, <2>2, <2>4, <2>5, <2>6
<1> QED BY <1>3, <1>5, <1>6, <1>9, <1>10 DEF recs, N

\* The hashes an epoch is anchored over.
HashesOf(records) == [n \in 1 .. Len(records) |-> RecordHash(records[n])]

\* Its leaves are those of the records.
LEMMA HashesTold ==
    ASSUME NEW records, Len(records) \in Nat
    PROVE  /\ IsList(HashesOf(records)) /\ Len(HashesOf(records)) = Len(records)
           /\ \A n \in 1 .. Len(records) : HashesOf(records)[n] = RecordHash(records[n])
           /\ LeavesOf(HashesOf(records)) = [n \in 1 .. Len(records) |-> Leaf(records[n])]
<1> DEFINE L == HashesOf(records)
           N == Len(records)
<1>1. L = [n \in 1 .. N |-> RecordHash(records[n])]
  BY DEF HashesOf
<1> HIDE DEF L, N
<1>2. L = [n \in 1 .. N |-> L[n]] /\ \A n \in 1 .. N : L[n] = RecordHash(records[n])
  BY <1>1
<1>3. IsList(L) /\ Len(L) = N
  BY <1>2, ListOf DEF N
<1>4. LeavesOf(L) = [n \in 1 .. N |-> Leaf(records[n])]
  BY <1>2, <1>3 DEF LeavesOf, Leaf
<1> QED BY <1>2, <1>3, <1>4 DEF L, N

\* anchor_epoch: a new anchor, or batch objects of an epoch that has none.
LEMMA AnchoredEpochs ==
    ASSUME TrailConstants, TrailInv, EpochsOk, NEW S \in (SUBSET DOMAIN chains) \ {{}},
           NEW host, NEW tsa, Anchor(S, tsa, host)
    PROVE  EpochsOk'
<1> DEFINE recs == Records(S)
           out  == AnchorEpoch(recs, calls, tsa, host)
           N    == Len(recs)
           L    == HashesOf(recs)
           a    == out.anchor
<1>0. S # {} /\ S \subseteq DOMAIN chains
  OBVIOUS
<1>1. how # None
  <2>1. DOMAIN << >> = {}
    OBVIOUS
  <2> QED BY <1>0, <2>1 DEF TrailInv, ChainsOk
<1>2. \A s \in DOMAIN chains : ChainOk(chains[s], s, how)
  BY <1>1 DEF TrailInv, ChainsOk
<1>3. IsFiniteSet(S)
  BY <1>0, FS_Subset DEF TrailInv, CountsOk
<1>4. /\ IsList(recs) /\ N # 0 /\ N \in Nat
      /\ \A n \in 1 .. N : IsRecord(recs[n])
      /\ \A m, n \in 1 .. N : RecordHash(recs[m]) = RecordHash(recs[n]) => m = n
  BY <1>0, <1>2, <1>3, RecordsDiffer
<1>5. /\ out.records = [n \in 1 .. N |-> [batch |-> BatchOf(recs, calls, n)] ++ NoBatch(recs[n])]
      /\ a # None => AnchorTold(a, recs, calls)
  BY EpochTold
<1>6. /\ WorkLeft /\ calls' = calls + 1
      /\ a = None => UNCHANGED <<anchors, sealed>>
      /\ a # None => /\ anchors' = anchors \cup {a}
                     /\ sealed' = Put(sealed, calls, [i \in 1 .. Len(out.records) |->
                                                        RecordHash(out.records[i])])
  BY DEF Anchor
<1>7. calls \in Nat
  BY <1>6, WorkTold
<1> HIDE DEF out, recs
<1>8. [i \in 1 .. Len(out.records) |-> RecordHash(out.records[i])] = L
  <2>1. Len(out.records) = N
    <3>1. out.records = [n \in 1 .. N |-> out.records[n]]
      BY <1>5
    <3> QED BY <1>4, <3>1, ListOf
  <2>2. ASSUME NEW n \in 1 .. N PROVE RecordHash(out.records[n]) = RecordHash(recs[n])
    <3> DEFINE b == BatchOf(recs, calls, n)
               r == recs[n]
    <3>1. IsRecord(r) /\ out.records[n] = [batch |-> b] ++ NoBatch(r)
      BY <1>4, <1>5
    <3> HIDE DEF b, r
    <3>2. RecordHash([batch |-> b] ++ NoBatch(r)) = RecordHash(r)
      BY <3>1, Rebatched
    <3> QED BY <3>1, <3>2 DEF r
  <2> HIDE DEF N
  <2> QED BY <2>1, <2>2 DEF HashesOf, N
<1>9. /\ IsList(L) /\ Len(L) = N
      /\ \A n \in 1 .. N : L[n] = RecordHash(recs[n])
      /\ LeavesOf(L) = [n \in 1 .. N |-> Leaf(recs[n])]
  BY <1>4, HashesTold
<1>10. \A eid \in DOMAIN sealed : eid \in 0 .. calls - 1
  BY DEF EpochsOk, AnchorsAre, Anchored
<1>11. /\ \A eid : eid # calls => (eid \in DOMAIN sealed' <=> eid \in DOMAIN sealed)
       /\ \A eid \in DOMAIN sealed : sealed'[eid] = sealed[eid] /\ eid \in DOMAIN sealed'
       /\ calls \in DOMAIN sealed' => a # None /\ sealed'[calls] = L
  BY <1>6, <1>7, <1>8, <1>10 DEF Put
<1> HIDE DEF L, N, a
<1>12. AnchorsAre(anchors', sealed', calls')
  <2>1. CASE a = None
    <3>1. AnchorsAre(anchors, sealed, calls + 1)
      BY <1>7, Later DEF EpochsOk
    <3> QED BY <1>6, <2>1, <3>1
  <2>2. CASE a # None
    <3>1. anchors' = anchors \cup {a} /\ sealed' = Put(sealed, calls, L) /\ calls' = calls + 1
      BY <1>6, <1>8, <2>2
    <3>2. /\ a.epoch_id = calls /\ a.leaf_count = N
          /\ a.merkle_root = MerkleRoot(LeavesOf(L))
          /\ "tsa" \in DOMAIN a => /\ a.tsa.imprint = Imprint(a.merkle_root)
                                   /\ a.tsa.token = Token(Imprint(a.merkle_root), Genuine)
      BY <1>5, <1>9, <2>2 DEF AnchorTold, N
    <3>3. sealed'[calls] = L /\ calls \in DOMAIN sealed'
      BY <3>1 DEF Put
    <3>4. IsAnchor(a, L)
      BY <1>4, <1>9, <3>2 DEF IsAnchor
    <3>5. \A b \in anchors : b.epoch_id \in 0 .. calls - 1 /\ IsAnchor(b, sealed[b.epoch_id])
      BY DEF EpochsOk, AnchorsAre
    <3>6. \A b \in anchors : b.epoch_id \in DOMAIN sealed
      BY DEF EpochsOk, AnchorsAre, Anchored
    <3>7. \A b \in anchors' : b.epoch_id \in 0 .. calls' - 1 /\ IsAnchor(b, sealed'[b.epoch_id])
      <4>1. \A b \in anchors : b.epoch_id \in 0 .. calls' - 1 /\ IsAnchor(b, sealed'[b.epoch_id])
        BY <1>7, <1>11, <3>1, <3>5, <3>6
      <4>2. a.epoch_id \in 0 .. calls' - 1 /\ IsAnchor(a, sealed'[a.epoch_id])
        BY <1>7, <3>1, <3>2, <3>3, <3>4
      <4> QED BY <3>1, <4>1, <4>2
    <3>8. \A b, c \in anchors' : b.epoch_id = c.epoch_id => b = c
      <4>1. \A b, c \in anchors : b.epoch_id = c.epoch_id => b = c
        BY DEF EpochsOk, AnchorsAre
      <4>2. \A b \in anchors : b.epoch_id # a.epoch_id
        BY <1>7, <3>2, <3>5
      <4> QED BY <3>1, <4>1, <4>2
    <3>9. DOMAIN sealed' = Anchored(anchors')
      <4>1. DOMAIN sealed' = DOMAIN sealed \cup {calls}
        BY <3>1 DEF Put
      <4>2. DOMAIN sealed = Anchored(anchors)
        BY DEF EpochsOk, AnchorsAre
      <4> QED BY <3>1, <3>2, <4>1, <4>2 DEF Anchored
    <3> QED BY <3>7, <3>8, <3>9 DEF AnchorsAre
  <2> QED BY <2>1, <2>2
<1>13. ASSUME NEW s \in DOMAIN chains, NEW i \in 1 .. Len(chains[s])
       PROVE  BatchIs(chains[s][i], sealed', calls')
  <2> DEFINE r == chains[s][i]
  <2>1. BatchIs(r, sealed, calls)
    BY DEF EpochsOk
  <2> HIDE DEF r
  <2>2. "batch" \in DOMAIN r =>
          /\ r.batch.epoch_id \in 0 .. calls - 1
          /\ r.batch.epoch_id # calls
          /\ r.batch.epoch_id \in 0 .. calls' - 1
    BY <1>6, <1>7, <2>1 DEF BatchIs
  <2>3. "batch" \in DOMAIN r /\ r.batch.epoch_id \in DOMAIN sealed' =>
          r.batch.epoch_id \in DOMAIN sealed /\ sealed'[r.batch.epoch_id] = sealed[r.batch.epoch_id]
    BY <1>11, <2>2
  <2>4. BatchIs(r, sealed', calls')
    BY <2>1, <2>2, <2>3 DEF BatchIs
  <2> QED BY <2>4 DEF r
<1>14. ASSUME NEW s \in S, NEW i \in 1 .. Len(chains[s]) PROVE BatchIs(chains'[s][i], sealed', calls')
  <2> DEFINE n == SlotOf(S, s, i)
             r == chains[s][i]
             q == chains'[s][i]
             b == BatchOf(recs, calls, n)
  <2>1. n \in 1 .. N /\ recs[n] = r
    <3>1. \A t \in S : IsList(chains[t])
      BY <1>0, <1>2 DEF ChainOk
    <3>2. /\ SlotOf(S, s, i) \in 1 .. Len(Slots(S)) /\ Len(Records(S)) = Len(Slots(S))
          /\ Records(S)[SlotOf(S, s, i)] = chains[s][i]
      BY <1>0, <1>3, <3>1, SlotOfTold
    <3> QED BY <3>2 DEF N, recs
  <2>2. q = [batch |-> b] ++ NoBatch(r)
    BY <1>14, AnchoredChains DEF recs
  <2>3. /\ DOMAIN b = {"epoch_id", "merkle_root", "leaf_index", "inclusion_proof"}
        /\ b.epoch_id = calls /\ b.leaf_index = n - 1
        /\ b.merkle_root = MerkleRoot([k \in 1 .. N |-> Leaf(recs[k])])
        /\ b.inclusion_proof = AuditPaths([k \in 1 .. N |-> Leaf(recs[k])])[n]
    BY DEF BatchOf, N
  <2> HIDE DEF n, r, q, b
  <2>4. IsRecord(r)
    BY <1>4, <2>1
  <2>5. /\ "batch" \in DOMAIN q /\ q.batch = b /\ RecordHash(q) = RecordHash(r)
    <3>1. LET m == [batch |-> b] ++ NoBatch(r)
          IN  /\ IsRecord(m) /\ DOMAIN m = DOMAIN r \cup {"batch"} /\ m.batch = b
              /\ \A k \in DOMAIN r \ {"batch"} : m[k] = r[k]
              /\ RecordHash(m) = RecordHash(r) /\ SigningInput(m) = SigningInput(r)
      BY <2>4, Rebatched
    <3> QED BY <2>2, <3>1
  <2>6. /\ n - 1 \in Nat /\ (n - 1) + 1 = n
        /\ calls \in 0 .. calls' - 1
    BY <1>4, <1>6, <1>7, <2>1
  <2>7. LeafIn(q, L, n - 1)
    BY <1>9, <2>1, <2>5, <2>6 DEF LeafIn
  <2>8. calls \in DOMAIN sealed' =>
          /\ sealed'[calls] = L
          /\ b.merkle_root = MerkleRoot(LeavesOf(L))
          /\ b.inclusion_proof = AuditPaths(LeavesOf(L))[(n - 1) + 1]
    BY <1>9, <1>11, <2>3, <2>6
  <2>9. BatchIs(q, sealed', calls')
    BY <2>3, <2>5, <2>6, <2>7, <2>8 DEF BatchIs
  <2> QED BY <2>9 DEF q
<1>15. /\ DOMAIN chains' = DOMAIN chains
       /\ \A s \in DOMAIN chains \ S : chains'[s] = chains[s]
       /\ \A s \in S : Len(chains'[s]) = Len(chains[s])
  BY AnchoredChains
<1>16. ASSUME NEW s \in DOMAIN chains', NEW i \in 1 .. Len(chains'[s])
       PROVE  BatchIs(chains'[s][i], sealed', calls')
  BY <1>13, <1>14, <1>15, <1>16
<1> QED BY <1>12, <1>16 DEF EpochsOk

\* from_omega exports no batch object.
LEMMA ExportedEpochs ==
    ASSUME TrailConstants, TrailInv, EpochsOk, NEW h \in Exports, Export(h)
    PROVE  EpochsOk'
<1> DEFINE out == FromOmega(omega, h)
<1>1. /\ ~out.refused /\ DOMAIN (out.chains) # {}
      /\ chains' = out.chains /\ UNCHANGED <<anchors, sealed, calls>>
  BY DEF Export
<1>2. Len(omega) \in Nat /\ \A n \in 1 .. Len(omega) : omega[n].time \in Int
  BY ListFacts DEF TrailInv, EntriesOk
<1>3. IsSigner(h.signer)
  BY DEF TrailConstants
<1>4. \A s \in DOMAIN (out.chains) : Unanchored(out.chains[s])
  BY <1>1, <1>2, <1>3, ExportedChains
<1> HIDE DEF out
<1>5. \A s \in DOMAIN chains' : \A i \in 1 .. Len(chains'[s]) :
        BatchIs(chains'[s][i], sealed', calls')
  BY <1>1, <1>4, Unbatched DEF Unanchored
<1>6. AnchorsAre(anchors', sealed', calls')
  BY <1>1 DEF EpochsOk
<1> QED BY <1>5, <1>6 DEF EpochsOk

\* A call that gives one chain a record without a batch object.
LEMMA UnbatchedEpochs ==
    ASSUME TrailConstants, TrailInv, EpochsOk, NEW s \in DOMAIN chains,
           WorkLeft, calls' = calls + 1, UNCHANGED <<anchors, sealed>>,
           DOMAIN chains' = DOMAIN chains,
           \A t \in DOMAIN chains : t # s => chains'[t] = chains[t],
           \A i \in 1 .. Len(chains'[s]) :
              \/ "batch" \notin DOMAIN chains'[s][i]
              \/ i \in 1 .. Len(chains[s]) /\ chains'[s][i] = chains[s][i]
    PROVE  EpochsOk'
<1>1. calls \in Nat
  BY WorkTold
<1>2. /\ AnchorsAre(anchors, sealed, calls) => AnchorsAre(anchors, sealed, calls + 1)
      /\ \A r : BatchIs(r, sealed, calls) => BatchIs(r, sealed, calls + 1)
  BY <1>1, Later
<1>3. ASSUME NEW t \in DOMAIN chains', NEW i \in 1 .. Len(chains'[t])
      PROVE  BatchIs(chains'[t][i], sealed, calls + 1)
  <2>1. CASE t # s
    BY <1>2, <2>1 DEF EpochsOk
  <2>2. CASE t = s /\ "batch" \notin DOMAIN chains'[s][i]
    BY <2>2, Unbatched
  <2>3. CASE t = s /\ i \in 1 .. Len(chains[s]) /\ chains'[s][i] = chains[s][i]
    BY <1>2, <2>3 DEF EpochsOk
  <2> QED BY <2>1, <2>2, <2>3
<1>4. AnchorsAre(anchors, sealed, calls + 1)
  BY <1>2 DEF EpochsOk
<1> QED BY <1>3, <1>4 DEF EpochsOk

LEMMA EpochsNext ==
    TrailConstants /\ TrailInv /\ EpochsOk /\ [TrailNext]_trailVars => EpochsOk'
<1> SUFFICES ASSUME TrailConstants, TrailInv, EpochsOk, [TrailNext]_trailVars PROVE EpochsOk'
  OBVIOUS
<1>0. DOMAIN << >> = {}
  OBVIOUS
<1>1. how # None => IsSigner(how.signer)
  BY DEF TrailInv, ChainsOk, TrailConstants
<1>2. \A g \in TombstoneSigners : MaySign(g, how)
  BY DEF TombstoneSigners, MaySign, Signed, Signs
<1>3. \A s \in DOMAIN chains : how # None /\ ChainOk(chains[s], s, how)
  BY <1>0 DEF TrailInv, ChainsOk
<1>4. ASSUME NEW e \in Templates, LogEntry(e) PROVE EpochsOk'
  BY <1>4 DEF LogEntry, EpochsOk
<1>5. ASSUME NEW h \in Exports, Export(h) PROVE EpochsOk'
  BY <1>5, ExportedEpochs
<1>6. ASSUME NEW s \in DOMAIN chains, NEW i \in DOMAIN chains[s], NEW g \in TombstoneSigners,
             EraseRecord(s, i, g)
      PROVE  EpochsOk'
  <2> DEFINE ch   == chains[s]
             out  == Tombstone(ch[i], Last(ch).timestamp, g)
             new  == [ch EXCEPT ![i] = out]
  <2>1. /\ WorkLeft /\ out # None
        /\ chains' = [chains EXCEPT ![s] = new]
        /\ calls' = calls + 1 /\ UNCHANGED <<anchors, sealed>>
    BY <1>6 DEF EraseRecord
  <2>2. ChainOk(ch, s, how) /\ i \in DOMAIN ch
    BY <1>3
  <2>3. "batch" \notin DOMAIN out
    <3> HIDE DEF ch
    <3> QED BY <1>1, <1>2, <1>3, <2>1, <2>2, ErasedChain
  <2>4. IsList(ch) /\ Len(ch) \in Nat /\ DOMAIN ch = 1 .. Len(ch)
    BY <2>2, ListFacts DEF ChainOk
  <2> HIDE DEF out
  <2>5. /\ Len(new) = Len(ch) /\ new[i] = out
        /\ \A j \in DOMAIN ch : j # i => new[j] = ch[j]
    BY <2>2, <2>4, ListExcept
  <2> HIDE DEF new
  <2>6. /\ DOMAIN chains' = DOMAIN chains /\ chains'[s] = new
        /\ \A t \in DOMAIN chains : t # s => chains'[t] = chains[t]
    BY <2>1
  <2>7. \A j \in 1 .. Len(chains'[s]) :
          \/ "batch" \notin DOMAIN chains'[s][j]
          \/ j \in 1 .. Len(chains[s]) /\ chains'[s][j] = chains[s][j]
    BY <2>3, <2>4, <2>5, <2>6
  <2> QED BY <2>1, <2>6, <2>7, UnbatchedEpochs
<1>7. ASSUME NEW s \in DOMAIN chains, NEW g \in TombstoneSigners, CloseSession(s, g)
      PROVE  EpochsOk'
  <2> DEFINE ch  == chains[s]
             out == Sign(CloseRecord(ch, FALSE, Last(ch).timestamp + 1), g)
             new == Append(ch, out)
  <2>1. /\ WorkLeft /\ ~IsClose(Last(ch))
        /\ chains' = [chains EXCEPT ![s] = new]
        /\ calls' = calls + 1 /\ UNCHANGED <<anchors, sealed>>
    BY <1>7 DEF CloseSession
  <2>2. ChainOk(ch, s, how)
    BY <1>3
  <2>3. IsList(ch) /\ Len(ch) \in Nat /\ Len(ch) \in 1 .. Len(ch)
    BY <2>2, ListFacts DEF ChainOk
  <2>4. "batch" \notin DOMAIN out
    <3> HIDE DEF ch
    <3>1. Last(ch).timestamp \in Int
      <4>1. InSession(ch[Len(ch)], s, ch[1].agent_id, how)
        BY <2>2, <2>3, Kinds
      <4> QED BY <4>1 DEF InSession, Last
    <3>2. Last(ch).timestamp + 1 \in Int /\ Last(ch).timestamp + 1 >= Last(ch).timestamp
      BY <3>1
    <3> QED BY <1>1, <1>2, <1>3, <2>1, <2>2, <3>2, ClosedChain
  <2> HIDE DEF out
  <2>5. /\ Len(new) = Len(ch) + 1 /\ new[Len(ch) + 1] = out
        /\ \A j \in 1 .. Len(ch) : new[j] = ch[j]
    BY <2>3, ListAppend
  <2> HIDE DEF new
  <2>6. /\ DOMAIN chains' = DOMAIN chains /\ chains'[s] = new
        /\ \A t \in DOMAIN chains : t # s => chains'[t] = chains[t]
    BY <2>1
  <2>7. ASSUME NEW j \in 1 .. Len(chains'[s])
        PROVE  \/ "batch" \notin DOMAIN chains'[s][j]
               \/ j \in 1 .. Len(chains[s]) /\ chains'[s][j] = chains[s][j]
    <3>1. j \in 1 .. Len(ch) \/ j = Len(ch) + 1
      BY <2>3, <2>5, <2>6
    <3> QED BY <2>4, <2>5, <2>6, <3>1
  <2> QED BY <2>1, <2>6, <2>7, UnbatchedEpochs
<1>8. ASSUME NEW S \in (SUBSET DOMAIN chains) \ {{}}, NEW host \in AnchorHosts,
             NEW tsa \in BOOLEAN, Anchor(S, tsa, host)
      PROVE  EpochsOk'
  BY <1>8, AnchoredEpochs
<1>9. CASE UNCHANGED trailVars
  BY <1>9 DEF trailVars, EpochsOk
<1> QED BY <1>4, <1>5, <1>6, <1>7, <1>8, <1>9 DEF TrailNext

LEMMA EpochsAlways == TrailConstants /\ TrailSpec => [](TrailInv /\ EpochsOk)
<1> SUFFICES ASSUME TrailConstants PROVE TrailSpec => [](TrailInv /\ EpochsOk)
  OBVIOUS
<1>1. TrailInit => EpochsOk
  <2>1. DOMAIN << >> = {}
    OBVIOUS
  <2> QED BY <2>1 DEF TrailInit, EpochsOk, AnchorsAre, Anchored
<1>2. TrailInv /\ EpochsOk /\ [TrailNext]_trailVars => EpochsOk'
  BY EpochsNext
<1>3. TrailSpec => []TrailInv
  BY TrailInvAlways
<1> QED BY <1>1, <1>2, <1>3, PTL DEF TrailSpec

\* A relying party is handed the records of all the chains.
LEMMA AllRecordsTold ==
    ASSUME TrailInv, EpochsOk
    PROVE  /\ IsList(AllRecords)
           /\ \A i \in 1 .. Len(AllRecords) : BatchIs(AllRecords[i], sealed, calls)
<1>1. CASE DOMAIN chains = {}
  <2>1. Slots({}) = << >>
    <3> DEFINE order == SetToSeq({})
               seqs  == [n \in 1 .. Len(order) |->
                           [i \in 1 .. Len(chains[order[n]]) |-> <<order[n], i>>]]
    <3>1. Len(order) = 0
      BY SetListed, FS_EmptySet
    <3>2. seqs = << >> /\ Len(seqs) = 0
      <4> HIDE DEF order
      <4>1. seqs = [n \in 1 .. 0 |-> [i \in 1 .. Len(chains[order[n]]) |-> <<order[n], i>>]]
        BY <3>1
      <4>2. 1 .. 0 = {}
        OBVIOUS
      <4> HIDE DEF seqs
      <4>3. seqs = << >>
        BY <4>1, <4>2
      <4> QED BY <4>3
    <3>3. Slots({}) = FlattenSeq(seqs)
      BY DEF Slots
    <3> HIDE DEF seqs
    <3>4. FlattenSeq(seqs) = seqs
      BY <3>2 DEF FlattenSeq
    <3> QED BY <3>2, <3>3, <3>4
  <2>2. AllRecords = [n \in DOMAIN Slots({}) |-> chains[Slots({})[n][1]][Slots({})[n][2]]]
    BY <1>1 DEF AllRecords, Records
  <2>3. AllRecords = << >>
    BY <2>1, <2>2
  <2> QED BY <2>3, EmptyIsList
<1>2. CASE DOMAIN chains # {}
  <2> DEFINE slot == Slots(DOMAIN chains)
             N    == Len(slot)
  <2>1. IsFiniteSet(DOMAIN chains) /\ \A s \in DOMAIN chains : IsList(chains[s])
    <3>1. DOMAIN << >> = {}
      OBVIOUS
    <3> QED BY <1>2, <3>1 DEF TrailInv, CountsOk, ChainsOk, ChainOk
  <2>2. /\ IsList(slot)
        /\ \A n \in 1 .. N : \E s \in DOMAIN chains : \E i \in 1 .. Len(chains[s]) :
             slot[n] = <<s, i>>
    BY <1>2, <2>1, SlotsTold
  <2>3. N \in Nat /\ DOMAIN slot = 1 .. N
    BY <2>2, ListFacts
  <2>4. AllRecords = [n \in 1 .. N |-> chains[slot[n][1]][slot[n][2]]]
    BY <2>3 DEF AllRecords, Records
  <2> HIDE DEF slot, N
  <2>5. AllRecords = [n \in 1 .. N |-> AllRecords[n]]
    BY <2>4
  <2>6. IsList(AllRecords) /\ Len(AllRecords) = N
    BY <2>3, <2>5, ListOf
  <2>7. ASSUME NEW n \in 1 .. N PROVE BatchIs(AllRecords[n], sealed, calls)
    <3>1. PICK s \in DOMAIN chains : \E i \in 1 .. Len(chains[s]) : slot[n] = <<s, i>>
      BY <2>2
    <3>2. PICK i \in 1 .. Len(chains[s]) : slot[n] = <<s, i>>
      BY <3>1
    <3>3. AllRecords[n] = chains[s][i]
      BY <2>4, <3>2
    <3> QED BY <3>3 DEF EpochsOk
  <2> QED BY <2>6, <2>7
<1> QED BY <1>1, <1>2

(* Whatever was exported, erased, closed and anchored, verify_epochs with   *)
(* completeness asked for says yes to the records of all the chains, or to  *)
(* an altered copy of them, exactly when every anchored record is there     *)
(* unchanged and every batch object is that of its record under an anchor;  *)
(* without completeness its yes still means the latter (aat.py:644-798).    *)
THEOREM TrailEpochs == TrailConstants /\ TrailSpec => []EpochVerdictIsExact
<1> SUFFICES ASSUME TrailConstants PROVE TrailSpec => []EpochVerdictIsExact
  OBVIOUS
<1>1. TrailInv /\ EpochsOk => EpochVerdictIsExact
  <2> SUFFICES ASSUME TrailInv, EpochsOk, NEW recs \in AlteredEpoch(AllRecords)
               PROVE  /\ VerifyEpochs(BatchesFit(recs, anchors, TRUE), anchors, Good, Genuine) = "ok"
                           <=> Intact(recs) /\ \A i \in InBatch(recs) : IsLeaf(recs[i])
                      /\ VerifyEpochs(BatchesFit(recs, anchors, FALSE), anchors, Good, Genuine) = "ok"
                           => \A i \in InBatch(recs) : IsLeaf(recs[i])
    BY Zenon DEF EpochVerdictIsExact
  <2>1. AnchorsAre(anchors, sealed, calls)
    BY DEF EpochsOk
  <2>2. /\ IsList(AllRecords)
        /\ \A i \in 1 .. Len(AllRecords) : BatchIs(AllRecords[i], sealed, calls)
    BY AllRecordsTold
  <2>3. Len(recs) \in Nat /\ \A i \in 1 .. Len(recs) : Handed(recs[i], sealed)
    BY <2>1, <2>2, AlteredHanded
  <2> QED BY <2>1, <2>3, EpochVerdict
<1>2. TrailSpec => [](TrailInv /\ EpochsOk)
  BY EpochsAlways
<1> QED BY <1>1, <1>2, PTL
=============================================================================
