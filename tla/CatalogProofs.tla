--------------------------- MODULE CatalogProofs ---------------------------
(***************************************************************************)
(* The invariants of Catalog, for every DATA.INI, any archives with any    *)
(* names, and whatever lower-casing and the codecs make of letters.        *)
(***************************************************************************)
EXTENDS Catalog, FiniteSetTheorems, TLAPS

-----------------------------------------------------------------------------
(* Least elements.                                                         *)

LEMMA Least == ASSUME NEW S, S \subseteq Nat, S # {} PROVE \E i \in S : \A j \in S : i <= j
<1> DEFINE R == OpToRel(<, Nat)
<1>1. IsWellFoundedOn(R, Nat)
  BY NatLessThanWellFounded
<1>2. PICK i \in S : \A j \in S : ~ (<<j, i>> \in R)
  <2> HIDE DEF R
  <2> QED
    BY <1>1, WFMin
<1>3. \A j \in S : ~ (j < i)
  BY <1>2, Zenon DEF OpToRel
<1> QED
  BY <1>3

\* The least element is the one that the definitions choose.
LEMMA LeastIsChosen ==
    ASSUME NEW S, S \subseteq Nat, NEW i \in S, \A j \in S : i <= j
    PROVE  (CHOOSE x \in S : \A y \in S : x <= y) = i
<1>1. \A x \in S : (\A y \in S : x <= y) => x = i
  <2> SUFFICES ASSUME NEW x \in S, \A y \in S : x <= y
               PROVE  x = i
    OBVIOUS
  <2>1. x <= i /\ i <= x /\ x \in Nat /\ i \in Nat
    OBVIOUS
  <2> QED
    BY <2>1
<1>2. \E x \in S : \A y \in S : x <= y
  OBVIOUS
<1> QED
  BY <1>1, <1>2, Zenon

-----------------------------------------------------------------------------
(* The order of the entries of DATA.INI.                                   *)

Earlier(es, i, j) == es[i].index < es[j].index \/ (es[i].index = es[j].index /\ i < j)
Rank(es, i) == Cardinality({j \in DOMAIN es : Earlier(es, j, i)})

\* Entries can be told apart by how many come before them.
LEMMA EarlierOrders ==
    ASSUME NEW es \in Seq(Entry)
    PROVE  /\ IsFiniteSet(DOMAIN es) /\ Cardinality(DOMAIN es) = Len(es)
           /\ DOMAIN es = 1 .. Len(es) /\ Len(es) \in Nat
           /\ \A i \in DOMAIN es : es[i].index \in Int
           /\ \A i, j \in DOMAIN es : i = j \/ Earlier(es, i, j) \/ Earlier(es, j, i)
           /\ \A i \in DOMAIN es : ~ Earlier(es, i, i)
           /\ \A i, j, k \in DOMAIN es : Earlier(es, i, j) /\ Earlier(es, j, k) => Earlier(es, i, k)
<1>1. /\ DOMAIN es = 1 .. Len(es) /\ Len(es) \in Nat
      /\ \A i \in DOMAIN es : es[i] \in Entry
  OBVIOUS
<1>2. \A i \in DOMAIN es : es[i].index \in Int /\ i \in Nat
  BY <1>1 DEF Entry
<1>3. IsFiniteSet(1 .. Len(es)) /\ Cardinality(1 .. Len(es)) = IF 1 > Len(es) THEN 0 ELSE Len(es) - 1 + 1
  BY <1>1, FS_Interval
<1>4. IsFiniteSet(DOMAIN es) /\ Cardinality(DOMAIN es) = Len(es)
  BY <1>1, <1>3
<1>5. \A i, j \in DOMAIN es : i = j \/ Earlier(es, i, j) \/ Earlier(es, j, i)
  BY <1>1, <1>2 DEF Earlier
<1>6. \A i \in DOMAIN es : ~ Earlier(es, i, i)
  BY <1>1, <1>2 DEF Earlier
<1>7. \A i, j, k \in DOMAIN es : Earlier(es, i, j) /\ Earlier(es, j, k) => Earlier(es, i, k)
  BY <1>1, <1>2 DEF Earlier
<1> QED
  BY <1>1, <1>2, <1>4, <1>5, <1>6, <1>7

LEMMA RankGrows ==
    ASSUME NEW es \in Seq(Entry), NEW i \in DOMAIN es, NEW j \in DOMAIN es, Earlier(es, i, j)
    PROVE  Rank(es, i) < Rank(es, j)
<1> DEFINE A == {k \in DOMAIN es : Earlier(es, k, i)}
           B == {k \in DOMAIN es : Earlier(es, k, j)}
<1>1. A \subseteq B /\ i \in B /\ i \notin A /\ B \in SUBSET DOMAIN es
  BY EarlierOrders, Zenon
<1>2. IsFiniteSet(B)
  BY <1>1, EarlierOrders, FS_Subset, Zenon
<1>3. /\ IsFiniteSet(A) /\ Cardinality(A) <= Cardinality(B)
      /\ Cardinality(B) = Cardinality(A) => B = A
  BY <1>1, <1>2, FS_Subset
<1>4. Cardinality(A) # Cardinality(B)
  BY <1>1, <1>3, Zenon
<1>5. Cardinality(A) \in Nat /\ Cardinality(B) \in Nat
  BY <1>2, <1>3, FS_CardinalityType
<1> HIDE DEF A, B
<1>6. Cardinality(A) < Cardinality(B)
  BY <1>3, <1>4, <1>5
<1> QED
  BY <1>6, Zenon DEF A, B, Rank

\* Every place in the order is somebody's.
LEMMA RankReaches ==
    ASSUME NEW es \in Seq(Entry), NEW n \in 1 .. Len(es)
    PROVE  \E i \in DOMAIN es : Rank(es, i) = n - 1
<1> DEFINE D == DOMAIN es
           T == 0 .. Len(es) - 1
           r == [i \in D |-> Rank(es, i)]
<1>0. IsFiniteSet(D) /\ Cardinality(D) = Len(es) /\ Len(es) \in Nat /\ D = 1 .. Len(es)
  BY EarlierOrders, Zenon
<1>1. \A i \in D : Rank(es, i) \in T
  <2> SUFFICES ASSUME NEW i \in D
               PROVE  Rank(es, i) \in T
    OBVIOUS
  <2> DEFINE A == {k \in DOMAIN es : Earlier(es, k, i)}
  <2>1. A \in SUBSET D /\ i \notin A
    BY EarlierOrders, Zenon
  <2>2. /\ IsFiniteSet(A) /\ Cardinality(A) <= Cardinality(D)
        /\ Cardinality(D) = Cardinality(A) => D = A
    BY <1>0, <2>1, FS_Subset
  <2>3. Cardinality(A) # Cardinality(D) /\ Cardinality(A) \in Nat
    BY <2>1, <2>2, FS_CardinalityType, Zenon
  <2> HIDE DEF A
  <2>4. Cardinality(A) \in T
    BY <1>0, <2>2, <2>3
  <2> QED
    BY <2>4, Zenon DEF A, Rank
<1>2. \A i, j \in D : Rank(es, i) = Rank(es, j) => i = j
  <2> SUFFICES ASSUME NEW i \in D, NEW j \in D, Rank(es, i) = Rank(es, j), i # j
               PROVE  FALSE
    OBVIOUS
  <2>1. Earlier(es, i, j) \/ Earlier(es, j, i)
    BY EarlierOrders, Zenon
  <2>2. Rank(es, i) \in Int /\ Rank(es, j) \in Int
    BY <1>1
  <2>3. Rank(es, i) < Rank(es, j) \/ Rank(es, j) < Rank(es, i)
    BY <2>1, RankGrows, Zenon
  <2> QED
    BY <2>2, <2>3
<1>3. r \in Injection(D, T)
  BY <1>1, <1>2, Zenon DEF Injection, IsInjective
<1>4. IsFiniteSet(T) /\ Cardinality(T) = Len(es)
  <2>1. Len(es) - 1 \in Int /\ 0 \in Int
    BY <1>0
  <2>2. IsFiniteSet(T) /\ Cardinality(T) = IF 0 > Len(es) - 1 THEN 0 ELSE Len(es) - 1 - 0 + 1
    BY <2>1, FS_Interval
  <2> QED
    BY <1>0, <2>2
<1>5. r \in Surjection(D, T)
  BY <1>0, <1>3, <1>4, FS_Injection, Zenon
<1>6. n - 1 \in T
  BY <1>0
<1> QED
  BY <1>5, <1>6, Zenon DEF Surjection

\* The line that is loaded n-th.
LineOf(es, n) == CHOOSE i \in DOMAIN es : Rank(es, i) = n - 1

LEMMA SortedByRank ==
    ASSUME NEW es \in Seq(Entry)
    PROVE  /\ Sorted(es) \in Seq(Archives) /\ Len(Sorted(es)) = Len(es)
           /\ \A n \in 1 .. Len(es) : LineOf(es, n) \in DOMAIN es /\ Sorted(es)[n] = es[LineOf(es, n)].archive
           /\ \A m, n \in 1 .. Len(es) : m < n => Earlier(es, LineOf(es, m), LineOf(es, n))
<1>1. DOMAIN es = 1 .. Len(es) /\ Len(es) \in Nat
  OBVIOUS
<1>2. Sorted(es) = [n \in DOMAIN es |-> es[LineOf(es, n)].archive]
  BY Zenon DEF Sorted, LineOf, Rank, Earlier
<1>3. \A n \in 1 .. Len(es) : LineOf(es, n) \in DOMAIN es /\ Rank(es, LineOf(es, n)) = n - 1
  BY RankReaches, Zenon DEF LineOf
<1>4. \A n \in 1 .. Len(es) : es[LineOf(es, n)].archive \in Archives
  <2>1. \A i \in DOMAIN es : es[i].archive \in Archives
    <3>1. \A e \in Entry : e.archive \in Archives
      BY DEF Entry
    <3>2. \A i \in DOMAIN es : es[i] \in Entry
      OBVIOUS
    <3> QED
      BY <3>1, <3>2, Zenon
  <2> QED
    BY <1>3, <2>1, Zenon
<1>5. /\ Sorted(es) \in Seq(Archives) /\ Len(Sorted(es)) = Len(es)
      /\ \A n \in 1 .. Len(es) : Sorted(es)[n] = es[LineOf(es, n)].archive
  BY <1>1, <1>2, <1>4
<1>6. ASSUME NEW m \in 1 .. Len(es), NEW n \in 1 .. Len(es), m < n
      PROVE  Earlier(es, LineOf(es, m), LineOf(es, n))
  <2> DEFINE i == LineOf(es, m)
             j == LineOf(es, n)
  <2>1. i \in DOMAIN es /\ j \in DOMAIN es /\ Rank(es, i) = m - 1 /\ Rank(es, j) = n - 1
    BY <1>3
  <2> HIDE DEF i, j
  <2>2. i # j /\ ~ (Rank(es, j) < Rank(es, i))
    BY <1>1, <1>6, <2>1
  <2>3. Earlier(es, i, j)
    BY <2>1, <2>2, EarlierOrders, RankGrows, Zenon
  <2> QED
    BY <2>3 DEF i, j
<1> QED
  BY <1>3, <1>5, <1>6

-----------------------------------------------------------------------------
(* Sums over sets.                                                         *)

\* A sum taken element by element, as FoldFunction takes it.
Taken(s) == CHOOSE x \in s : TRUE
Stepped(g, w, s) == IF s = {} THEN 0 ELSE w[Taken(s)] + g[s \ {Taken(s)}]
SumsUp(g, w, D) == g = [s \in D |-> Stepped(g, w, s)]

LEMMA SumExists ==
    ASSUME NEW S, IsFiniteSet(S), NEW w \in [S -> Nat]
    PROVE  \E g : SumsUp(g, w, SUBSET S)
<1> DEFINE Small(n) == {s \in SUBSET S : Cardinality(s) <= n}
           Bad == {n \in Nat : ~ \E g : SumsUp(g, w, Small(n))}
<1>1. \A s \in SUBSET S : IsFiniteSet(s) /\ Cardinality(s) \in Nat /\ Cardinality(s) <= Cardinality(S)
  BY FS_Subset, FS_CardinalityType
<1>2. Bad = {}
  <2> SUFFICES ASSUME Bad # {}
               PROVE  FALSE
    OBVIOUS
  <2>1. PICK n \in Bad : \A m \in Bad : n <= m
    BY Least
  <2>2. CASE n = 0
    <3>1. \A s \in Small(0) : s = {}
      BY <1>1, FS_EmptySet
    <3>2. SumsUp([s \in Small(0) |-> 0], w, Small(0))
      BY <3>1 DEF SumsUp, Stepped
    <3> QED
      BY <2>2, <3>2
  <2>3. CASE n # 0
    <3>1. n - 1 \in Nat /\ n - 1 \notin Bad
      <4>1. n \in Nat /\ \A m \in Bad : n <= m
        BY <2>1
      <4> HIDE DEF Bad
      <4> QED
        BY <2>3, <4>1
    <3>2. PICK g : SumsUp(g, w, Small(n - 1))
      BY <3>1
    <3> DEFINE h == [s \in Small(n) |-> Stepped(g, w, s)]
    <3>3. \A s \in Small(n - 1) : s \in Small(n) /\ h[s] = g[s]
      <4>1. \A s \in Small(n - 1) : s \in Small(n)
        BY <1>1, <3>1
      <4>2. \A s \in Small(n - 1) : g[s] = Stepped(g, w, s)
        BY <3>2, Zenon DEF SumsUp
      <4> HIDE DEF Small
      <4> QED
        BY <4>1, <4>2, Zenon
    <3>4. \A s \in Small(n) : s # {} => s \ {Taken(s)} \in Small(n - 1)
      <4> SUFFICES ASSUME NEW s \in Small(n), s # {}
                   PROVE  s \ {Taken(s)} \in Small(n - 1)
        OBVIOUS
      <4>1. Taken(s) \in s
        BY Zenon DEF Taken
      <4>2. Cardinality(s \ {Taken(s)}) = Cardinality(s) - 1
        BY <1>1, <4>1, FS_RemoveElement
      <4> QED
        BY <1>1, <2>1, <3>1, <4>2
    <3>5. \A s \in Small(n) : Stepped(g, w, s) = Stepped(h, w, s)
      <4> HIDE DEF Small, h
      <4> QED
        BY <3>3, <3>4, Zenon DEF Stepped
    <3>6. SumsUp(h, w, Small(n))
      <4> HIDE DEF Small
      <4> QED
        BY <3>5, Zenon DEF SumsUp
    <3> QED
      BY <2>1, <3>6
  <2> QED
    BY <2>2, <2>3
<1>3. Cardinality(S) \in Nat /\ Small(Cardinality(S)) = SUBSET S
  BY <1>1
<1> QED
  BY <1>2, <1>3

LEMMA SumOf ==
    ASSUME NEW S, IsFiniteSet(S), NEW w \in [S -> Nat]
    PROVE  \E g : SumsUp(g, w, SUBSET S) /\ SumFunction(w) = g[S]
<1> DEFINE F(h) == [s \in SUBSET S |-> Stepped(h, w, s)]
<1>1. \E g : g = F(g)
  <2>1. PICK g : SumsUp(g, w, SUBSET S)
    BY SumExists
  <2> QED
    BY <2>1, Zenon DEF SumsUp
<1>2. SumFunction(w) = (CHOOSE g : g = F(g))[S]
  <2>1. DOMAIN w = S
    OBVIOUS
  <2> QED
    BY <2>1, Zenon DEF SumFunction, SumFunctionOnSet, FoldFunctionOnSet,
                          MapThenFoldSet, Stepped, Taken
<1>3. (CHOOSE g : g = F(g)) = F(CHOOSE g : g = F(g))
  <2> HIDE DEF F
  <2> QED
    BY <1>1, Zenon
<1> QED
  BY <1>2, <1>3 DEF SumsUp

\* Sums are numbers, and keep to a bound that each of their terms keeps to.
LEMMA PartsKeep ==
    ASSUME NEW S, IsFiniteSet(S), NEW v \in [S -> Nat], NEW w \in [S -> Nat], NEW c \in Nat,
           \A i \in S : v[i] <= c * w[i],
           NEW g, SumsUp(g, v, SUBSET S), NEW h, SumsUp(h, w, SUBSET S)
    PROVE  \A s \in SUBSET S : g[s] \in Nat /\ h[s] \in Nat /\ g[s] <= c * h[s]
<1>3. \A s \in SUBSET S : IsFiniteSet(s) /\ Cardinality(s) \in Nat
  BY FS_Subset, FS_CardinalityType
<1> DEFINE Kept(s) == g[s] \in Nat /\ h[s] \in Nat /\ g[s] <= c * h[s]
           Bad == {n \in Nat : \E s \in SUBSET S : Cardinality(s) = n /\ ~ Kept(s)}
<1>4. Bad = {}
  <2> SUFFICES ASSUME Bad # {}
               PROVE  FALSE
    OBVIOUS
  <2>1. PICK n \in Bad : \A m \in Bad : n <= m
    BY Least
  <2>2. PICK s \in SUBSET S : Cardinality(s) = n /\ ~ Kept(s)
    BY <2>1
  <2>3. g[s] = Stepped(g, v, s) /\ h[s] = Stepped(h, w, s)
    BY Zenon DEF SumsUp
  <2>4. s # {}
    <3> SUFFICES ASSUME s = {}
                 PROVE  FALSE
      OBVIOUS
    <3>1. g[s] = 0 /\ h[s] = 0
      BY <2>3 DEF Stepped
    <3> QED
      BY <2>2, <3>1
  <2> DEFINE x == Taken(s)
             t == s \ {x}
  <2>5. x \in s /\ x \in S
    <3>1. x \in s
      BY <2>4, Zenon DEF Taken
    <3> QED
      BY <3>1
  <2>6. g[s] = v[x] + g[t] /\ h[s] = w[x] + h[t]
    BY <2>3, <2>4 DEF Stepped
  <2>7. t \in SUBSET S /\ Cardinality(t) = n - 1
    BY <1>3, <2>2, <2>5, FS_RemoveElement
  <2>8. Cardinality(t) \in Nat /\ Cardinality(t) \notin Bad
    <3>1. n \in Nat /\ \A m \in Bad : n <= m
      BY <2>1
    <3>2. Cardinality(t) \in Nat
      BY <1>3, <2>7
    <3> HIDE DEF Bad, t
    <3> QED
      BY <2>7, <3>1, <3>2
  <2>9. Kept(t)
    BY <2>7, <2>8
  <2> HIDE DEF x, t
  <2>10. v[x] \in Nat /\ w[x] \in Nat /\ v[x] <= c * w[x]
    BY <2>5
  <2>11. c * (w[x] + h[t]) = c * w[x] + c * h[t]
    BY <2>9, <2>10
  <2>12. c * w[x] \in Nat /\ c * h[t] \in Nat
    BY <2>9, <2>10
  <2>13. g[s] <= c * h[s]
    BY <2>6, <2>9, <2>10, <2>11, <2>12
  <2> QED
    BY <2>2, <2>6, <2>9, <2>10, <2>13
<1>5. ASSUME NEW s \in SUBSET S
      PROVE  Kept(s)
  <2> HIDE DEF Kept
  <2> QED
    BY <1>3, <1>4
<1> QED
  BY <1>5

LEMMA SumsCompare ==
    ASSUME NEW S, IsFiniteSet(S), NEW v \in [S -> Nat], NEW w \in [S -> Nat], NEW c \in Nat,
           \A i \in S : v[i] <= c * w[i]
    PROVE  /\ SumFunction(v) \in Nat /\ SumFunction(w) \in Nat
           /\ SumFunction(v) <= c * SumFunction(w)
<1>1. PICK g : SumsUp(g, v, SUBSET S) /\ SumFunction(v) = g[S]
  BY SumOf
<1>2. PICK h : SumsUp(h, w, SUBSET S) /\ SumFunction(w) = h[S]
  BY SumOf
<1>3. g[S] \in Nat /\ h[S] \in Nat /\ g[S] <= c * h[S]
  <2>1. \A s \in SUBSET S : g[s] \in Nat /\ h[s] \in Nat /\ g[s] <= c * h[s]
    BY <1>1, <1>2, PartsKeep
  <2> QED
    BY <2>1
<1> QED
  BY <1>1, <1>2, <1>3

\* A sum of numbers above zero is above zero.
LEMMA SumIsPositive ==
    ASSUME NEW S, IsFiniteSet(S), S # {}, NEW w \in [S -> Nat], \A i \in S : w[i] # 0
    PROVE  SumFunction(w) \in Nat \ {0}
<1>1. PICK h : SumsUp(h, w, SUBSET S) /\ SumFunction(w) = h[S]
  BY SumOf
<1> DEFINE x == Taken(S)
           t == S \ {x}
<1>2. x \in S
  BY Zenon DEF Taken
<1>3. h[S] = w[x] + h[t]
  BY <1>1, Zenon DEF SumsUp, Stepped
<1>4. \A s \in SUBSET S : h[s] \in Nat
  <2>1. \A i \in S : w[i] <= 1 * w[i]
    OBVIOUS
  <2> QED
    BY <1>1, <2>1, PartsKeep
<1>5. h[t] \in Nat /\ w[x] \in Nat /\ w[x] # 0
  BY <1>2, <1>4
<1> HIDE DEF x, t
<1> QED
  BY <1>1, <1>3, <1>5

-----------------------------------------------------------------------------
(* The choice of an encoding.                                              *)

\* detect_best_encoding, of names none of which is bad CP949 and each of
\* which has a bad character in a hundred bytes of UTF-8.
LEMMA DetectsCp949 ==
    ASSUME NEW names \in Seq(Raws), NEW high, high = {i \in DOMAIN names : names[i].high}, high # {},
           \A i \in high : names[i].badCp949 = 0 /\ 100 * names[i].badUtf8 >= names[i].bytes
    PROVE  DetectBestEncoding(names) = "cp949"
<1> DEFINE S == SampleNames(names)
           u == [i \in S |-> names[i].badUtf8]
           c == [i \in S |-> names[i].badCp949]
           b == [i \in S |-> names[i].bytes]
<1>1. DOMAIN names = 1 .. Len(names) /\ Len(names) \in Nat
  OBVIOUS
<1>2. \A i \in DOMAIN names : /\ names[i].badUtf8 \in Nat /\ names[i].badCp949 \in Nat
                              /\ names[i].bytes \in Nat /\ names[i].bytes # 0
  <2>1. \A r \in Raw : r.badUtf8 \in Nat /\ r.badCp949 \in Nat /\ r.bytes \in Nat /\ r.bytes # 0
    BY DEF Raw
  <2>2. \A i \in DOMAIN names : names[i] \in Raw
    BY CatalogAssumption
  <2> QED
    BY <2>1, <2>2
<1>3. S \subseteq high /\ high \subseteq DOMAIN names
  BY Zenon DEF SampleNames
<1>4. IsFiniteSet(S)
  <2>1. IsFiniteSet(1 .. Len(names))
    BY <1>1, 1 \in Int, FS_Interval
  <2> QED
    BY <1>1, <1>3, <2>1, FS_Subset
<1>5. S # {}
  <2>1. PICK i \in high : \A j \in high : i <= j
    <3>1. high \subseteq Nat
      BY <1>1, <1>3
    <3> QED
      BY <3>1, Least
  <2>2. {j \in 1 .. i : names[j].high} = {i}
    BY <1>1, <1>3, <2>1
  <2>3. Cardinality({j \in 1 .. i : names[j].high}) = 1
    BY <2>2, FS_Singleton
  <2>4. i \in S
    BY <2>1, <2>3, CatalogAssumption DEF SampleNames
  <2> QED
    BY <2>4
<1> HIDE DEF S
<1>6. /\ u \in [S -> Nat] /\ c \in [S -> Nat] /\ b \in [S -> Nat]
      /\ \A i \in S : b[i] # 0 /\ c[i] <= 0 * b[i] /\ b[i] <= 100 * u[i]
  <2> SUFFICES ASSUME NEW i \in S
               PROVE  /\ u[i] \in Nat /\ c[i] \in Nat /\ b[i] \in Nat
                      /\ b[i] # 0 /\ c[i] <= 0 * b[i] /\ b[i] <= 100 * u[i]
    BY Zenon
  <2>1. i \in high /\ i \in DOMAIN names
    BY <1>3
  <2> QED
    BY <1>2, <2>1
<1> DEFINE U == SumFunction(u)
           C == SumFunction(c)
           B == SumFunction(b)
<1> HIDE DEF u, c, b
<1>7. B \in Nat /\ B # 0
  <2>1. B \in Nat \ {0}
    BY <1>4, <1>5, <1>6, SumIsPositive, ZenonT(30)
  <2> QED
    BY <2>1
<1>8. C \in Nat /\ C <= 0 * B
  <2>1. \A i \in S : c[i] <= 0 * b[i]
    BY <1>6
  <2> QED
    BY <1>4, <1>6, <2>1, SumsCompare, 0 \in Nat, ZenonT(30)
<1>9. U \in Nat /\ B <= 100 * U
  <2>1. PICK k \in Nat : k = 100
    OBVIOUS
  <2>2. \A i \in S : b[i] <= k * u[i]
    BY <1>6, <2>1
  <2>3. U \in Nat /\ B <= k * U
    BY <1>4, <1>6, <2>2, SumsCompare, ZenonT(30)
  <2> QED
    BY <2>1, <2>3
<1> HIDE DEF U, C, B
<1>10. 100 * U >= B /\ C < U
  BY <1>7, <1>8, <1>9
<1> QED
  BY <1>5, <1>10, Zenon DEF DetectBestEncoding, S, U, C, B, u, c, b

-----------------------------------------------------------------------------
(* The inductive invariant.                                                *)

InOrder(es, archives) ==
    \A m, n \in DOMAIN archives : m < n =>
        \E i, j \in DOMAIN es :
            es[i].archive = archives[m] /\ es[j].archive = archives[n] /\ Earlier(es, i, j)

\* What is listed is in order, and unless there is an error it is all that
\* DATA.INI lists; what is opened is what was tried.
Loading ==
    /\ stage \in {"environment", "required", "ini"} => listed = <<>> /\ grfs = <<>> /\ ~ ini.read
    /\ InOrder(entries, listed)
    /\ ini.read /\ ~ errors => entries # <<>> /\ Len(listed) = Len(entries)
    /\ Len(grfs) <= Len(listed)
    /\ ini.read /\ stage # "open" => Len(grfs) = Len(listed)
    /\ stage \in {"index", "serve"} => ~ errors

\* The keys are the spellings of the files, each with the first that has it,
\* and a file that is not listed has none of its own.
Indexed ==
    /\ \A i \in DOMAIN files : files[i].name.letters \in NameLetters
    /\ \A i \in DOMAIN files : \A k \in Spellings(files[i].name) : k \in DOMAIN keys /\ keys[k] <= i
    /\ \A k \in DOMAIN keys : k \in Spellings(files[keys[k]].name)
    /\ \A i \in DOMAIN files : (\A n \in DOMAIN reachable : reachable[n] # i) =>
          \A k \in Spellings(files[i].name) : keys[k] < i

IInv == TypeOK /\ Loading /\ Indexed /\ HangulIsRead

LEMMA SpellingsAreTexts ==
    ASSUME NEW name \in Text
    PROVE  Spellings(name) \subseteq Text /\ NormForward(name) \in Spellings(name)
<1>1. Lower \in [Letters -> Letters] /\ ToMojibake \in [Letters -> Letters]
  BY CatalogAssumption
<1>2. \A t \in Text : NormForward(t) \in Text /\ NormBackward(t) \in Text /\ Mojibake(t) \in Text
  BY <1>1 DEF Text, Separators, NormForward, NormBackward, Mojibake
<1> QED
  BY <1>2 DEF Spellings

LEMMA AppendSeq ==
    ASSUME NEW T, NEW s \in Seq(T), NEW e \in T
    PROVE  /\ Append(s, e) \in Seq(T) /\ Len(Append(s, e)) = Len(s) + 1
           /\ DOMAIN Append(s, e) = DOMAIN s \cup {Len(s) + 1}
           /\ DOMAIN s = 1 .. Len(s) /\ Len(s) \in Nat /\ Len(s) + 1 \notin DOMAIN s
           /\ \A i \in DOMAIN s : Append(s, e)[i] = s[i]
           /\ Append(s, e)[Len(s) + 1] = e
OBVIOUS

LEMMA WiderSeq ==
    ASSUME NEW T, NEW U, T \subseteq U, NEW s \in Seq(T)
    PROVE  s \in Seq(U)
OBVIOUS

LEMMA SeqElement ==
    ASSUME NEW T, NEW s \in Seq(T), NEW i \in DOMAIN s
    PROVE  s[i] \in T
OBVIOUS

LEMMA SeqOf ==
    ASSUME NEW T, NEW n \in Nat, NEW f \in [1 .. n -> T]
    PROVE  f \in Seq(T) /\ Len(f) = n /\ DOMAIN f = 1 .. n
OBVIOUS

\* A sequence with one of its elements taken out.
Cut(s, c) == [i \in 1 .. Len(s) - 1 |-> s[IF i <= c THEN i ELSE i + 1]]

LEMMA CutSeq ==
    ASSUME NEW T, NEW s \in Seq(T), NEW c \in Nat, c < Len(s)
    PROVE  /\ Cut(s, c) \in Seq(T) /\ Len(Cut(s, c)) = Len(s) - 1
           /\ \A m, n \in DOMAIN Cut(s, c) : m < n =>
                 \E i, j \in DOMAIN s : i < j /\ Cut(s, c)[m] = s[i] /\ Cut(s, c)[n] = s[j]
<1> DEFINE At(i) == IF i <= c THEN i ELSE i + 1
<1>1. Len(s) \in Nat /\ DOMAIN s = 1 .. Len(s) /\ Len(s) - 1 \in Nat
  OBVIOUS
<1>2. \A i \in 1 .. Len(s) - 1 : At(i) \in DOMAIN s
  BY <1>1
<1>3. \A m, n \in 1 .. Len(s) - 1 : m < n => At(m) < At(n)
  BY <1>1
<1>4. Cut(s, c) = [i \in 1 .. Len(s) - 1 |-> s[At(i)]]
  BY Zenon DEF Cut
<1> HIDE DEF At
<1>5. \A i \in 1 .. Len(s) - 1 : s[At(i)] \in T
  BY <1>1, <1>2
<1>6. Cut(s, c) \in Seq(T) /\ Len(Cut(s, c)) = Len(s) - 1 /\ DOMAIN Cut(s, c) = 1 .. Len(s) - 1
  <2>1. Cut(s, c) \in [1 .. Len(s) - 1 -> T]
    BY <1>4, <1>5
  <2> QED
    BY <1>1, <2>1, SeqOf, Zenon
<1>7. \A m \in DOMAIN Cut(s, c) : Cut(s, c)[m] = s[At(m)] /\ At(m) \in DOMAIN s
  BY <1>2, <1>4, <1>6
<1> QED
  BY <1>3, <1>6, <1>7

-----------------------------------------------------------------------------
(* Every step keeps it.                                                    *)

LEMMA InitIInv == Init => IInv
<1> SUFFICES ASSUME Init
             PROVE  IInv
  OBVIOUS
<1>1. TypeOK
  <2>1. /\ ini \in [lines : 0 .. MaxLines, data : BOOLEAN, last : Int, read : BOOLEAN]
        /\ entries \in Seq(Entry) /\ listed \in Seq(Archives) /\ grfs \in Seq(Grf)
        /\ files \in Seq([grf : DOMAIN grfs, name : Text]) /\ reachable \in Seq(DOMAIN files)
    BY CatalogAssumption DEF Init
  <2>2. DOMAIN keys = {}
    BY DEF Init
  <2> QED
    BY <2>1, <2>2 DEF Init, TypeOK
<1>2. Loading
  BY DEF Init, Loading, InOrder
<1>3. Indexed /\ HangulIsRead
  BY DEF Init, Indexed, HangulIsRead
<1> QED
  BY <1>1, <1>2, <1>3 DEF IInv

IniState == [lines : 0 .. MaxLines, data : BOOLEAN, last : Int, read : BOOLEAN]

LEMMA IniCounts ==
    ASSUME NEW i \in IniState, i.lines < MaxLines
    PROVE  /\ [i EXCEPT !.lines = @ + 1] \in IniState
           /\ [i EXCEPT !.lines = @ + 1].read = i.read
           /\ \A d \in BOOLEAN : LET j == [i EXCEPT !.lines = @ + 1, !.data = d] IN
                 j \in IniState /\ j.read = i.read
           /\ \A n \in Int : LET j == [i EXCEPT !.lines = @ + 1, !.last = n] IN
                 j \in IniState /\ j.read = i.read
<1>1. i.lines + 1 \in 0 .. MaxLines
  BY CatalogAssumption DEF IniState
<1> QED
  BY <1>1 DEF IniState

\* The checks and the lines of DATA.INI.
Checks ==
    \/ \E address \in {"unset", "invalid", "usable"}, targets, directories \in BOOLEAN :
          ValidateEnvironment(address, targets, directories)
    \/ \E resources, file \in BOOLEAN : ValidateRequired(resources, file)
    \/ IniUnreadable
    \/ \E isData \in BOOLEAN : Header(isData)

LEMMA OthersKeepIndexed ==
    ASSUME IInv, UNCHANGED <<grfs, index>>
    PROVE  Indexed' /\ HangulIsRead'
<1>1. files' = files /\ keys' = keys /\ reachable' = reachable /\ grfs' = grfs
  BY DEF index
<1>2. Indexed'
  BY <1>1, ZenonT(30) DEF IInv, Indexed, Spellings, NormForward, NormBackward, Mojibake
<1>3. HangulIsRead'
  BY <1>1, ZenonT(30) DEF IInv, HangulIsRead
<1> QED
  BY <1>2, <1>3

LEMMA ChecksKeep == IInv /\ Checks => IInv'
<1> SUFFICES ASSUME IInv, Checks
             PROVE  IInv'
  OBVIOUS
<1>0. TypeOK /\ Loading
  BY DEF IInv
<1>1. UNCHANGED <<entries, listed, grfs, index>>
  BY Zenon DEF Checks, ValidateEnvironment, ValidateRequired, IniUnreadable, Header
<1>2. /\ stage' \in {"required", "ini", "decide"} /\ stage \in {"environment", "required", "ini"}
      /\ errors' \in BOOLEAN /\ ini'.read = ini.read
      /\ ini' \in [lines : 0 .. MaxLines, data : BOOLEAN, last : Int, read : BOOLEAN]
  <2>1. CASE \E address \in {"unset", "invalid", "usable"}, targets, directories \in BOOLEAN :
                ValidateEnvironment(address, targets, directories)
    BY <1>0, <2>1 DEF ValidateEnvironment, TypeOK
  <2>2. CASE \E resources, file \in BOOLEAN : ValidateRequired(resources, file)
    BY <1>0, <2>2 DEF ValidateRequired, TypeOK
  <2>3. CASE IniUnreadable
    BY <1>0, <2>3 DEF IniUnreadable, TypeOK
  <2>4. CASE \E isData \in BOOLEAN : Header(isData)
    <3>1. ini \in IniState /\ errors \in BOOLEAN
      BY <1>0, Zenon DEF TypeOK, IniState
    <3>2. PICK d \in BOOLEAN : Header(d)
      BY <2>4
    <3>3. ini' \in IniState /\ ini'.read = ini.read
      BY <3>1, <3>2, IniCounts DEF Header
    <3> QED
      BY <3>1, <3>2, <3>3 DEF Header, IniState
  <2> QED
    BY <2>1, <2>2, <2>3, <2>4 DEF Checks
<1>3. TypeOK'
  BY <1>0, <1>1, <1>2 DEF TypeOK, index
<1>4. Loading'
  BY <1>0, <1>1, <1>2 DEF Loading
<1> QED
  BY <1>1, <1>3, <1>4, OthersKeepIndexed DEF IInv

LEMMA ListingKeeps ==
    ASSUME IInv, NEW number \in {{}} \cup {{n} : n \in Numbers}, NEW archive \in Archives,
           Listing(number, archive)
    PROVE  IInv'
<1>0. TypeOK /\ Loading
  BY DEF IInv
<1>1. /\ UNCHANGED <<stage, errors, listed, grfs, index>> /\ stage = "ini"
      /\ ini.lines < MaxLines
  BY DEF Listing
<1>2. PICK made \in Int :
        /\ ini' = [ini EXCEPT !.lines = @ + 1] \/ ini' = [ini EXCEPT !.lines = @ + 1, !.last = made]
        /\ \/ entries' = entries
           \/ \E n \in IF number = {} THEN {made} ELSE number :
                 entries' = Append(entries, [index |-> n, archive |-> archive])
  <2>1. ini.last \in Int /\ ini.last + 1 \in Int
    BY <1>0 DEF TypeOK
  <2> QED
    BY <2>1 DEF Listing
<1>3. /\ ini' \in [lines : 0 .. MaxLines, data : BOOLEAN, last : Int, read : BOOLEAN]
      /\ ini'.read = ini.read
  <2>1. ini \in IniState
    BY <1>0, Zenon DEF TypeOK, IniState
  <2>2. CASE ini' = [ini EXCEPT !.lines = @ + 1]
    BY <1>1, <2>1, <2>2, IniCounts DEF IniState
  <2>3. CASE ini' = [ini EXCEPT !.lines = @ + 1, !.last = made]
    <3>1. ini' \in IniState /\ ini'.read = ini.read
      BY <1>1, <2>1, <2>3, IniCounts, Zenon
    <3> QED
      BY <3>1 DEF IniState
  <2> QED
    BY <1>2, <2>2, <2>3
<1>4. entries' \in Seq(Entry)
  <2>1. CASE entries' = entries
    BY <1>0, <2>1 DEF TypeOK
  <2>2. ASSUME NEW n \in IF number = {} THEN {made} ELSE number,
               entries' = Append(entries, [index |-> n, archive |-> archive])
        PROVE  entries' \in Seq(Entry)
    <3>1. n \in Int
      BY CatalogAssumption
    <3>2. [index |-> n, archive |-> archive] \in Entry
      BY <3>1 DEF Entry
    <3> QED
      BY <1>0, <2>2, <3>2, AppendSeq DEF TypeOK
  <2> QED
    BY <1>2, <2>1, <2>2
<1>5. TypeOK'
  BY <1>0, <1>1, <1>3, <1>4 DEF TypeOK, index
<1>6. Loading'
  <2>1. listed = <<>> /\ grfs = <<>> /\ ~ ini.read
    BY <1>0, <1>1 DEF Loading
  <2> QED
    BY <1>1, <1>3, <2>1 DEF Loading, InOrder
<1> QED
  BY <1>1, <1>5, <1>6, OthersKeepIndexed DEF IInv

LEMMA IniEndsKeeps == IInv /\ IniEnds => IInv'
<1> SUFFICES ASSUME IInv, IniEnds
             PROVE  IInv'
  OBVIOUS
<1>0. TypeOK /\ Loading
  BY DEF IInv
<1>1. /\ entries \in Seq(Entry) /\ listed' = Sorted(entries) /\ entries' = entries
      /\ listed' \in Seq(Archives) /\ Len(listed') = Len(entries)
      /\ grfs = <<>> /\ UNCHANGED <<grfs, index>> /\ stage' = "open"
  BY <1>0, SortedByRank DEF IniEnds, TypeOK, Loading
<1>2. InOrder(entries, listed')
  <2> SUFFICES ASSUME NEW m \in DOMAIN listed', NEW n \in DOMAIN listed', m < n
               PROVE  \E i, j \in DOMAIN entries :
                         /\ entries[i].archive = listed'[m] /\ entries[j].archive = listed'[n]
                         /\ Earlier(entries, i, j)
    BY DEF InOrder
  <2>1. m \in 1 .. Len(entries) /\ n \in 1 .. Len(entries)
    BY <1>1
  <2>2. /\ LineOf(entries, m) \in DOMAIN entries /\ LineOf(entries, n) \in DOMAIN entries
        /\ Earlier(entries, LineOf(entries, m), LineOf(entries, n))
        /\ listed'[m] = entries[LineOf(entries, m)].archive
        /\ listed'[n] = entries[LineOf(entries, n)].archive
    BY <1>1, <2>1, SortedByRank
  <2> QED
    BY <2>2, Zenon
<1>3. TypeOK'
  BY <1>0, <1>1, CatalogAssumption DEF IniEnds, TypeOK, index
<1>4. Loading'
  <2>1. (ini.read /\ ~ errors)' => entries' # <<>>
    BY <1>1 DEF IniEnds
  <2>2. Len(grfs') <= Len(listed')
    BY <1>1
  <2> QED
    BY <1>1, <1>2, <2>1, <2>2 DEF Loading
<1> QED
  BY <1>1, <1>3, <1>4, OthersKeepIndexed DEF IInv

LEMMA OpenGrfKeeps ==
    ASSUME IInv, NEW n \in 0 .. MaxFiles, NEW names \in [1 .. n -> Raws], OpenGrf(names)
    PROVE  IInv'
<1>0. TypeOK /\ Loading /\ Indexed /\ HangulIsRead
  BY DEF IInv
<1> DEFINE encoding == IF Forced # "none" THEN Forced ELSE DetectBestEncoding(names)
           grf == [archive |-> listed[Tried + 1], names |-> names, encoding |-> encoding]
<1>1. /\ stage = "open" /\ Tried < Len(listed) /\ grfs' = Append(grfs, grf)
      /\ UNCHANGED <<stage, errors, ini, entries, listed, index>>
  BY Zenon DEF OpenGrf
<1>2. encoding \in {"utf-8", "cp949"}
  BY CatalogAssumption DEF DetectBestEncoding
<1>3. names \in Seq(Raws)
  BY SeqOf
<1>4. grfs \in Seq(Grf) /\ listed \in Seq(Archives) /\ Tried = Len(grfs)
  BY <1>0, Zenon DEF TypeOK, Tried
<1>5. grf \in Grf
  <2>1. listed[Tried + 1] \in Archives
    BY <1>1, <1>4
  <2> HIDE DEF encoding
  <2> QED
    BY <1>2, <1>3, <2>1 DEF Grf
<1> HIDE DEF grf
<1>6. /\ grfs' \in Seq(Grf) /\ Len(grfs') = Len(grfs) + 1 /\ DOMAIN grfs \subseteq DOMAIN grfs'
      /\ DOMAIN grfs' = DOMAIN grfs \cup {Len(grfs) + 1}
      /\ \A i \in DOMAIN grfs : grfs'[i] = grfs[i]
      /\ grfs'[Len(grfs) + 1] = grf
  BY <1>1, <1>4, <1>5, AppendSeq
<1>7. TypeOK'
  <2>1. [grf : DOMAIN grfs, name : Text] \subseteq [grf : DOMAIN grfs', name : Text]
    BY <1>6
  <2>2. files \in Seq([grf : DOMAIN grfs, name : Text])
    BY <1>0 DEF TypeOK
  <2>3. files' \in Seq([grf : DOMAIN grfs', name : Text])
    <3>1. files' = files
      BY <1>1 DEF index
    <3> QED
      BY <2>1, <2>2, <3>1, WiderSeq, Zenon
  <2> QED
    BY <1>0, <1>1, <1>6, <2>3 DEF TypeOK, index
<1>8. Loading'
  <2>1. Len(grfs') <= Len(listed')
    BY <1>1, <1>4, <1>6
  <2> QED
    BY <1>0, <1>1, <2>1 DEF Loading
<1>9. HangulIsRead'
  <2> DEFINE high(ns) == {i \in DOMAIN ns : ns[i].high}
             Plainly(g) == /\ Forced = "none" /\ high(g.names) # {}
                           /\ \A i \in high(g.names) : LET r == g.names[i] IN
                                 r.badCp949 = 0 /\ 100 * r.badUtf8 >= r.bytes
                           => g.encoding = "cp949"
  <2>1. \A m \in DOMAIN grfs : Plainly(grfs[m])
    BY <1>0, Zenon DEF HangulIsRead
  <2>2. Plainly(grf)
    <3>1. grf.names = names /\ grf.encoding = encoding
      BY DEF grf
    <3>2. CASE Forced = "none"
      BY <1>3, <3>1, <3>2, DetectsCp949, Zenon
    <3>3. CASE Forced # "none"
      BY <3>3
    <3> QED
      BY <3>2, <3>3
  <2>3. \A m \in DOMAIN grfs' : Plainly(grfs'[m])
    <3> HIDE DEF Plainly
    <3> QED
      BY <1>6, <2>1, <2>2, Zenon
  <2> QED
    BY <2>3, Zenon DEF HangulIsRead
<1>10. Indexed'
  BY <1>0, <1>1, Zenon DEF Indexed, index, Spellings, NormForward, NormBackward, Mojibake
<1> QED
  BY <1>7, <1>8, <1>9, <1>10 DEF IInv

LEMMA OpenFailsKeeps == IInv /\ OpenFails => IInv'
<1> SUFFICES ASSUME IInv, OpenFails
             PROVE  IInv'
  OBVIOUS
<1>0. TypeOK /\ Loading
  BY DEF IInv
<1>1. /\ listed \in Seq(Archives) /\ grfs \in Seq(Grf) /\ Tried = Len(grfs) /\ Tried \in Nat
      /\ Tried < Len(listed) /\ listed' = Cut(listed, Tried) /\ errors' = TRUE
      /\ stage = "open" /\ UNCHANGED <<stage, ini, entries, grfs, index>>
  <2>1. listed \in Seq(Archives) /\ grfs \in Seq(Grf) /\ Len(grfs) \in Nat /\ errors \in BOOLEAN
    BY <1>0 DEF TypeOK
  <2>2. errors' = TRUE
    BY <2>1 DEF OpenFails, Reported
  <2>3. listed' = Cut(listed, Tried)
    BY Zenon DEF OpenFails, Cut
  <2> QED
    BY <2>1, <2>2, <2>3, Zenon DEF OpenFails, Tried
<1>2. /\ listed' \in Seq(Archives) /\ Len(listed') = Len(listed) - 1
      /\ \A m, n \in DOMAIN listed' : m < n =>
            \E i, j \in DOMAIN listed : i < j /\ listed'[m] = listed[i] /\ listed'[n] = listed[j]
  BY <1>1, CutSeq
<1>3. InOrder(entries, listed')
  <2> SUFFICES ASSUME NEW m \in DOMAIN listed', NEW n \in DOMAIN listed', m < n
               PROVE  \E i, j \in DOMAIN entries :
                         /\ entries[i].archive = listed'[m] /\ entries[j].archive = listed'[n]
                         /\ Earlier(entries, i, j)
    BY DEF InOrder
  <2>1. PICK i, j \in DOMAIN listed : i < j /\ listed'[m] = listed[i] /\ listed'[n] = listed[j]
    BY <1>2, Zenon
  <2>2. InOrder(entries, listed)
    BY <1>0, Zenon DEF Loading
  <2>3. PICK x, y \in DOMAIN entries :
          entries[x].archive = listed[i] /\ entries[y].archive = listed[j] /\ Earlier(entries, x, y)
    BY <2>1, <2>2, ZenonT(30) DEF InOrder
  <2> QED
    BY <2>1, <2>3, ZenonT(30)
<1>4. TypeOK'
  BY <1>0, <1>1, <1>2 DEF TypeOK, index
<1>5. Loading'
  BY <1>0, <1>1, <1>2, <1>3 DEF Loading
<1> QED
  BY <1>1, <1>4, <1>5, OthersKeepIndexed DEF IInv

LEMMA StagesKeep == IInv /\ (AllTried \/ Decide \/ IndexBuilt) => IInv'
<1> SUFFICES ASSUME IInv, AllTried \/ Decide \/ IndexBuilt
             PROVE  IInv'
  OBVIOUS
<1>0. TypeOK /\ Loading
  BY DEF IInv
<1>1. /\ UNCHANGED <<errors, ini, entries, listed, grfs, index>>
      /\ \/ stage = "open" /\ stage' = "decide" /\ Len(grfs) = Len(listed)
         \/ stage = "decide" /\ stage' \in {"stopped", "index"} /\ (stage' = "index" => ~ errors)
         \/ stage = "index" /\ stage' = "serve"
  BY DEF AllTried, Decide, IndexBuilt, Tried, index
<1>2. TypeOK'
  BY <1>0, <1>1 DEF TypeOK, index
<1>3. Loading'
  BY <1>0, <1>1 DEF Loading
<1> QED
  BY <1>1, <1>2, <1>3, OthersKeepIndexed DEF IInv

\* The file that is indexed next is one of its archive's.
LEMMA NextFile ==
    ASSUME TypeOK, Taking # {}
    PROVE  LET g == CHOOSE x \in Taking : \A y \in Taking : x <= y
               name == Decode(grfs[g].encoding, grfs[g].names[TakenOf(g) + 1])
           IN  g \in DOMAIN grfs /\ name \in Text /\ name.letters \in NameLetters
<1> DEFINE g == CHOOSE x \in Taking : \A y \in Taking : x <= y
           raw == grfs[g].names[TakenOf(g) + 1]
<1>1. /\ grfs \in Seq(Grf) /\ DOMAIN grfs \subseteq Nat
      /\ DOMAIN files = 1 .. Len(files) /\ Len(files) \in Nat
  BY DEF TypeOK
<1>2. Taking \subseteq DOMAIN grfs
  BY Zenon DEF Taking
<1>3. g \in Taking
  <2>1. \E x \in Taking : \A y \in Taking : x <= y
    BY <1>1, <1>2, Least
  <2> QED
    BY <2>1, Zenon
<1> HIDE DEF g
<1>4. TakenOf(g) \in Nat
  <2>1. IsFiniteSet(1 .. Len(files))
    BY <1>1, 1 \in Int, FS_Interval
  <2>2. {i \in DOMAIN files : files[i].grf = g} \in SUBSET (1 .. Len(files))
    BY <1>1
  <2> QED
    BY <2>1, <2>2, FS_Subset, FS_CardinalityType DEF TakenOf
<1>5. g \in DOMAIN grfs /\ TakenOf(g) < Len(grfs[g].names)
  BY <1>2, <1>3 DEF Taking
<1>6. grfs[g].names \in Seq(Raws)
  <2>1. grfs[g] \in Grf
    BY <1>1, <1>5
  <2> QED
    BY <2>1 DEF Grf
<1>7. raw \in Raws
  BY <1>4, <1>5, <1>6
<1>8. raw \in Raw
  BY <1>7, CatalogAssumption
<1> HIDE DEF raw
<1>9. ASSUME NEW e
      PROVE  Decode(e, raw) \in Text /\ Decode(e, raw).letters \in NameLetters
  <2>1. Decode(e, raw) \in Text /\ Decode(e, raw).letters \in {raw.utf8, raw.cp949}
    BY <1>8 DEF Decode, Raw, Text
  <2> QED
    BY <1>7, <2>1 DEF NameLetters
<1> QED
  BY <1>5, <1>9, Zenon DEF g, raw

LEMMA IndexFileKeeps == IInv /\ IndexFile => IInv'
<1> SUFFICES ASSUME IInv, IndexFile
             PROVE  IInv'
  OBVIOUS
<1>0. TypeOK /\ Loading /\ Indexed /\ HangulIsRead
  BY DEF IInv
<1>1. PICK g \in DOMAIN grfs, name \in Text :
        /\ name.letters \in NameLetters
        /\ files' = Append(files, [grf |-> g, name |-> name])
        /\ keys' = [k \in DOMAIN keys \cup Spellings(name) |-> Claim(keys, k, Slot)]
        /\ reachable' = IF Wins(name) THEN Append(reachable, Slot) ELSE reachable
  BY <1>0, NextFile, Zenon DEF IndexFile
<1>2. UNCHANGED <<stage, errors, ini, entries, listed, grfs>>
  BY DEF IndexFile
<1> DEFINE File == [grf : DOMAIN grfs, name : Text]
           file == [grf |-> g, name |-> name]
<1>3. files \in Seq(File) /\ file \in File /\ reachable \in Seq(DOMAIN files)
  BY <1>0 DEF TypeOK
<1>4. /\ files' \in Seq(File) /\ DOMAIN files' = DOMAIN files \cup {Slot}
      /\ DOMAIN files = 1 .. Len(files) /\ Len(files) \in Nat /\ Slot = Len(files) + 1
      /\ Slot \notin DOMAIN files
      /\ \A i \in DOMAIN files : files'[i].name = files[i].name
      /\ files'[Slot].name = name
  <2> HIDE DEF File
  <2> QED
    BY <1>1, <1>3, AppendSeq DEF Slot
<1>5. /\ \A k \in DOMAIN keys : k \in Text /\ keys[k] \in DOMAIN files
      /\ Spellings(name) \subseteq Text
  BY <1>0, SpellingsAreTexts DEF TypeOK
<1>6. /\ DOMAIN keys' = DOMAIN keys \cup Spellings(name)
      /\ \A k \in DOMAIN keys : keys'[k] = keys[k]
      /\ \A k \in Spellings(name) : k \notin DOMAIN keys => keys'[k] = Slot
  BY <1>1 DEF Claim
<1>7. reachable' \in Seq(DOMAIN files')
  <2>1. reachable \in Seq(DOMAIN files')
    BY <1>3, <1>4, WiderSeq
  <2>2. Append(reachable, Slot) \in Seq(DOMAIN files')
    BY <1>4, <2>1, AppendSeq
  <2> QED
    BY <1>1, <2>1, <2>2
<1>8. TypeOK'
  <2>1. files' \in Seq([grf : DOMAIN grfs', name : Text])
    BY <1>2, <1>4
  <2>2. DOMAIN keys' \subseteq Text /\ \A k \in DOMAIN keys' : keys'[k] \in DOMAIN files'
    BY <1>4, <1>5, <1>6
  <2> QED
    BY <1>0, <1>2, <1>7, <2>1, <2>2 DEF TypeOK
<1>9. Loading' /\ HangulIsRead'
  BY <1>0, <1>2 DEF Loading, HangulIsRead
<1>10. \A i \in DOMAIN files : Spellings(files'[i].name) = Spellings(files[i].name)
  BY <1>4
<1>11. Spellings(files'[Slot].name) = Spellings(name)
  BY <1>4
<1>12. \A n \in DOMAIN reachable : n \in DOMAIN reachable' /\ reachable'[n] = reachable[n]
  BY <1>1, <1>3
<1>13. Wins(name) => \E n \in DOMAIN reachable' : reachable'[n] = Slot
  <2> SUFFICES ASSUME Wins(name)
               PROVE  \E n \in DOMAIN reachable' : reachable'[n] = Slot
    OBVIOUS
  <2>1. reachable' = Append(reachable, Slot)
    BY <1>1
  <2>2. Len(reachable) + 1 \in DOMAIN reachable' /\ reachable'[Len(reachable) + 1] = Slot
    BY <1>3, <2>1
  <2> QED
    BY <2>2
<1>14. ASSUME NEW i \in DOMAIN files'
       PROVE  /\ files'[i].name.letters \in NameLetters
              /\ \A k \in Spellings(files'[i].name) : k \in DOMAIN keys' /\ keys'[k] <= i
              /\ (\A n \in DOMAIN reachable' : reachable'[n] # i) =>
                    \A k \in Spellings(files'[i].name) : keys'[k] < i
  <2>1. CASE i \in DOMAIN files
    BY <1>0, <1>4, <1>6, <1>10, <1>12, <2>1 DEF Indexed
  <2>2. CASE i = Slot
    <3>1. \A k \in DOMAIN keys : keys'[k] < i
      BY <1>4, <1>5, <1>6, <2>2
    <3>2. \A k \in Spellings(name) : k \in DOMAIN keys' /\ (k \in DOMAIN keys \/ keys'[k] = i)
      BY <1>6, <2>2
    <3>3. i \in Nat /\ i <= i
      BY <1>4, <2>2
    <3>4. \A k \in Spellings(name) : keys'[k] <= i
      <4>1. \A k \in DOMAIN keys : keys'[k] \in Nat
        BY <1>4, <1>5, <1>6
      <4> QED
        BY <3>1, <3>2, <3>3, <4>1
    <3>5. (\A n \in DOMAIN reachable' : reachable'[n] # i) => \A k \in Spellings(name) : keys'[k] < i
      BY <1>13, <2>2, <3>1, Zenon DEF Wins
    <3> QED
      BY <1>1, <1>4, <2>2, <3>2, <3>4, <3>5
  <2> QED
    BY <1>4, <2>1, <2>2
<1>15. ASSUME NEW k \in DOMAIN keys'
       PROVE  k \in Spellings(files'[keys'[k]].name)
  <2>1. CASE k \in DOMAIN keys
    BY <1>0, <1>5, <1>6, <1>10, <2>1, Zenon DEF Indexed
  <2>2. CASE k \notin DOMAIN keys
    BY <1>4, <1>6, <2>2
  <2> QED
    BY <2>1, <2>2
<1>16. Indexed'
  BY <1>14, <1>15, Zenon DEF Indexed, Spellings, NormForward, NormBackward, Mojibake
<1> QED
  BY <1>8, <1>9, <1>16 DEF IInv

LEMMA NextIInv == IInv /\ [Next]_vars => IInv'
<1> SUFFICES ASSUME IInv, [Next]_vars
             PROVE  IInv'
  OBVIOUS
<1>1. CASE Checks
  BY <1>1, ChecksKeep
<1>2. ASSUME NEW number \in {{}} \cup {{n} : n \in Numbers}, NEW archive \in Archives,
             Listing(number, archive)
      PROVE  IInv'
  BY <1>2, ListingKeeps
<1>3. ASSUME NEW n \in 0 .. MaxFiles, NEW names \in [1 .. n -> Raws], OpenGrf(names)
      PROVE  IInv'
  BY <1>3, OpenGrfKeeps
<1>4. CASE IniEnds \/ OpenFails \/ IndexFile
  BY <1>4, IniEndsKeeps, OpenFailsKeeps, IndexFileKeeps
<1>5. CASE AllTried \/ Decide \/ IndexBuilt
  BY <1>5, StagesKeep
<1>6. CASE UNCHANGED vars
  <2>1. TypeOK' /\ Loading'
    BY <1>6 DEF IInv, TypeOK, Loading, vars, index
  <2>2. UNCHANGED <<grfs, index>>
    BY <1>6, Zenon DEF vars, index
  <2> QED
    BY <2>1, <2>2, OthersKeepIndexed DEF IInv
<1> QED
  BY <1>1, <1>2, <1>3, <1>4, <1>5, <1>6, Zenon DEF Next, Checks

LEMMA Invariance == Spec => []IInv
BY InitIInv, NextIInv, PTL DEF Spec

-----------------------------------------------------------------------------
(* What lookups find.                                                      *)

\* Both slash forms of a text are spellings of a name, or neither is.
LEMMA SlashesAgree ==
    ASSUME NEW t, NEW name, NormForward(t) \in Spellings(name) \/ NormBackward(t) \in Spellings(name)
    PROVE  NormForward(t) \in Spellings(name) /\ NormBackward(t) \in Spellings(name)
<1>1. PICK u \in {name, Mojibake(name)} :
         \/ NormForward(t) = NormForward(u) \/ NormForward(t) = NormBackward(u)
         \/ NormBackward(t) = NormForward(u) \/ NormBackward(t) = NormBackward(u)
  BY Zenon DEF Spellings
<1>2. \A x, y : /\ NormForward(x) = NormForward(y) \/ NormForward(x) = NormBackward(y) \/ NormBackward(x) = NormBackward(y)
                   => NormForward(x) = NormForward(y) /\ NormBackward(x) = NormBackward(y)
  <2> SUFFICES ASSUME NEW x, NEW y,
                      \/ NormForward(x) = NormForward(y) \/ NormForward(x) = NormBackward(y)
                      \/ NormBackward(x) = NormBackward(y)
               PROVE  NormForward(x) = NormForward(y) /\ NormBackward(x) = NormBackward(y)
    OBVIOUS
  <2>1. Lower[x.letters] = Lower[y.letters] /\ (x.sep = "" <=> y.sep = "")
    BY DEF NormForward, NormBackward
  <2> QED
    BY <2>1 DEF NormForward, NormBackward
<1>3. NormForward(t) = NormForward(u) /\ NormBackward(t) = NormBackward(u)
  BY <1>1, <1>2
<1> QED
  BY <1>1, <1>3, Zenon DEF Spellings

\* A lookup finds the first file that has the spelling.
LEMMA LookupFindsFirst ==
    ASSUME IInv, NEW t
    PROVE  /\ Answers(t) \subseteq Nat
           /\ Answers(t) = {} => Lookup(t) = {}
           /\ \A i \in Answers(t) : (\A j \in Answers(t) : i <= j) => Lookup(t) = {i}
<1>0. TypeOK /\ Indexed
  BY DEF IInv
<1>1. /\ DOMAIN files \subseteq Nat
      /\ \A k \in DOMAIN keys : keys[k] \in DOMAIN files
  BY <1>0 DEF TypeOK
<1>2. /\ Answers(t) \subseteq DOMAIN files
      /\ \A i \in DOMAIN files : NormForward(t) \in Spellings(files[i].name) => i \in Answers(t)
      /\ \A i \in Answers(t) : NormForward(t) \in Spellings(files[i].name)
      /\ \A i \in DOMAIN files : NormBackward(t) \in Spellings(files[i].name) => i \in Answers(t)
  BY SlashesAgree, Zenon DEF Answers
<1>3. ASSUME Answers(t) = {}
      PROVE  Lookup(t) = {}
  <2>1. NormForward(t) \notin DOMAIN keys /\ NormBackward(t) \notin DOMAIN keys
    BY <1>0, <1>1, <1>2, <1>3, Zenon DEF Indexed
  <2>2. {NormBackward(t)} \cap DOMAIN keys = {}
    BY <2>1
  <2> QED
    BY <2>1, <2>2 DEF Lookup
<1>4. ASSUME NEW i \in Answers(t), \A j \in Answers(t) : i <= j
      PROVE  Lookup(t) = {i}
  <2> DEFINE k == NormForward(t)
  <2>1. i \in DOMAIN files /\ k \in Spellings(files[i].name)
    BY <1>2
  <2>2. k \in DOMAIN keys /\ keys[k] <= i
    BY <1>0, <2>1, Zenon DEF Indexed
  <2>3. keys[k] \in Answers(t)
    BY <1>0, <1>1, <1>2, <2>2, Zenon DEF Indexed
  <2>4. i <= keys[k] /\ keys[k] \in Nat /\ i \in Nat
    BY <1>1, <1>2, <1>4, <2>1, <2>3
  <2>5. keys[k] = i
    BY <2>2, <2>4
  <2> QED
    BY <2>2, <2>5 DEF Lookup
<1> QED
  BY <1>1, <1>2, <1>3, <1>4

LEMMA LadderStarts ==
    ASSUME NEW t
    PROVE  DOMAIN Ladder(t) \subseteq Nat \ {0} /\ 1 \in DOMAIN Ladder(t) /\ Ladder(t)[1] = t
<1>1. PICK x, y : Ladder(t) = <<t, Read(t)>> \o (IF t.letters \in DOMAIN ToLatin1 THEN <<x, y>> ELSE <<>>)
  BY Zenon DEF Ladder
<1>2. ASSUME NEW a, NEW b, NEW s \in {<<>>, <<x, y>>}
      PROVE  LET l == <<a, b>> \o s IN DOMAIN l \subseteq Nat \ {0} /\ 1 \in DOMAIN l /\ l[1] = a
  OBVIOUS
<1> QED
  BY <1>1, <1>2

\* The ladder gives the answer of its first rung that has one.
LEMMA FirstHitIsFirst ==
    ASSUME IInv, NEW ts, DOMAIN ts \subseteq Nat,
           NEW rungs, rungs = {i \in DOMAIN ts : Answers(ts[i]) # {}}
    PROVE  /\ rungs = {} => FirstHit(ts) = {}
           /\ rungs # {} =>
                 \E r \in rungs : \E a \in Answers(ts[r]) :
                    /\ \A j \in rungs : r <= j
                    /\ \A j \in Answers(ts[r]) : a <= j
                    /\ FirstHit(ts) = {a}
<1>1. \A i \in DOMAIN ts : /\ Answers(ts[i]) \subseteq Nat
                           /\ Answers(ts[i]) = {} => Lookup(ts[i]) = {}
                           /\ \A a \in Answers(ts[i]) :
                                 (\A b \in Answers(ts[i]) : a <= b) => Lookup(ts[i]) = {a}
  BY LookupFindsFirst
<1>2. \A i \in DOMAIN ts : Answers(ts[i]) # {} =>
         \E a \in Answers(ts[i]) : (\A b \in Answers(ts[i]) : a <= b) /\ Lookup(ts[i]) = {a}
  BY <1>1, Least
<1> DEFINE hits == {i \in DOMAIN ts : Lookup(ts[i]) # {}}
<1>3. hits = rungs
  BY <1>1, <1>2
<1>4. FirstHit(ts) = IF hits = {} THEN {} ELSE Lookup(ts[CHOOSE i \in hits : \A j \in hits : i <= j])
  BY Zenon DEF FirstHit
<1> HIDE DEF hits
<1>5. CASE rungs = {}
  BY <1>3, <1>4, <1>5
<1>6. CASE rungs # {}
  <2>1. rungs \subseteq Nat /\ rungs \subseteq DOMAIN ts
    OBVIOUS
  <2>2. PICK r \in rungs : \A j \in rungs : r <= j
    BY <1>6, <2>1, Least
  <2>3. (CHOOSE i \in hits : \A j \in hits : i <= j) = r
    BY <1>3, <2>1, <2>2, LeastIsChosen
  <2>4. FirstHit(ts) = Lookup(ts[r])
    BY <1>3, <1>4, <1>6, <2>3
  <2>5. PICK a \in Answers(ts[r]) : (\A b \in Answers(ts[r]) : a <= b) /\ Lookup(ts[r]) = {a}
    BY <1>2, <2>1
  <2> QED
    BY <1>6, <2>2, <2>4, <2>5
<1> QED
  BY <1>5, <1>6

\* Asked for as it is spelled, a file's name leads to the owner of its spelling.
LEMMA NameLeads ==
    ASSUME IInv, NEW i \in DOMAIN files
    PROVE  /\ NormForward(files[i].name) \in DOMAIN keys
           /\ Resolve(files[i].name) = {keys[NormForward(files[i].name)]}
<1> DEFINE t == files[i].name
           k == NormForward(t)
<1>1. k \in Spellings(t)
  BY Zenon DEF Spellings
<1>2. k \in DOMAIN keys
  BY <1>1, Zenon DEF IInv, Indexed
<1>3. Lookup(t) = {keys[k]}
  BY <1>2 DEF Lookup
<1> DEFINE ts == Ladder(t)
           hits == {n \in DOMAIN ts : Lookup(ts[n]) # {}}
<1>4. DOMAIN ts \subseteq Nat \ {0} /\ 1 \in DOMAIN ts /\ ts[1] = t
  BY LadderStarts
<1>5. Resolve(t) = IF hits = {} THEN {} ELSE Lookup(ts[CHOOSE n \in hits : \A m \in hits : n <= m])
  BY Zenon DEF Resolve, FirstHit
<1> HIDE DEF t, k, ts
<1>6. 1 \in hits /\ hits \subseteq Nat \ {0}
  BY <1>3, <1>4
<1>7. (CHOOSE n \in hits : \A m \in hits : n <= m) = 1
  <2> HIDE DEF hits
  <2>1. hits \subseteq Nat /\ \A m \in hits : 1 <= m
    BY <1>6
  <2> QED
    BY <1>6, <2>1, LeastIsChosen
<1> QED
  BY <1>2, <1>3, <1>4, <1>5, <1>6, <1>7 DEF t, k

-----------------------------------------------------------------------------
(* The theorems.                                                           *)

\* Every variable keeps its type: the report of the checks, the entries and
\* archives, the index and the keys (validator.rs, config.rs, index.rs).
THEOREM CatalogTypeCorrect == Spec => []TypeOK
<1>1. IInv => TypeOK
  BY DEF IInv
<1> QED
  BY <1>1, Invariance, PTL

\* Archives are loaded by number and, among equal ones, by line, for every
\* DATA.INI and whichever of them fail to open (parse_data_ini, load_grfs).
THEOREM ArchivesLoadByNumber == Spec => []LoadedByNumber
<1>1. IInv => LoadedByNumber
  BY Zenon DEF IInv, Loading, InOrder, Earlier, LoadedByNumber, Place
<1> QED
  BY <1>1, Invariance, PTL

\* Whatever an archive's failure is, the server does not start on a part of
\* what DATA.INI lists (validate_grfs, Validation::success).
THEOREM ServerStartsWhole == Spec => []StartedWhole
<1>1. IInv => StartedWhole
  BY DEF IInv, Loading, StartedWhole
<1> QED
  BY <1>1, Invariance, PTL

\* For any names, letters and codecs, a path leads to the first file in load
\* order with a spelling of it, along the ladder (lookup, resolve_with).
THEOREM PathsFindFirst == Spec => []SpellingFindsFirst
<1>1. ASSUME IInv PROVE SpellingFindsFirst
  <2> SUFFICES ASSUME NEW t \in Text
               PROVE  LET ts == Ladder(t)
                          rungs == {i \in DOMAIN ts : Answers(ts[i]) # {}}
                      IN  Resolve(t) =
                            IF rungs = {} THEN {}
                            ELSE LET found == Answers(ts[CHOOSE i \in rungs : \A j \in rungs : i <= j])
                                 IN  {CHOOSE i \in found : \A j \in found : i <= j}
    BY Zenon DEF SpellingFindsFirst
  <2> DEFINE ts == Ladder(t)
             rungs == {i \in DOMAIN ts : Answers(ts[i]) # {}}
  <2>1. DOMAIN ts \subseteq Nat
    BY LadderStarts
  <2>2. Resolve(t) = FirstHit(ts)
    BY DEF Resolve
  <2> HIDE DEF ts
  <2>3. CASE rungs = {}
    BY <1>1, <2>1, <2>2, <2>3, FirstHitIsFirst DEF ts
  <2>4. CASE rungs # {}
    <3>0. PICK r \in rungs : \E x \in Answers(ts[r]) :
            /\ \A j \in rungs : r <= j
            /\ \A j \in Answers(ts[r]) : x <= j
            /\ FirstHit(ts) = {x}
      BY <1>1, <2>1, <2>4, FirstHitIsFirst
    <3>1. PICK a \in Answers(ts[r]) :
            /\ \A j \in rungs : r <= j
            /\ \A j \in Answers(ts[r]) : a <= j
            /\ FirstHit(ts) = {a}
      BY <3>0
    <3>2. (CHOOSE i \in rungs : \A j \in rungs : i <= j) = r
      <4>1. rungs \subseteq Nat
        BY <2>1
      <4> HIDE DEF rungs
      <4> QED
        BY <3>1, <4>1, LeastIsChosen
    <3>3. (CHOOSE i \in Answers(ts[r]) : \A j \in Answers(ts[r]) : i <= j) = a
      <4>1. Answers(ts[r]) \subseteq Nat
        BY <1>1, LookupFindsFirst
      <4> QED
        BY <3>1, <4>1, LeastIsChosen
    <3> QED
      BY <2>2, <2>4, <3>1, <3>2, <3>3 DEF ts
  <2> QED
    BY <2>3, <2>4 DEF ts
<1> QED
  BY <1>1, Invariance, PTL

\* A file that names() leaves out would lead to an earlier one (reachable).
LEMMA HiddenFilesLeadBack == IInv => HiddenLeadBack
<1> SUFFICES ASSUME IInv, NEW i \in DOMAIN files, \A n \in DOMAIN reachable : reachable[n] # i
             PROVE  \E slot \in Resolve(files[i].name) : slot < i
  BY Zenon DEF HiddenLeadBack
<1>1. NormForward(files[i].name) \in Spellings(files[i].name)
  BY Zenon DEF Spellings
<1>2. keys[NormForward(files[i].name)] < i
  BY <1>1, Zenon DEF IInv, Indexed
<1> QED
  BY <1>2, NameLeads, Zenon

\* A file that names() lists leads to one of its name, if no name is another's
\* mojibake.
LEMMA ListedNamesLead == NoNameIsMojibake /\ IInv => NamesLead
<1> SUFFICES ASSUME NoNameIsMojibake, IInv, NEW n \in DOMAIN reachable,
                    NEW slot \in Resolve(files[reachable[n]].name)
             PROVE  Named(slot) = Named(reachable[n])
  BY Zenon DEF NamesLead
<1>0. TypeOK /\ Indexed
  BY DEF IInv
<1> DEFINE i == reachable[n]
           name == files[i].name
           k == NormForward(name)
           other == files[slot].name
<1>1. i \in DOMAIN files
  BY <1>0 DEF TypeOK
<1>2. k \in DOMAIN keys /\ slot = keys[k]
  BY <1>1, NameLeads
<1>3. slot \in DOMAIN files /\ k \in Spellings(other)
  BY <1>0, <1>2 DEF TypeOK, Indexed
<1>4. name.letters \in NameLetters /\ other.letters \in NameLetters
  BY <1>0, <1>1, <1>3, Zenon DEF Indexed
<1> HIDE DEF name, other
<1>5. /\ Lower[name.letters] = Lower[other.letters] \/ Lower[name.letters] = Lower[ToMojibake[other.letters]]
      /\ name.sep = "" <=> other.sep = ""
  <2>1. PICK u \in {other, Mojibake(other)} : k = NormForward(u) \/ k = NormBackward(u)
    BY <1>3, Zenon DEF Spellings
  <2>2. Lower[name.letters] = Lower[u.letters] /\ (name.sep = "" <=> u.sep = "")
    BY <2>1 DEF NormForward, NormBackward
  <2>3. u.letters \in {other.letters, ToMojibake[other.letters]} /\ u.sep = other.sep
    <3>1. other \in Text
      <4>1. files \in Seq([grf : DOMAIN grfs, name : Text])
        BY <1>0 DEF TypeOK
      <4>2. files[slot] \in [grf : DOMAIN grfs, name : Text]
        BY <1>3, <4>1, SeqElement, Zenon
      <4> QED
        BY <4>2 DEF other
    <3> QED
      BY <2>1, <3>1 DEF Mojibake, Text
  <2> QED
    BY <2>2, <2>3
<1>6. Lower[name.letters] = Lower[other.letters]
  BY <1>4, <1>5, Zenon DEF NoNameIsMojibake
<1>7. NormForward(other) = NormForward(name)
  BY <1>5, <1>6 DEF NormForward
<1> QED
  BY <1>7, Zenon DEF Named, name, other

\* What names() lists leads to a file of that name and what it leaves out to
\* an earlier one, for archives in which no name is another's mojibake.
THEOREM ListedFilesLead == ASSUME NoNameIsMojibake PROVE Spec => []ListedLeads
<1>1. IInv => ListedLeads
  BY ListedNamesLead, HiddenFilesLeadBack DEF ListedLeads
<1> QED
  BY <1>1, Invariance, PTL

\* Without that condition too, what names() leaves out leads to an earlier file.
THEOREM UnlistedFilesLeadBack == Spec => [](stage = "serve" => HiddenLeadBack)
<1>1. IInv => (stage = "serve" => HiddenLeadBack)
  BY HiddenFilesLeadBack
<1> QED
  BY <1>1, Invariance, PTL

\* However many names an archive has and wherever the Korean ones are, it is
\* read as CP949 when they are no UTF-8 (sample_names, detect_best_encoding).
THEOREM HangulIsReadRight == Spec => []HangulIsRead
<1>1. IInv => HangulIsRead
  BY DEF IInv
<1> QED
  BY <1>1, Invariance, PTL
=============================================================================
