------------------------- MODULE UploadBytesProofs -------------------------
(***************************************************************************)
(* The bytes of HashUpload: what is stored under a hash, what the tasks    *)
(* hold of the memory pool and what they count.                            *)
(***************************************************************************)
EXTENDS HashUploadProofs, FiniteSetTheorems, WellFoundedInduction

-----------------------------------------------------------------------------
(* Sums over finite sets. *)

\* A nonempty set of natural numbers has a least element.
LEMMA LeastOf ==
    ASSUME NEW T, T \subseteq Nat, T # {}
    PROVE  \E x \in T : \A y \in T : x <= y
<1>1. PICK x \in T : \A y \in T : ~ (<<y, x>> \in OpToRel(<, Nat))
  BY WFMin, NatLessThanWellFounded, Zenon
<1>2. \A y \in T : ~ (y < x)
  BY <1>1, Zenon DEF OpToRel
<1> QED
  BY <1>2

\* The size of a set without one of its elements.
LEMMA OneLess ==
    ASSUME NEW s, IsFiniteSet(s), NEW x \in s
    PROVE  /\ IsFiniteSet(s \ {x}) /\ Cardinality(s) \in Nat /\ Cardinality(s \ {x}) \in Nat
           /\ Cardinality(s) = Cardinality(s \ {x}) + 1
<1>1. IsFiniteSet(s \ {x}) /\ Cardinality(s \ {x}) = Cardinality(s) - 1
  BY FS_RemoveElement, Zenon
<1>2. Cardinality(s) \in Nat /\ Cardinality(s \ {x}) \in Nat
  BY <1>1, FS_CardinalityType, Zenon
<1> QED
  BY <1>1, <1>2

\* A nonempty collection of finite sets has a minimal one.
LEMMA MinimalSet ==
    ASSUME NEW S, IsFiniteSet(S), NEW T, T \subseteq SUBSET S, T # {}
    PROVE  \E s \in T : \A x \in s : s \ {x} \notin T
<1>1. \A s \in T : IsFiniteSet(s)
  BY FS_Subset, Zenon
<1> DEFINE C == {Cardinality(s) : s \in T}
<1>2. C \subseteq Nat /\ C # {}
  BY <1>1, FS_CardinalityType, Zenon
<1>3. PICK c \in C : \A d \in C : c <= d
  <2> HIDE DEF C
  <2> QED
    BY <1>2, LeastOf, Zenon
<1>4. PICK s \in T : c = Cardinality(s)
  OBVIOUS
<1>5. ASSUME NEW x \in s, s \ {x} \in T PROVE FALSE
  <2>1. Cardinality(s \ {x}) \in C
    BY <1>5, Zenon
  <2>2. Cardinality(s) <= Cardinality(s \ {x})
    BY <1>3, <1>4, <2>1, Zenon
  <2>3. /\ Cardinality(s) \in Nat /\ Cardinality(s \ {x}) \in Nat
        /\ Cardinality(s) = Cardinality(s \ {x}) + 1
    BY <1>1, OneLess, Zenon
  <2> QED
    BY <2>2, <2>3
<1> QED
  BY <1>5, Zenon

\* The recursion of SumFunction: G[s] sums f over s, element after element.
AnyOf(s) == CHOOSE x \in s : TRUE
Summing(f, S, G) ==
    G = [s \in SUBSET S |-> IF s = {} THEN 0 ELSE f[AnyOf(s)] + G[s \ {AnyOf(s)}]]

LEMMA SumIsSumming ==
    ASSUME NEW f
    PROVE  SumFunction(f) = (CHOOSE G : Summing(f, DOMAIN f, G))[DOMAIN f]
BY DEF SumFunction, SumFunctionOnSet, FoldFunctionOnSet, MapThenFoldSet, Summing, AnyOf

\* What the recursion says of one set.
Sums(f, S, G) ==
    /\ G[{}] = 0
    /\ \A s \in SUBSET S : s # {} =>
          AnyOf(s) \in s /\ G[s] = f[AnyOf(s)] + G[s \ {AnyOf(s)}]

LEMMA SummingAt ==
    ASSUME NEW S, NEW f, NEW G, Summing(f, S, G)
    PROVE  Sums(f, S, G)
<1>1. \A s \in SUBSET S : G[s] = IF s = {} THEN 0 ELSE f[AnyOf(s)] + G[s \ {AnyOf(s)}]
  BY Zenon DEF Summing
<1>2. \A s : s # {} => AnyOf(s) \in s
  BY Zenon DEF AnyOf
<1>3. {} \in SUBSET S
  OBVIOUS
<1> QED
  BY <1>1, <1>2, <1>3, Zenon DEF Sums

\* The recursion has a solution: one for the sets of at most n elements, for every n.
LEMMA SummingExists ==
    ASSUME NEW S, IsFiniteSet(S), NEW f
    PROVE  \E G : Summing(f, S, G)
<1> DEFINE Sub(n) == {s \in SUBSET S : Cardinality(s) <= n}
           Sol(n, G) == G = [s \in Sub(n) |->
                                IF s = {} THEN 0 ELSE f[AnyOf(s)] + G[s \ {AnyOf(s)}]]
           T == {n \in Nat : ~ \E G : Sol(n, G)}
<1>1. \A s \in SUBSET S : IsFiniteSet(s) /\ Cardinality(s) \in Nat
  BY FS_Subset, FS_CardinalityType, Zenon
<1>2. ASSUME NEW s \in SUBSET S, s # {}
      PROVE  /\ s \ {AnyOf(s)} \in SUBSET S
             /\ Cardinality(s) = Cardinality(s \ {AnyOf(s)}) + 1
             /\ Cardinality(s \ {AnyOf(s)}) \in Nat
  <2>1. AnyOf(s) \in s
    BY <1>2, Zenon DEF AnyOf
  <2>2. s \ {AnyOf(s)} \in SUBSET S
    OBVIOUS
  <2> QED
    BY <1>1, <2>1, <2>2, OneLess, Zenon
<1>3. T = {}
  <2> SUFFICES ASSUME T # {} PROVE FALSE
    BY Zenon
  <2>1. PICK n \in T : \A m \in T : n <= m
    <3>1. T \subseteq Nat
      OBVIOUS
    <3> HIDE DEF T
    <3> QED
      BY <3>1, LeastOf, Zenon
  <2>2. CASE n = 0
    <3> DEFINE G == [s \in Sub(0) |-> 0]
    <3>1. ASSUME NEW s \in Sub(0) PROVE s = {}
      <4>1. s \in SUBSET S /\ Cardinality(s) \in Nat /\ Cardinality(s) <= 0
        BY <1>1
      <4>2. ASSUME s # {} PROVE FALSE
        <5>1. PICK c \in Nat : Cardinality(s) = c + 1
          BY <1>2, <4>1, <4>2, Zenon
        <5> QED
          BY <4>1, <5>1
      <4> QED
        BY <4>2
    <3>2. G = [s \in Sub(0) |-> IF s = {} THEN 0 ELSE f[AnyOf(s)] + G[s \ {AnyOf(s)}]]
      BY <3>1
    <3> QED
      BY <2>2, <3>2, Zenon
  <2>3. CASE n # 0
    <3>1. n \in Nat /\ n - 1 \in Nat /\ n - 1 \notin T
      <4>1. n \in Nat
        OBVIOUS
      <4> HIDE DEF T
      <4> QED
        BY <2>1, <2>3, <4>1
    <3>2. PICK H : Sol(n - 1, H)
      BY <3>1, Zenon
    <3> DEFINE Step(s) == IF s = {} THEN 0 ELSE f[AnyOf(s)] + H[s \ {AnyOf(s)}]
               G == [s \in Sub(n) |-> Step(s)]
    <3>3. ASSUME NEW s \in Sub(n - 1) PROVE s \in Sub(n) /\ H[s] = Step(s)
      <4>1. s \in SUBSET S /\ Cardinality(s) \in Nat /\ Cardinality(s) <= n - 1
        BY <1>1
      <4>2. Cardinality(s) <= n
        BY <3>1, <4>1
      <4>3. H[s] = Step(s)
        BY <3>2, Zenon
      <4> QED
        BY <4>1, <4>2, <4>3
    <3>4. ASSUME NEW s \in Sub(n), s # {} PROVE s \ {AnyOf(s)} \in Sub(n - 1)
      BY <1>1, <1>2, <3>1, <3>4
    <3>5. ASSUME NEW s \in Sub(n), s # {} PROVE G[s \ {AnyOf(s)}] = H[s \ {AnyOf(s)}]
      <4> DEFINE r == s \ {AnyOf(s)}
      <4>1. r \in Sub(n - 1)
        BY <3>4, <3>5
      <4> HIDE DEF r
      <4>2. r \in Sub(n) /\ H[r] = Step(r)
        BY <3>3, <4>1, Zenon
      <4>3. G[r] = Step(r)
        BY <4>2, Zenon
      <4> QED
        BY <4>2, <4>3, Zenon DEF r
    <3>6. Sol(n, G)
      <4>1. \A s \in Sub(n) : Step(s) = IF s = {} THEN 0 ELSE f[AnyOf(s)] + G[s \ {AnyOf(s)}]
        BY <3>5, Zenon
      <4> QED
        BY <4>1, Zenon
    <3> QED
      BY <3>6, Zenon
  <2> QED
    BY <2>2, <2>3
<1>4. PICK G : Sol(Cardinality(S), G)
  BY <1>1, <1>3, Zenon
<1>5. Sub(Cardinality(S)) = SUBSET S
  <2>1. \A s \in SUBSET S : Cardinality(s) <= Cardinality(S)
    BY FS_Subset, Zenon
  <2> QED
    BY <2>1, Zenon
<1>6. Summing(f, S, G)
  BY <1>4, <1>5, Zenon DEF Summing
<1> QED
  BY <1>6

\* A sum of integers is an integer.
LEMMA SummingInt ==
    ASSUME NEW S, IsFiniteSet(S), NEW f \in [S -> Int], NEW G, Sums(f, S, G)
    PROVE  \A s \in SUBSET S : G[s] \in Int
<1>01. /\ G[{}] = 0
       /\ \A s \in SUBSET S : s # {} =>
            AnyOf(s) \in s /\ G[s] = f[AnyOf(s)] + G[s \ {AnyOf(s)}]
  BY Zenon DEF Sums
<1> DEFINE T == {s \in SUBSET S : G[s] \notin Int}
<1> SUFFICES ASSUME T # {} PROVE FALSE
  OBVIOUS
<1>1. PICK s \in T : \A x \in s : s \ {x} \notin T
  <2>1. T \subseteq SUBSET S
    OBVIOUS
  <2> HIDE DEF T
  <2> QED
    BY <2>1, MinimalSet, Zenon
<1>2. s # {}
  <2>1. G[s] \notin Int
    BY Zenon
  <2>2. ASSUME s = {} PROVE G[s] = 0
    BY <1>01, <2>2, Zenon
  <2> QED
    BY <2>1, <2>2
<1>3. PICK x \in s : G[s] = f[x] + G[s \ {x}]
  BY <1>01, <1>2, Zenon
<1>4. f[x] \in Int /\ G[s \ {x}] \in Int
  BY <1>1, <1>3, Zenon
<1> QED
  BY <1>3, <1>4

\* Any element of a set may be taken first.
AnyFirst(f, S, G) == \A s \in SUBSET S : \A x \in s : G[s] = f[x] + G[s \ {x}]

LEMMA SummingPick ==
    ASSUME NEW S, IsFiniteSet(S), NEW f \in [S -> Int], NEW G, Sums(f, S, G)
    PROVE  AnyFirst(f, S, G)
<1>01. /\ G[{}] = 0
       /\ \A s \in SUBSET S : s # {} =>
            AnyOf(s) \in s /\ G[s] = f[AnyOf(s)] + G[s \ {AnyOf(s)}]
  BY Zenon DEF Sums
<1> DEFINE T == {s \in SUBSET S : \E x \in s : G[s] # f[x] + G[s \ {x}]}
<1> SUFFICES ASSUME T # {} PROVE FALSE
  BY Zenon DEF AnyFirst
<1>1. PICK s \in T : \A x \in s : s \ {x} \notin T
  <2>1. T \subseteq SUBSET S
    OBVIOUS
  <2> HIDE DEF T
  <2> QED
    BY <2>1, MinimalSet, Zenon
<1>2. s \in SUBSET S
  OBVIOUS
<1>3. PICK x \in s : G[s] # f[x] + G[s \ {x}]
  OBVIOUS
<1>4. PICK y \in s : G[s] = f[y] + G[s \ {y}]
  BY <1>01, <1>2, <1>3, Zenon
<1>5. x # y
  BY <1>3, <1>4, Zenon
<1>6. G[s \ {y}] = f[x] + G[(s \ {y}) \ {x}]
  <2>1. s \ {y} \in SUBSET S /\ s \ {y} \notin T /\ x \in s \ {y}
    BY <1>1, <1>2, <1>5, Zenon
  <2> QED
    BY <2>1, Zenon
<1>7. G[s \ {x}] = f[y] + G[(s \ {x}) \ {y}]
  <2>1. s \ {x} \in SUBSET S /\ s \ {x} \notin T /\ y \in s \ {x}
    BY <1>1, <1>2, <1>5
  <2> QED
    BY <2>1, Zenon
<1>8. (s \ {x}) \ {y} = (s \ {y}) \ {x} /\ (s \ {y}) \ {x} \in SUBSET S
  BY <1>2
<1>9. PICK a, b, c \in Int : f[x] = a /\ f[y] = b /\ G[(s \ {y}) \ {x}] = c
  BY <1>2, <1>8, SummingInt
<1>10. G[s] = b + (a + c) /\ G[s \ {x}] = b + c
  BY <1>4, <1>6, <1>7, <1>8, <1>9, Zenon
<1> QED
  BY <1>3, <1>9, <1>10

\* The sum over a set depends on the values in the set alone.
LEMMA SummingLocal ==
    ASSUME NEW S, IsFiniteSet(S), NEW f \in [S -> Int], NEW G, Sums(f, S, G),
           NEW R, NEW g, NEW H, Sums(g, R, H)
    PROVE  \A s \in SUBSET S : s \in SUBSET R /\ (\A x \in s : f[x] = g[x]) => G[s] = H[s]
<1>01. /\ G[{}] = 0
       /\ \A s \in SUBSET S : s # {} =>
            AnyOf(s) \in s /\ G[s] = f[AnyOf(s)] + G[s \ {AnyOf(s)}]
  BY Zenon DEF Sums
<1>02. /\ H[{}] = 0
       /\ \A s \in SUBSET R : s # {} =>
            AnyOf(s) \in s /\ H[s] = g[AnyOf(s)] + H[s \ {AnyOf(s)}]
  BY DEF Sums
<1> DEFINE T == {s \in SUBSET S : /\ s \in SUBSET R /\ \A x \in s : f[x] = g[x]
                                  /\ G[s] # H[s]}
<1> SUFFICES ASSUME T # {} PROVE FALSE
  BY Zenon
<1>1. PICK s \in T : \A x \in s : s \ {x} \notin T
  <2>1. T \subseteq SUBSET S
    OBVIOUS
  <2> HIDE DEF T
  <2> QED
    BY <2>1, MinimalSet, Zenon
<1>2. s \in SUBSET S /\ s \in SUBSET R /\ G[s] # H[s] /\ \A x \in s : f[x] = g[x]
  BY Zenon
<1>3. s # {}
  BY <1>01, <1>02, <1>2, Zenon
<1> DEFINE x == AnyOf(s)
<1>4. x \in s /\ G[s] = f[x] + G[s \ {x}] /\ H[s] = g[x] + H[s \ {x}]
  BY <1>01, <1>02, <1>2, <1>3, Zenon
<1> HIDE DEF x
<1>5. s \ {x} \in SUBSET S /\ s \ {x} \in SUBSET R /\ \A y \in s \ {x} : f[y] = g[y]
  BY <1>2
<1>6. G[s \ {x}] = H[s \ {x}]
  BY <1>1, <1>4, <1>5, Zenon
<1> QED
  BY <1>2, <1>4, <1>6, Zenon

\* SumFunction is such a sum.
LEMMA SumIs ==
    ASSUME NEW S, IsFiniteSet(S), NEW f \in [S -> Int]
    PROVE  \E G : Sums(f, S, G) /\ SumFunction(f) = G[S]
<1>1. DOMAIN f = S
  OBVIOUS
<1> DEFINE G == CHOOSE H : Summing(f, S, H)
<1>2. Summing(f, S, G)
  <2>1. \E H : Summing(f, S, H)
    BY SummingExists, Zenon
  <2> QED
    BY <2>1, Zenon
<1>3. SumFunction(f) = G[S]
  BY <1>1, SumIsSumming
<1> HIDE DEF G
<1>4. Sums(f, S, G)
  BY <1>2, SummingAt, Zenon
<1> QED
  BY <1>3, <1>4

\* It is an integer.
LEMMA SumInt ==
    ASSUME NEW S, IsFiniteSet(S), NEW f \in [S -> Int]
    PROVE  SumFunction(f) \in Int
<1>1. PICK G : Sums(f, S, G) /\ SumFunction(f) = G[S]
  BY SumIs, Zenon
<1>2. \A s \in SUBSET S : G[s] \in Int
  BY <1>1, SummingInt, Zenon
<1> QED
  BY <1>1, <1>2

\* When one value changes, the sum changes by as much.
LEMMA SumChange ==
    ASSUME NEW S, IsFiniteSet(S), NEW f \in [S -> Int], NEW g \in [S -> Int], NEW c \in S,
           \A x \in S : x # c => f[x] = g[x]
    PROVE  SumFunction(g) = SumFunction(f) - f[c] + g[c]
<1>1. PICK G : Sums(f, S, G) /\ SumFunction(f) = G[S]
  BY SumIs, Zenon
<1>2. PICK H : Sums(g, S, H) /\ SumFunction(g) = H[S]
  BY SumIs, Zenon
<1>3. S \in SUBSET S /\ S \ {c} \in SUBSET S /\ \A x \in S \ {c} : f[x] = g[x]
  OBVIOUS
<1>4. G[S \ {c}] = H[S \ {c}]
  BY <1>1, <1>2, <1>3, SummingLocal
<1>5. AnyFirst(f, S, G)
  BY <1>1, SummingPick, Zenon
<1>6. AnyFirst(g, S, H)
  BY <1>2, SummingPick, Zenon
<1>7. SumFunction(f) = f[c] + G[S \ {c}] /\ SumFunction(g) = g[c] + G[S \ {c}]
  BY <1>1, <1>2, <1>3, <1>4, <1>5, <1>6, Zenon DEF AnyFirst
<1>8. PICK a, b, d \in Int : f[c] = a /\ g[c] = b /\ G[S \ {c}] = d
  <2>1. \A s \in SUBSET S : G[s] \in Int
    BY <1>1, SummingInt, Zenon
  <2> QED
    BY <1>3, <2>1
<1>9. SumFunction(f) = a + d /\ SumFunction(g) = b + d
  BY <1>7, <1>8, Zenon
<1> QED
  BY <1>8, <1>9

\* A sum of zeros is zero.
LEMMA SumZero ==
    ASSUME NEW S, IsFiniteSet(S), NEW f, f = [x \in S |-> 0]
    PROVE  SumFunction(f) = 0
<1>0. f \in [S -> Int]
  OBVIOUS
<1>1. PICK G : Sums(f, S, G) /\ SumFunction(f) = G[S]
  BY <1>0, SumIs, Zenon
<1>2. /\ G[{}] = 0
      /\ \A s \in SUBSET S : s # {} => AnyOf(s) \in s /\ G[s] = f[AnyOf(s)] + G[s \ {AnyOf(s)}]
  BY <1>1 DEF Sums
<1> DEFINE T == {s \in SUBSET S : G[s] # 0}
<1>3. T = {}
  <2> SUFFICES ASSUME T # {} PROVE FALSE
    OBVIOUS
  <2>1. PICK s \in T : \A x \in s : s \ {x} \notin T
    <3>1. T \subseteq SUBSET S
      OBVIOUS
    <3> HIDE DEF T
    <3> QED
      BY <3>1, MinimalSet, Zenon
  <2>2. s \in SUBSET S /\ G[s] # 0 /\ s # {}
    BY <1>2, Zenon
  <2>3. PICK x \in s : G[s] = f[x] + G[s \ {x}]
    BY <1>2, <2>2, Zenon
  <2>4. s \ {x} \in SUBSET S /\ f[x] = 0
    BY <2>2
  <2>5. G[s \ {x}] = 0
    BY <2>1, <2>4, Zenon
  <2> QED
    BY <2>2, <2>3, <2>4, <2>5
<1> QED
  BY <1>1, <1>3

\* A sum over 1..n, from its partial sums.
LEMMA SumUpTo ==
    ASSUME NEW n \in Nat, NEW f \in [1..n -> Int], NEW P \in [0..n -> Int],
           P[0] = 0, \A k \in 1..n : P[k] = P[k - 1] + f[k]
    PROVE  SumFunction(f) = P[n]
<1>0. IsFiniteSet(1..n)
  BY FS_Interval
<1>1. PICK G : Sums(f, 1..n, G) /\ SumFunction(f) = G[1..n]
  BY <1>0, SumIs, Zenon
<1>2. AnyFirst(f, 1..n, G)
  BY <1>0, <1>1, SummingPick, Zenon
<1>3. G[{}] = 0
  BY <1>1, Zenon DEF Sums
<1> DEFINE T == {k \in 0..n : G[1..k] # P[k]}
<1>4. T = {}
  <2> SUFFICES ASSUME T # {} PROVE FALSE
    OBVIOUS
  <2>1. PICK k \in T : \A j \in T : k <= j
    <3>1. T \subseteq Nat
      OBVIOUS
    <3> HIDE DEF T
    <3> QED
      BY <3>1, LeastOf, Zenon
  <2>2. k \in 0..n /\ G[1..k] # P[k]
    BY Zenon
  <2>3. 1..0 = {}
    OBVIOUS
  <2>4. k # 0
    BY <1>3, <2>2, <2>3, Zenon
  <2>5. k \in 1..n /\ k - 1 \in 0..n /\ ~ (k <= k - 1)
    BY <2>2, <2>4
  <2>6. G[1..(k - 1)] = P[k - 1]
    BY <2>1, <2>5, Zenon
  <2>7. (1..k) \in SUBSET (1..n) /\ k \in 1..k /\ (1..k) \ {k} = 1..(k - 1)
    <3> HIDE DEF T
    <3>0. k \in Nat
      BY <2>5
    <3>1. \A x \in (1..k) \ {k} : x \in 1..(k - 1)
      BY <3>0
    <3>2. \A x \in 1..(k - 1) : x \in 1..k /\ x # k
      BY <3>0
    <3>3. (1..k) \ {k} = 1..(k - 1)
      BY <3>1, <3>2, Zenon
    <3> QED
      BY <2>5, <3>3
  <2>8. G[1..k] = f[k] + G[1..(k - 1)]
    BY <1>2, <2>7, Zenon DEF AnyFirst
  <2>9. f[k] \in Int /\ P[k - 1] \in Int /\ P[k] = P[k - 1] + f[k]
    BY <2>5
  <2>10. f[k] + P[k - 1] = P[k - 1] + f[k]
    BY <2>9
  <2> QED
    BY <2>2, <2>6, <2>8, <2>9, <2>10, Zenon
<1>5. n \in 0..n
  OBVIOUS
<1> QED
  BY <1>1, <1>4, <1>5, Zenon

-----------------------------------------------------------------------------
(* The memory pool: the permits that are held. *)

\* The manifest is finite and its files have sizes.
LEMMA FilesAre ==
    IsFiniteSet(Files) /\ \A f \in Files : Contents[f] \in Seq(STRING) /\ Size(f) \in Nat
<1>1. Files = 1..Len(Contents) /\ Len(Contents) \in Nat
  BY UploadAssumption, LenProperties DEF Files
<1>2. IsFiniteSet(Files)
  BY <1>1, FS_Interval
<1>3. \A f \in Files : Contents[f] \in Seq(STRING)
  BY <1>1, UploadAssumption, ElementOfSeq
<1>4. \A f \in Files : Size(f) \in Nat
  BY <1>3, LenProperties DEF Size
<1> QED
  BY <1>2, <1>3, <1>4

\* A number of bytes takes a natural number of permits.
LEMMA PermitsAreNat == \A b \in Nat : BytesToPermits(b) \in Nat
<1> SUFFICES ASSUME NEW b \in Nat PROVE BytesToPermits(b) \in Nat
  OBVIOUS
<1>1. PICK d \in Int : d = (b + Granularity - 1) \div Granularity
  BY PoolAssumption
<1>2. d % PermitSpace \in Nat
  BY PoolAssumption
<1> QED
  BY <1>1, <1>2 DEF BytesToPermits

\* A task holds permits from the grant until it returns, and the permits held and
\* available add up to the pool.
PoolInv ==
    /\ held \in [Files -> Nat]
    /\ \A f \in Files : pc[f] \notin {"read", "upload"} => held[f] = 0
    /\ \A i \in DOMAIN queue : queue[i].permits \in Nat
    /\ Available >= 0

\* The permits available are an integer.
LEMMA AvailableIs ==
    ASSUME held \in [Files -> Nat]
    PROVE  /\ SumFunction(held) \in Int /\ BytesToPermits(MaxBytes) \in Nat
           /\ Available = BytesToPermits(MaxBytes) - SumFunction(held)
<1>1. held \in [Files -> Int]
  OBVIOUS
<1>2. SumFunction(held) \in Int
  BY <1>1, FilesAre, SumInt, Zenon
<1>3. BytesToPermits(MaxBytes) \in Nat
  BY PermitsAreNat, PoolAssumption
<1> QED
  BY <1>2, <1>3 DEF Available

\* What a change at one file does to a sum over the files.
LEMMA FilesSum ==
    ASSUME NEW g \in [Files -> Int], NEW h \in [Files -> Int], NEW f \in Files,
           \A x \in Files : x # f => g[x] = h[x]
    PROVE  SumFunction(h) = SumFunction(g) - g[f] + h[f]
<1>1. IsFiniteSet(Files)
  BY FilesAre, Zenon
<1> HIDE DEF Files
<1> QED
  BY <1>1, SumChange

\* What one client's permits do to the pool.
LEMMA PoolMoves ==
    ASSUME held \in [Files -> Nat], NEW f \in Files, NEW p \in Nat,
           held' = [held EXCEPT ![f] = p]
    PROVE  /\ held' \in [Files -> Nat] /\ held'[f] = p
           /\ \A g \in Files : g # f => held'[g] = held[g]
           /\ Available \in Int /\ Available' = Available + held[f] - p
<1>1. /\ held' \in [Files -> Nat] /\ held'[f] = p
      /\ \A g \in Files : g # f => held'[g] = held[g]
  OBVIOUS
<1>2. held \in [Files -> Int] /\ held' \in [Files -> Int]
  BY <1>1
<1>3. SumFunction(held') = SumFunction(held) - held[f] + held'[f]
  <2>1. PICK g, h : g = held /\ h = held'
    OBVIOUS
  <2>2. \A x \in Files : x # f => held[x] = held'[x]
    BY <1>1
  <2>3. g \in [Files -> Int] /\ h \in [Files -> Int] /\ \A x \in Files : x # f => g[x] = h[x]
    BY <1>2, <2>1, <2>2
  <2>4. SumFunction(h) = SumFunction(g) - g[f] + h[f]
    BY <2>3, FilesSum, Zenon
  <2> QED
    BY <2>1, <2>4, Zenon
<1>4. /\ SumFunction(held) \in Int /\ BytesToPermits(MaxBytes) \in Nat
      /\ Available = BytesToPermits(MaxBytes) - SumFunction(held)
  BY AvailableIs
<1>5. Available' = BytesToPermits(MaxBytes) - SumFunction(held')
  BY DEF Available, BytesToPermits
<1>6. held[f] \in Nat
  OBVIOUS
<1> HIDE DEF Available
<1> QED
  BY <1>1, <1>3, <1>4, <1>5, <1>6

\* Steps that leave the pool alone.
LEMMA PoolRests ==
    ASSUME PoolInv, UNCHANGED <<held, queue>>,
           \A f \in Files : pc'[f] \notin {"read", "upload"} => pc[f] \notin {"read", "upload"}
    PROVE  PoolInv'
<1>1. Available' = Available
  BY DEF Available, BytesToPermits
<1> QED
  BY <1>1 DEF PoolInv

\* A task that returns drops its permits.
LEMMA PoolReturns ==
    ASSUME UploadInv, PoolInv, NEW f \in Files, NEW r, Return(f, r)
    PROVE  PoolInv'
<1>1. held \in [Files -> Nat] /\ Available >= 0
  BY DEF PoolInv
<1>2. UNCHANGED queue /\ held' = [held EXCEPT ![f] = 0]
  BY DEF Return, Release
<1>3. /\ held' \in [Files -> Nat] /\ held'[f] = 0
      /\ \A g \in Files : g # f => held'[g] = held[g]
      /\ Available \in Int /\ Available' = Available + held[f] - 0
  <2>1. 0 \in Nat
    OBVIOUS
  <2> QED
    BY <1>1, <1>2, <2>1, PoolMoves, Zenon
<1>4. held[f] \in Nat
  BY <1>1
<1>5. Available' >= 0
  BY <1>1, <1>3, <1>4
<1>6. \A g \in Files : g # f => pc'[g] = pc[g]
  BY DEF Return, UploadInv, TaskInv
<1>7. \A g \in Files : pc'[g] \notin {"read", "upload"} => held'[g] = 0
  BY <1>3, <1>6 DEF PoolInv
<1> QED
  BY <1>2, <1>3, <1>5, <1>7 DEF PoolInv

\* A request takes no permits.
LEMMA PoolAsks ==
    ASSUME UploadInv, PoolInv, NEW f \in Files, AskMemory(f)
    PROVE  PoolInv'
<1> DEFINE S == [client : Files, permits : Int]
           e == [client |-> f, permits |-> BytesToPermits(Clamp(Size(f)))]
<1>1. pc[f] = "caches" /\ queue' = Append(queue, e) /\ UNCHANGED held
  BY DEF AskMemory, Request
<1>2. e.permits \in Nat
  <2>1. Clamp(Size(f)) \in Nat
    BY FilesAre, PoolAssumption DEF Clamp
  <2> QED
    BY <2>1, PermitsAreNat
<1>3. queue \in Seq(S) /\ e \in S
  BY PermitsAreInt DEF UploadInv, QueueInv
<1> HIDE DEF e, S
<1>4. \A i \in DOMAIN queue' : queue'[i].permits \in Nat
  <2>1. /\ Len(queue) \in Nat /\ DOMAIN queue = 1..Len(queue)
        /\ DOMAIN queue' = 1..(Len(queue) + 1) /\ queue'[Len(queue) + 1] = e
        /\ \A i \in 1..Len(queue) : queue'[i] = queue[i]
    BY <1>1, <1>3, AppendProperties, LenProperties
  <2>2. \A i \in DOMAIN queue' : i \in DOMAIN queue \/ i = Len(queue) + 1
    BY <2>1
  <2> QED
    BY <1>2, <2>1, <2>2 DEF PoolInv
<1>5. \A g \in Files : pc'[g] \notin {"read", "upload"} => pc[g] \notin {"read", "upload"}
  BY <1>1 DEF AskMemory, UploadInv, TaskInv
<1>6. Available' = Available
  BY <1>1 DEF Available, BytesToPermits
<1> QED
  BY <1>1, <1>4, <1>5, <1>6 DEF PoolInv

\* A grant takes no more than is available.
LEMMA PoolGrants ==
    ASSUME UploadInv, PoolInv, NEW f \in Files, GetMemory(f)
    PROVE  PoolInv'
<1> DEFINE S == [client : Files, permits : Int]
<1>1. pc[f] = "memory" /\ pc' = [pc EXCEPT ![f] = "read"]
  BY DEF GetMemory
<1>2. PICK n \in DOMAIN queue : /\ queue[n].permits <= Available
                                /\ held' = [held EXCEPT ![f] = queue[n].permits]
                                /\ queue' = Without(queue, n)
  BY Zenon DEF GetMemory, Grant, Without
<1>3. PICK p \in Nat : p = queue[n].permits
  BY DEF PoolInv
<1>4. held \in [Files -> Nat] /\ held[f] = 0
  BY <1>1 DEF PoolInv
<1>5. /\ held' \in [Files -> Nat] /\ held'[f] = p
      /\ \A g \in Files : g # f => held'[g] = held[g]
      /\ Available \in Int /\ Available' = Available + held[f] - p
  <2>1. held' = [held EXCEPT ![f] = p]
    BY <1>2, <1>3, Zenon
  <2> QED
    BY <1>4, <2>1, PoolMoves, Zenon
<1>6. Available' >= 0
  BY <1>2, <1>3, <1>4, <1>5
<1>7. \A i \in DOMAIN queue' : queue'[i].permits \in Nat
  <2>1. queue \in Seq(S)
    BY DEF UploadInv, QueueInv
  <2> HIDE DEF S
  <2>2. /\ \A k \in DOMAIN queue' :
              (k < n => queue'[k] = queue[k]) /\ (k >= n => queue'[k] = queue[k + 1])
        /\ \A k \in DOMAIN queue' : k \in Nat /\ k + 1 \in DOMAIN queue /\ k \in DOMAIN queue
    BY <1>2, <2>1, WithoutProperties, SMTT(30)
  <2>3. n \in Nat
    BY <2>1, LenProperties
  <2> QED
    BY <2>2, <2>3 DEF PoolInv
<1>8. \A g \in Files : pc'[g] \notin {"read", "upload"} => held'[g] = 0
  <2>1. pc'[f] = "read" /\ \A g \in Files : g # f => pc'[g] = pc[g]
    BY <1>1 DEF UploadInv, TaskInv
  <2> QED
    BY <1>5, <2>1 DEF PoolInv
<1> QED
  BY <1>5, <1>6, <1>7, <1>8 DEF PoolInv

\* Every step keeps the pool whole.
LEMMA PoolStep == UploadInv /\ PoolInv /\ [Next]_vars => PoolInv'
<1> SUFFICES ASSUME UploadInv, PoolInv, [Next]_vars PROVE PoolInv'
  OBVIOUS
<1>0. pc \in [Files -> {"spawned", "caches", "memory", "read", "upload", "finished"}]
  BY DEF UploadInv, TaskInv
<1>1. ASSUME NEW f \in Files, FileStep(f) PROVE PoolInv'
  <2>1. ASSUME NEW why, Fail(f, why) PROVE PoolInv'
    BY <2>1, PoolReturns DEF Fail
  <2>2. ASSUME NEW fr, UpdateProgress(f, fr) PROVE PoolInv'
    BY <2>2, PoolReturns DEF UpdateProgress
  <2>3. CASE Start(f)
    <3>1. CASE Fail(f, "cancelled")
      BY <2>1, <3>1
    <3>2. CASE pc' = [pc EXCEPT ![f] = "caches"] /\ UNCHANGED poolVars
      <4>1. \A g \in Files : pc'[g] \notin {"read", "upload"} => pc[g] \notin {"read", "upload"}
        BY <1>0, <2>3, <3>2 DEF Start
      <4> QED
        BY <3>2, <4>1, PoolRests DEF poolVars
    <3> QED
      BY <2>3, <3>1, <3>2 DEF Start
  <2>4. CASE Skip(f)
    BY <2>2, <2>4 DEF Skip
  <2>5. CASE AskMemory(f) \/ GetMemory(f)
    BY <2>5, PoolAsks, PoolGrants
  <2>6. CASE Read(f)
    <3>1. CASE Fail(f, "io")
      BY <2>1, <3>1
    <3>2. CASE pc' = [pc EXCEPT ![f] = "upload"] /\ UNCHANGED poolVars
      <4>1. \A g \in Files : pc'[g] \notin {"read", "upload"} => pc[g] \notin {"read", "upload"}
        BY <1>0, <3>2
      <4> QED
        BY <3>2, <4>1, PoolRests DEF poolVars
    <3> QED
      BY <2>6, <3>1, <3>2 DEF Read
  <2>7. CASE JoinFailed(f)
    BY <2>1, <2>7 DEF JoinFailed
  <2>8. CASE JoinAll(f)
    <3>1. PICK fr : UpdateProgress(f, fr)
      BY <2>8, Zenon DEF JoinAll
    <3> QED
      BY <2>2, <3>1
  <2> QED
    BY <1>1, <2>3, <2>4, <2>5, <2>6, <2>7, <2>8, SMTT(30) DEF FileStep
<1>2. CASE UNCHANGED <<pc, held, queue>>
  BY <1>2, PoolRests
<1>3. ASSUME NEW u \in UnitIds, UnitStep(u) PROVE UNCHANGED <<pc, held, queue>>
  <2>1. UNCHANGED fileVars
    BY <1>3, Zenon DEF UnitStep, CheckExists, Claim, Wake, PutObject, Notify, CreateMultipart,
       JoinParts, CompleteMultipart, AbortMultipart, UploadPart
  <2> QED
    BY <2>1, Zenon DEF fileVars, taskVars, poolVars
<1>4. ASSUME (\E f \in Files : Edit(f)) \/ Apply \/ Terminated \/ UNCHANGED vars
      PROVE  UNCHANGED <<pc, held, queue>>
  BY <1>4, Zenon DEF Edit, Apply, Terminated, vars, taskVars, storeVars, poolVars
<1> QED
  BY <1>1, <1>2, <1>3, <1>4 DEF Next

\* Nothing is held before the operation starts.
LEMMA PoolStart == Init => PoolInv
<1> SUFFICES ASSUME Init PROVE PoolInv
  OBVIOUS
<1>1. held = [f \in Files |-> 0] /\ queue = <<>>
  BY UploadAssumption DEF Init, PoolInit
<1>2. held \in [Files -> Nat] /\ \A f \in Files : held[f] = 0
  BY <1>1
<1>3. SumFunction(held) = 0
  BY <1>1, FilesAre, SumZero, Zenon
<1>4. Available >= 0
  BY <1>2, <1>3, AvailableIs
<1> QED
  BY <1>1, <1>2, <1>4 DEF PoolInv

\* Once every task has returned the pool is whole.
LEMMA PoolEnds == UploadInv /\ PoolInv => PoolIsWhole
<1> SUFFICES ASSUME UploadInv, PoolInv PROVE PoolIsWhole
  OBVIOUS
<1>1. held \in [Files -> Nat] /\ Available >= 0
  BY DEF PoolInv
<1>2. ASSUME outcome = "ok" PROVE Available = BytesToPermits(MaxBytes)
  <2>1. \A f \in Files : pc[f] = "finished"
    BY <1>2 DEF UploadInv, OutcomeInv
  <2>2. held = [f \in Files |-> 0]
    BY <1>1, <2>1 DEF PoolInv
  <2>3. SumFunction(held) = 0
    BY <2>2, FilesAre, SumZero, Zenon
  <2> QED
    BY <1>1, <2>3, AvailableIs
<1> QED
  BY <1>1, <1>2 DEF PoolIsWhole

-----------------------------------------------------------------------------
(* The pieces of a file. *)

\* Where the kth piece of n bytes ends, in a file of length l.
EndOf(k, n, l) == IF k * n < l THEN k * n ELSE l

LEMMA TimesGrows == \A a, b, n \in Nat : a <= b => a * n <= b * n
OBVIOUS

\* Every piece starts where the one before it ended, and the last one ends the file.
LEMMA PieceEnds ==
    ASSUME NEW n \in Nat \ {0}, NEW l \in Nat, NEW c, c = (l + n - 1) \div n
    PROVE  /\ c \in Nat /\ EndOf(0, n, l) = 0 /\ EndOf(c, n, l) = l
           /\ \A k \in 0..c : EndOf(k, n, l) \in 0..l
           /\ \A k \in 1..c : /\ EndOf(k - 1, n, l) = (k - 1) * n
                              /\ EndOf(k - 1, n, l) < EndOf(k, n, l)
<1>1. c \in Int /\ c * n <= l + n - 1 /\ l + n - 1 < c * n + n
  OBVIOUS
<1>2. c \in Nat
  OBVIOUS
<1>3. l <= c * n
  BY <1>1, <1>2
<1>4. ASSUME NEW k \in 1..c
      PROVE  k - 1 \in Nat /\ (k - 1) * n \in Nat /\ (k - 1) * n < l /\ k * n = (k - 1) * n + n
  <2>1. k \in Nat /\ k - 1 \in Nat /\ k <= c
    BY <1>2
  <2>2. k * n <= c * n
    BY <1>2, <2>1, TimesGrows
  <2>3. k * n = (k - 1) * n + n
    BY <2>1
  <2>4. (k - 1) * n \in Nat /\ c * n \in Nat
    BY <1>2, <2>1
  <2> QED
    BY <1>1, <2>1, <2>2, <2>3, <2>4
<1>5. EndOf(0, n, l) = 0
  BY DEF EndOf
<1>6. EndOf(c, n, l) = l
  BY <1>2, <1>3 DEF EndOf
<1>7. ASSUME NEW k \in 0..c PROVE EndOf(k, n, l) \in 0..l
  <2>1. k * n \in Nat
    BY <1>2
  <2> QED
    BY <2>1 DEF EndOf
<1>8. ASSUME NEW k \in 1..c
      PROVE  EndOf(k - 1, n, l) = (k - 1) * n /\ EndOf(k - 1, n, l) < EndOf(k, n, l)
  BY <1>4 DEF EndOf
<1> QED
  BY <1>2, <1>5, <1>6, <1>7, <1>8

\* What Pieces returns.
LEMMA PiecesAre ==
    ASSUME NEW b \in Seq(STRING), NEW n \in Nat \ {0}
    PROVE  LET c == (Len(b) + n - 1) \div n IN
           /\ DOMAIN Pieces(b, n) = 1..c
           /\ \A k \in 1..c :
                 Pieces(b, n)[k] = SubSeq(b, (k - 1) * n + 1, EndOf(k, n, Len(b)))
BY Zenon DEF Pieces, EndOf

\* The start of a sequence, and the stretch after it.
LEMMA Stretches ==
    ASSUME NEW b \in Seq(STRING), NEW i \in Nat, NEW j \in Nat, i <= j, j <= Len(b)
    PROVE  /\ SubSeq(b, 1, i) \o SubSeq(b, i + 1, j) = SubSeq(b, 1, j)
           /\ Len(SubSeq(b, i + 1, j)) = j - i
<1>1. Len(b) \in Nat /\ \A k \in 1..Len(b) : b[k] \in STRING
  BY LenProperties, ElementOfSeq
<1> DEFINE s == SubSeq(b, 1, i)
           t == SubSeq(b, i + 1, j)
           r == SubSeq(b, 1, j)
<1>2. s \in Seq(STRING) /\ Len(s) = i /\ \A k \in 1..i : s[k] = b[k]
  <2>1. \A k \in 1..i : b[k] \in STRING
    BY <1>1
  <2>2. /\ s \in Seq(STRING) /\ Len(s) = (IF 1 <= i THEN i - 1 + 1 ELSE 0)
        /\ \A k \in 1..(i - 1 + 1) : s[k] = b[1 + k - 1]
    BY <2>1, SubSeqProperties
  <2> HIDE DEF s
  <2> QED
    BY <2>2
<1>3. t \in Seq(STRING) /\ Len(t) = j - i /\ \A k \in 1..(j - i) : t[k] = b[i + k]
  <2>1. i + 1 \in Int /\ j \in Int /\ \A k \in (i + 1)..j : b[k] \in STRING
    BY <1>1
  <2>2. /\ t \in Seq(STRING) /\ Len(t) = (IF i + 1 <= j THEN j - (i + 1) + 1 ELSE 0)
        /\ \A k \in 1..(j - (i + 1) + 1) : t[k] = b[i + 1 + k - 1]
    BY <2>1, SubSeqProperties
  <2> HIDE DEF t
  <2> QED
    BY <2>2
<1>4. r \in Seq(STRING) /\ Len(r) = j /\ \A k \in 1..j : r[k] = b[k]
  <2>1. \A k \in 1..j : b[k] \in STRING
    BY <1>1
  <2>2. /\ r \in Seq(STRING) /\ Len(r) = (IF 1 <= j THEN j - 1 + 1 ELSE 0)
        /\ \A k \in 1..(j - 1 + 1) : r[k] = b[1 + k - 1]
    BY <2>1, SubSeqProperties
  <2> HIDE DEF r
  <2> QED
    BY <2>2
<1> HIDE DEF s, t, r
<1>5. /\ s \o t \in Seq(STRING) /\ Len(s \o t) = Len(s) + Len(t)
      /\ \A k \in 1..(Len(s) + Len(t)) : (s \o t)[k] = IF k <= Len(s) THEN s[k] ELSE t[k - Len(s)]
  <2>1. s \in Seq(STRING) /\ t \in Seq(STRING)
    BY <1>2, <1>3
  <2> QED
    BY <2>1, ConcatProperties
<1>6. Len(s \o t) = j
  BY <1>2, <1>3, <1>5
<1>7. ASSUME NEW k \in 1..j PROVE (s \o t)[k] = r[k]
  <2>1. k \in 1..(Len(s) + Len(t))
    BY <1>2, <1>3
  <2>2. CASE k <= i
    BY <1>2, <1>4, <1>5, <2>1, <2>2, SMTT(30)
  <2>3. CASE k > i
    <3>1. k - i \in 1..(j - i) /\ i + (k - i) = k
      BY <2>3
    <3>2. t[k - i] = b[k]
      BY <1>3, <3>1
    <3> QED
      BY <1>2, <1>4, <1>5, <2>1, <2>3, <3>2, SMTT(30)
  <2>4. k <= i \/ k > i
    OBVIOUS
  <2> QED
    BY <2>2, <2>3, <2>4, Zenon
<1>8. s \o t = r
  BY <1>4, <1>5, <1>6, <1>7, SeqEqual
<1> QED
  BY <1>3, <1>8, Zenon DEF s, t, r

\* The recursion of Joined.
Joins(parts, U) ==
    U = [p \in 0..Len(parts) |-> IF p = 0 THEN <<>> ELSE U[p - 1] \o parts[p].bytes]

LEMMA JoinedIs ==
    ASSUME NEW parts
    PROVE  Joined(parts) = (CHOOSE U : Joins(parts, U))[Len(parts)]
BY DEF Joined, Joins

\* The pieces of a file, joined in order, are the file.
LEMMA PiecesJoin ==
    ASSUME NEW b \in Seq(STRING), NEW n \in Nat \ {0}, NEW parts,
           Len(parts) = (Len(b) + n - 1) \div n,
           \A p \in 1..Len(parts) : parts[p].bytes = Pieces(b, n)[p]
    PROVE  Joined(parts) = b
<1> DEFINE c == Len(parts)
           l == Len(b)
           Cut(p) == SubSeq(b, 1, EndOf(p, n, l))
           Step(U, p) == IF p = 0 THEN <<>> ELSE U[p - 1] \o parts[p].bytes
           g == [p \in 0..c |-> Cut(p)]
           upTo == CHOOSE U : Joins(parts, U)
<1>1. l \in Nat
  BY LenProperties
<1>2. /\ c \in Nat /\ EndOf(0, n, l) = 0 /\ EndOf(c, n, l) = l
      /\ \A k \in 0..c : EndOf(k, n, l) \in 0..l
      /\ \A k \in 1..c : EndOf(k - 1, n, l) = (k - 1) * n /\ EndOf(k - 1, n, l) < EndOf(k, n, l)
  BY <1>1, PieceEnds, Zenon
<1>3. Cut(0) = <<>>
  BY <1>2, SubSeqEmpty
<1>4. ASSUME NEW k \in 1..c PROVE Cut(k) = Cut(k - 1) \o parts[k].bytes
  <2>1. parts[k].bytes = SubSeq(b, (k - 1) * n + 1, EndOf(k, n, l))
    BY PiecesAre, Zenon
  <2>2. PICK i \in Nat, j \in Nat :
           i = EndOf(k - 1, n, l) /\ j = EndOf(k, n, l) /\ i = (k - 1) * n /\ i <= j /\ j <= l
    <3>1. k \in 0..c /\ k - 1 \in 0..c
      BY <1>2
    <3>2. EndOf(k, n, l) \in 0..l /\ EndOf(k - 1, n, l) \in 0..l
      BY <1>2, <3>1
    <3>3. EndOf(k - 1, n, l) = (k - 1) * n /\ EndOf(k - 1, n, l) < EndOf(k, n, l)
      BY <1>2
    <3> QED
      BY <1>1, <3>2, <3>3
  <2>3. SubSeq(b, 1, i) \o SubSeq(b, i + 1, j) = SubSeq(b, 1, j)
    BY <2>2, Stretches, Zenon
  <2> QED
    BY <2>1, <2>2, <2>3, Zenon
<1> HIDE DEF Cut
<1>5. ASSUME NEW p \in 0..c PROVE g[p] = Step(g, p)
  <2>1. CASE p = 0
    BY <1>3, <2>1
  <2>2. CASE p # 0
    <3>1. p \in 1..c /\ p - 1 \in 0..c
      BY <1>2, <2>2
    <3>2. g[p] = Cut(p) /\ g[p - 1] = Cut(p - 1)
      BY <3>1
    <3>3. Cut(p) = Cut(p - 1) \o parts[p].bytes
      BY <1>4, <3>1, Zenon
    <3> HIDE DEF g
    <3> QED
      BY <2>2, <3>2, <3>3, Zenon
  <2> QED
    BY <2>1, <2>2
<1>6. Joins(parts, g)
  <2>1. g = [p \in 0..c |-> g[p]]
    OBVIOUS
  <2> HIDE DEF g, Step
  <2>2. g = [p \in 0..c |-> Step(g, p)]
    BY <1>5, <2>1
  <2> QED
    BY <2>2, Zenon DEF Joins, Step
<1>7. Joins(parts, upTo)
  <2> HIDE DEF g
  <2> QED
    BY <1>6, Zenon
<1>8. \A p \in 0..c : upTo[p] = Step(upTo, p)
  <2> HIDE DEF upTo
  <2> QED
    BY <1>7, Zenon DEF Joins
<1>9. \A p \in 0..c : upTo[p] = g[p]
  <2> DEFINE T == {p \in 0..c : upTo[p] # g[p]}
  <2> HIDE DEF upTo, g
  <2> SUFFICES ASSUME T # {} PROVE FALSE
    BY Zenon
  <2>1. PICK p \in T : \A q \in T : p <= q
    <3>1. T \subseteq Nat
      BY <1>2
    <3> HIDE DEF T
    <3> QED
      BY <3>1, LeastOf, Zenon
  <2>2. p \in 0..c /\ upTo[p] # g[p]
    BY Zenon
  <2>3. p # 0
    BY <1>5, <1>8, <2>2, Zenon
  <2>4. p - 1 \in 0..c /\ ~ (p <= p - 1)
    BY <1>2, <2>2, <2>3
  <2>5. upTo[p - 1] = g[p - 1]
    BY <2>1, <2>4, Zenon
  <2>6. upTo[p] = upTo[p - 1] \o parts[p].bytes /\ g[p] = g[p - 1] \o parts[p].bytes
    BY <1>5, <1>8, <2>2, <2>3, Zenon
  <2> QED
    BY <2>2, <2>5, <2>6, Zenon
<1>10. Joined(parts) = Cut(c)
  <2>1. c \in 0..c
    BY <1>2
  <2>2. g[c] = Cut(c)
    BY <2>1
  <2>3. Joined(parts) = upTo[c]
    BY JoinedIs, Zenon
  <2> HIDE DEF g, upTo
  <2> QED
    BY <1>9, <2>1, <2>2, <2>3, Zenon
<1>11. Cut(c) = b
  <2>1. Cut(c) = SubSeq(b, 1, l)
    BY <1>2, Zenon DEF Cut
  <2>2. \A k \in 1..l : b[k] \in STRING
    BY ElementOfSeq
  <2>3. /\ SubSeq(b, 1, l) \in Seq(STRING)
        /\ Len(SubSeq(b, 1, l)) = (IF 1 <= l THEN l - 1 + 1 ELSE 0)
        /\ \A k \in 1..(l - 1 + 1) : SubSeq(b, 1, l)[k] = b[1 + k - 1]
    BY <1>1, <2>2, SubSeqProperties
  <2>4. Len(SubSeq(b, 1, l)) = l /\ \A k \in 1..l : SubSeq(b, 1, l)[k] = b[k]
    BY <1>1, <2>3
  <2> QED
    BY <2>1, <2>3, <2>4, SeqEqual
<1> QED
  BY <1>10, <1>11

\* The lengths of a file's pieces add up to its length.
LEMMA PiecesSum ==
    ASSUME NEW b \in Seq(STRING), NEW n \in Nat \ {0}, NEW f,
           f = [i \in DOMAIN Pieces(b, n) |-> Len(Pieces(b, n)[i])]
    PROVE  SumFunction(f) = Len(b)
<1> DEFINE l == Len(b)
           c == (l + n - 1) \div n
           P == [k \in 0..c |-> EndOf(k, n, l)]
<1>1. l \in Nat
  BY LenProperties
<1>2. /\ c \in Nat /\ EndOf(0, n, l) = 0 /\ EndOf(c, n, l) = l
      /\ \A k \in 0..c : EndOf(k, n, l) \in 0..l
      /\ \A k \in 1..c : EndOf(k - 1, n, l) = (k - 1) * n /\ EndOf(k - 1, n, l) < EndOf(k, n, l)
  <2>1. PICK d : d = c
    OBVIOUS
  <2> QED
    BY <1>1, PieceEnds, Zenon
<1>3. /\ DOMAIN Pieces(b, n) = 1..c
      /\ \A k \in 1..c : Pieces(b, n)[k] = SubSeq(b, (k - 1) * n + 1, EndOf(k, n, l))
  BY PiecesAre
<1> HIDE DEF c
<1>4. ASSUME NEW k \in 1..c PROVE f[k] \in Int /\ P[k] = P[k - 1] + f[k]
  <2>1. k \in 0..c /\ k - 1 \in 0..c
    BY <1>2
  <2>2. PICK i \in Nat, j \in Nat :
           i = EndOf(k - 1, n, l) /\ j = EndOf(k, n, l) /\ i = (k - 1) * n /\ i <= j /\ j <= l
    <3>1. EndOf(k, n, l) \in 0..l /\ EndOf(k - 1, n, l) \in 0..l
      BY <1>2, <2>1
    <3>2. EndOf(k - 1, n, l) = (k - 1) * n /\ EndOf(k - 1, n, l) < EndOf(k, n, l)
      BY <1>2
    <3> QED
      BY <1>1, <3>1, <3>2
  <2>3. Len(SubSeq(b, i + 1, j)) = j - i
    BY <2>2, Stretches
  <2>4. f[k] = Len(Pieces(b, n)[k]) /\ P[k] = j /\ P[k - 1] = i
    BY <1>3, <2>1, <2>2
  <2>5. f[k] = j - i
    BY <1>3, <2>2, <2>3, <2>4, Zenon
  <2> QED
    BY <2>4, <2>5
<1>5. f \in [1..c -> Int]
  BY <1>3, <1>4
<1>6. P \in [0..c -> Int] /\ P[0] = 0 /\ P[c] = l
  BY <1>1, <1>2
<1>7. \A k \in 1..c : P[k] = P[k - 1] + f[k]
  BY <1>4, Zenon
<1> HIDE DEF P
<1> QED
  BY <1>2, <1>5, <1>6, <1>7, SumUpTo, Zenon

-----------------------------------------------------------------------------
(* What is stored under a hash. *)

\* A file nobody has written over is as the manifest says.
DiskInv ==
    disk = [f \in Files |-> disk[f]] /\ \A f \in Files : f \notin edits => disk[f] = Contents[f]

\* The parts of a multipart upload: those that are sent are pieces of the file, and
\* all of them are when the upload completes.
PartsAre(f, parts, at) ==
    /\ parts = [p \in DOMAIN Pieces(Contents[f], PartSize) |-> parts[p]]
    /\ \A p \in DOMAIN parts :
          parts[p].state = "sent" => parts[p].bytes = Pieces(Contents[f], PartSize)[p]
    /\ at = "complete" => \A p \in DOMAIN parts : parts[p].state = "sent"

\* What a unit r of file f will store is what it hashed.
Genuine(f, r) ==
    /\ ~IsMultipart(f) => r.data = r.hash.xxh128
    /\ r.pc = "put" => ~IsMultipart(f)
    /\ IsMultipart(f) /\ f \notin edits =>
          /\ r.hash.xxh128 = Contents[f]
          /\ r.pc \in {"parts", "complete"} => PartsAre(f, r.parts, r.pc)

ContentInv ==
    DiskInv /\ ContentAddressed /\ \A u \in UnitIds : Genuine(u[1], Unit(u))

\* A sequence of parts has as many as there are pieces.
LEMMA PartsJoin ==
    ASSUME NEW f \in Files, NEW parts, PartsAre(f, parts, "complete")
    PROVE  Joined(parts) = Contents[f]
<1> DEFINE b == Contents[f]
           c == (Len(b) + PartSize - 1) \div PartSize
           S == {parts[p] : p \in 1..c}
<1>1. b \in Seq(STRING) /\ PartSize \in Nat \ {0} /\ Len(b) \in Nat
  BY FilesAre, UploadAssumption, LenProperties
<1>2. DOMAIN Pieces(b, PartSize) = 1..c
  BY <1>1, PiecesAre, Zenon
<1>3. c \in Nat
  <2>1. \A d : d = c => d \in Nat
    BY <1>1, PieceEnds, Zenon
  <2> QED
    BY <2>1
<1>4. DOMAIN parts = 1..c
  BY <1>2 DEF PartsAre
<1>5. \A p \in 1..c : parts[p].bytes = Pieces(b, PartSize)[p]
  BY <1>4, Zenon DEF PartsAre
<1>6. Len(parts) = c
  <2>1. parts \in [1..c -> S]
    <3>1. parts = [p \in 1..c |-> parts[p]]
      BY <1>2, Zenon DEF PartsAre
    <3>2. \A p \in 1..c : parts[p] \in S
      BY Zenon
    <3> HIDE DEF c, S
    <3> QED
      BY <3>1, <3>2
  <2> HIDE DEF c, S
  <2>2. parts \in Seq(S)
    BY <1>3, <2>1, SeqDef, Zenon
  <2>3. DOMAIN parts = 1..Len(parts) /\ Len(parts) \in Nat
    BY <2>2, LenProperties
  <2> QED
    BY <1>3, <1>4, <2>3
<1>7. Len(parts) = (Len(b) + PartSize - 1) \div PartSize
  BY <1>6
<1>8. \A p \in 1..Len(parts) : parts[p].bytes = Pieces(b, PartSize)[p]
  BY <1>5, <1>6
<1> HIDE DEF b, c
<1>9. Joined(parts) = b
  BY <1>1, <1>7, <1>8, PiecesJoin
<1> QED
  BY <1>9 DEF b

\* Storing bytes under their own hash keeps the cache content-addressed.
LEMMA Stores ==
    ASSUME ContentAddressed, NEW h, NEW bytes, Store(h, bytes), UNCHANGED edits,
           bytes = h.xxh128 \/ \E f \in edits : IsMultipart(f)
    PROVE  ContentAddressed'
<1>1. \A k \in DOMAIN objects' : \/ k = h /\ objects'[k] = bytes
                                 \/ k \in DOMAIN objects /\ objects'[k] = objects[k]
  BY DEF Store
<1>2. \A f : IsMultipart(f)' <=> IsMultipart(f)
  BY DEF IsMultipart, UseChunks, Size
<1> QED
  BY <1>1, <1>2, Zenon DEF ContentAddressed

\* The same, when nothing is stored.
LEMMA StoresNothing ==
    ASSUME ContentAddressed, UNCHANGED objects, edits \subseteq edits'
    PROVE  ContentAddressed'
BY Zenon DEF ContentAddressed, IsMultipart, UseChunks, Size

\* The units stay genuine when one of them moves on and stays so.
LEMMA UnitMoves ==
    ASSUME ContentInv, NEW u \in UnitIds, NEW r, Moved(u, r), Genuine(u[1], r),
           UNCHANGED <<disk, edits>>, ContentAddressed'
    PROVE  ContentInv'
<1>1. DiskInv'
  BY SMTT(30) DEF ContentInv, DiskInv
<1>2. ASSUME NEW v \in UnitIds' PROVE Genuine(v[1], Unit(v))'
  <2>1. v \in UnitIds /\ (v # u => Unit(v)' = Unit(v)) /\ Unit(u)' = r
    BY DEF Moved
  <2>2. PICK q : q = Unit(v)' /\ Genuine(v[1], q)
    BY <2>1 DEF ContentInv
  <2> QED
    BY <2>2 DEF Genuine, PartsAre, IsMultipart, UseChunks, Size, Pieces
<1> QED
  BY <1>1, <1>2 DEF ContentInv

\* A unit that keeps its hash and its data and enters no other stage than these.
LEMMA StaysGenuine ==
    ASSUME NEW f, NEW r, NEW s, Genuine(f, r), s.hash = r.hash, s.data = r.data,
           s.pc = "put" => ~IsMultipart(f),
           IsMultipart(f) /\ f \notin edits /\ s.pc \in {"parts", "complete"} =>
              PartsAre(f, s.parts, s.pc)
    PROVE  Genuine(f, s)
BY Zenon DEF Genuine

\* The fields that a step of a unit leaves alone.
LEMMA PcFields ==
    ASSUME NEW r, IsUnit(r), NEW p
    PROVE  LET s == [r EXCEPT !.pc = p] IN
           IsUnit(s) /\ s.pc = p /\ s.hash = r.hash /\ s.data = r.data /\ s.parts = r.parts
BY DEF IsUnit

LEMMA PartFields ==
    ASSUME NEW r, IsUnit(r), NEW y, NEW x
    PROVE  LET s == [r EXCEPT !.parts[y] = x] IN
           /\ IsUnit(s) /\ s.pc = r.pc /\ s.hash = r.hash /\ s.data = r.data
           /\ s.parts = [r.parts EXCEPT ![y] = x]
<1> DEFINE d == [r.parts EXCEPT ![y] = x]
           s == [r EXCEPT !.parts = d]
<1> HIDE DEF d
<1>1. IsUnit(s) /\ s.pc = r.pc /\ s.hash = r.hash /\ s.data = r.data /\ s.parts = d
  BY DEF IsUnit
<1> QED
  BY <1>1 DEF d

\* Every step of a unit keeps what is stored, and what will be, genuine.
LEMMA ContentUnitStep ==
    ASSUME UploadInv, ContentInv, NEW u \in UnitIds, UnitStep(u)
    PROVE  ContentInv'
<1> DEFINE f == u[1]
           r == Unit(u)
<1>1. UnitTypes /\ IsUnit(r) /\ f \in Files
  BY UnitIdsAre DEF UploadInv, UnitInv, UnitTypes
<1>2. Genuine(f, r) /\ ContentAddressed /\ DiskInv
  BY DEF ContentInv
<1>3. UNCHANGED <<disk, edits>>
  BY Zenon DEF UnitStep, CheckExists, Claim, Wake, PutObject, Notify, CreateMultipart, JoinParts,
         CompleteMultipart, AbortMultipart, UploadPart, fileVars
<1>4. UNCHANGED objects => ContentAddressed'
  BY <1>2, <1>3, StoresNothing, SMTT(30)
<1> HIDE DEF f, r
<1>5. ASSUME NEW s, Become(u, s), IsUnit(s), s.hash = r.hash, s.data = r.data,
             s.pc = "put" => ~IsMultipart(f),
             IsMultipart(f) /\ f \notin edits /\ s.pc \in {"parts", "complete"} =>
                PartsAre(f, s.parts, s.pc),
             ContentAddressed'
      PROVE  ContentInv'
  <2>1. Moved(u, s)
    BY <1>1, <1>5, BecomeStep
  <2>2. Genuine(f, s)
    BY <1>2, <1>5, StaysGenuine
  <2> QED
    BY <1>3, <1>5, <2>1, <2>2, UnitMoves DEF f
<1>6. ASSUME NEW s, Become(u, s), IsUnit(s), s.hash = r.hash, s.data = r.data,
             s.pc \notin {"put", "parts", "complete"}, ContentAddressed'
      PROVE  ContentInv'
  <2>1. s.pc # "put" /\ s.pc \notin {"parts", "complete"}
    BY <1>6
  <2> QED
    BY <1>5, <1>6, <2>1, Zenon
<1>7. CASE CheckExists(u)
  <2>1. PICK p \in {"done", "claim"} : Become(u, [r EXCEPT !.pc = p])
    BY <1>7 DEF CheckExists, r
  <2>2. UNCHANGED objects
    BY <1>7 DEF CheckExists, storeVars
  <2> DEFINE s == [r EXCEPT !.pc = p]
  <2>3. /\ Become(u, s) /\ IsUnit(s) /\ s.pc = p
        /\ s.hash = r.hash /\ s.data = r.data
    BY <1>1, <2>1, PcFields
  <2> HIDE DEF s
  <2> QED
    BY <1>4, <1>6, <2>1, <2>2, <2>3
<1>8. CASE Claim(u)
  <2>1. UNCHANGED objects
    BY <1>8 DEF Claim
  <2>2. CASE r.hash \in DOMAIN dedup
    <3>1. PICK x : Become(u, [r EXCEPT !.pc = "wait", !.owner = x])
      BY <1>8, <2>2, Zenon DEF Claim, r
    <3> DEFINE q == [r EXCEPT !.pc = "wait"]
               s == [q EXCEPT !.owner = x]
    <3>a. Become(u, s)
      BY <3>1
    <3>b. IsUnit(q) /\ q.pc = "wait" /\ q.hash = r.hash /\ q.data = r.data
      BY <1>1, PcFields
    <3> HIDE DEF q
    <3>c. IsUnit(s) /\ s.pc = q.pc /\ s.hash = q.hash /\ s.data = q.data
      BY <3>b DEF IsUnit
    <3> HIDE DEF s
    <3>2. /\ Become(u, s) /\ IsUnit(s) /\ s.pc = "wait"
          /\ s.hash = r.hash /\ s.data = r.data
      BY <3>a, <3>b, <3>c
    <3> QED
      BY <1>4, <1>6, <2>1, <3>1, <3>2
  <2>3. CASE r.hash \notin DOMAIN dedup
    <3>1. PICK p : /\ p = (IF IsMultipart(f) THEN "create" ELSE "put")
                   /\ Become(u, [r EXCEPT !.pc = p])
      BY <1>8, <2>3 DEF Claim, r, f
    <3> DEFINE s == [r EXCEPT !.pc = p]
    <3>2. /\ Become(u, s) /\ IsUnit(s) /\ s.pc = p
          /\ s.hash = r.hash /\ s.data = r.data
      BY <1>1, <3>1, PcFields
    <3> HIDE DEF s
    <3>3. (s.pc = "put" => ~IsMultipart(f)) /\ s.pc \notin {"parts", "complete"}
      BY <3>1, <3>2
    <3>4. ContentAddressed' /\ Become(u, s)
      BY <1>4, <2>1, <3>1, <3>2
    <3> QED
      BY <1>5, <3>2, <3>3, <3>4, Zenon
  <2> QED
    BY <2>2, <2>3
<1>9. CASE Wake(u)
  <2>1. Become(u, [r EXCEPT !.pc = "done"]) /\ UNCHANGED objects
    BY <1>9 DEF Wake, storeVars, r
  <2> DEFINE s == [r EXCEPT !.pc = "done"]
  <2>2. /\ Become(u, s) /\ IsUnit(s) /\ s.pc = "done"
        /\ s.hash = r.hash /\ s.data = r.data
    BY <1>1, <2>1, PcFields
  <2> HIDE DEF s
  <2> QED
    BY <1>4, <1>6, <2>1, <2>2
<1>10. CASE PutObject(u)
  <2>1. r.pc = "put"
    BY <1>10 DEF PutObject, r
  <2>2. CASE Store(r.hash, r.data) /\ Become(u, [r EXCEPT !.pc = "notify"])
    <3>1. r.data = r.hash.xxh128
      BY <1>2, <2>1, Zenon DEF Genuine
    <3>2. ContentAddressed'
      BY <1>2, <1>3, <2>2, <3>1, Stores, SMTT(30)
    <3> DEFINE s == [r EXCEPT !.pc = "notify"]
    <3>3. /\ Become(u, s) /\ IsUnit(s) /\ s.pc = "notify"
          /\ s.hash = r.hash /\ s.data = r.data
      BY <1>1, <2>2, PcFields
    <3> HIDE DEF s
    <3> QED
      BY <1>6, <2>2, <3>2, <3>3
  <2>3. CASE UNCHANGED objects /\ Become(u, [r EXCEPT !.pc = "notify", !.failed = TRUE])
    <3> DEFINE q == [r EXCEPT !.pc = "notify"]
               x == TRUE
               s == [q EXCEPT !.failed = x]
    <3>a. Become(u, s)
      BY <2>3
    <3>b. IsUnit(q) /\ q.pc = "notify" /\ q.hash = r.hash /\ q.data = r.data
      BY <1>1, PcFields
    <3> HIDE DEF q, x
    <3>c. IsUnit(s) /\ s.pc = q.pc /\ s.hash = q.hash /\ s.data = q.data
      BY <3>b DEF IsUnit
    <3> HIDE DEF s
    <3>1. /\ Become(u, s) /\ IsUnit(s) /\ s.pc = "notify"
          /\ s.hash = r.hash /\ s.data = r.data
      BY <3>a, <3>b, <3>c
    <3> QED
      BY <1>4, <1>6, <2>3, <3>1
  <2> QED
    BY <1>10, <2>2, <2>3 DEF PutObject, r
<1>11. CASE Notify(u)
  <2>1. UNCHANGED objects
    BY <1>11 DEF Notify
  <2> DEFINE x == ~r.failed
  <2>2. PICK p \in {"failed", "done"} : Become(u, [r EXCEPT !.pc = p, !.uploaded = x])
    <3>1. PICK p : /\ p = (IF r.failed THEN "failed" ELSE "done")
                   /\ Become(u, [r EXCEPT !.pc = p, !.uploaded = x])
      BY <1>11, Zenon DEF Notify, r
    <3> HIDE DEF x
    <3>2. p \in {"failed", "done"}
      BY <3>1
    <3> QED
      BY <3>1, <3>2, Zenon
  <2> HIDE DEF x
  <2> DEFINE q == [r EXCEPT !.pc = p]
             s == [q EXCEPT !.uploaded = x]
  <2>a. Become(u, s)
    BY <2>2
  <2>b. IsUnit(q) /\ q.pc = p /\ q.hash = r.hash /\ q.data = r.data
    BY <1>1, PcFields
  <2> HIDE DEF q
  <2>c. IsUnit(s) /\ s.pc = q.pc /\ s.hash = q.hash /\ s.data = q.data
    BY <2>b DEF IsUnit
  <2> HIDE DEF s
  <2>3. /\ Become(u, s) /\ IsUnit(s) /\ s.pc = p
        /\ s.hash = r.hash /\ s.data = r.data
    BY <2>a, <2>b, <2>c
  <2> QED
    BY <1>4, <1>6, <2>1, <2>2, <2>3
<1>12. CASE CreateMultipart(u)
  <2>1. UNCHANGED objects
    BY <1>12 DEF CreateMultipart
  <2> DEFINE none == [p \in DOMAIN Pieces(Contents[f], PartSize) |-> NoPart]
  <2>2. CASE Become(u, [r EXCEPT !.pc = "parts", !.parts = none])
    <3>1. PartsAre(f, none, "parts")
      BY DEF PartsAre, NoPart
    <3> HIDE DEF none
    <3> DEFINE q == [r EXCEPT !.pc = "parts"]
               s == [q EXCEPT !.parts = none]
    <3>a. Become(u, s)
      BY <2>2
    <3>b. IsUnit(q) /\ q.pc = "parts" /\ q.hash = r.hash /\ q.data = r.data
      BY <1>1, PcFields
    <3> HIDE DEF q
    <3>c. IsUnit(s) /\ s.pc = q.pc /\ s.hash = q.hash /\ s.data = q.data /\ s.parts = none
      BY <3>b, SMTT(30) DEF IsUnit
    <3> HIDE DEF s
    <3>2. /\ Become(u, s) /\ IsUnit(s) /\ s.pc = "parts"
          /\ s.hash = r.hash /\ s.data = r.data /\ s.parts = none
      BY <3>a, <3>b, <3>c
    <3>3. ContentAddressed' /\ Become(u, s) /\ s.pc # "put"
      BY <1>4, <2>1, <2>2, <3>2, SMTT(30)
    <3>4. PartsAre(f, s.parts, s.pc)
      BY <3>1, <3>2
    <3> QED
      BY <1>5, <3>2, <3>3, <3>4, Zenon
  <2>3. CASE Become(u, [r EXCEPT !.pc = "failed"])
    <3> DEFINE s == [r EXCEPT !.pc = "failed"]
    <3>1. /\ Become(u, s) /\ IsUnit(s) /\ s.pc = "failed"
          /\ s.hash = r.hash /\ s.data = r.data
      BY <1>1, <2>3, PcFields
    <3> HIDE DEF s
    <3> QED
      BY <1>4, <1>6, <2>1, <2>3, <3>1, SMTT(30)
  <2> QED
    BY <1>12, <2>2, <2>3 DEF CreateMultipart, r, f
<1>13. ASSUME NEW p \in DOMAIN r.parts, UploadPart(u, p) PROVE ContentInv'
  <2>1. r.pc = "parts" /\ UNCHANGED objects
    BY <1>13 DEF UploadPart, storeVars, r
  <2> DEFINE first == (p - 1) * PartSize + 1
             last == EndOf(p, PartSize, Size(f))
  <2>2. PICK x : /\ Become(u, [r EXCEPT !.parts[p] = x])
                 /\ x.state = "sent" => x.bytes = SubSeq(disk[f], first, last)
    <3>1. \/ Become(u, [r EXCEPT !.parts[p] =
                [state |-> "sent", bytes |-> SubSeq(disk[f], first, last)]])
          \/ Become(u, [r EXCEPT !.parts[p] = [state |-> "error", bytes |-> <<>>]])
      BY <1>13, Zenon DEF UploadPart, EndOf, r, f
    <3>2. CASE Become(u, [r EXCEPT !.parts[p] =
                [state |-> "sent", bytes |-> SubSeq(disk[f], first, last)]])
      <4>1. PICK x : x = [state |-> "sent", bytes |-> SubSeq(disk[f], first, last)]
        BY Zenon
      <4>2. x.bytes = SubSeq(disk[f], first, last)
        BY <4>1, Zenon
      <4> QED
        BY <3>2, <4>1, <4>2, Zenon
    <3>3. CASE Become(u, [r EXCEPT !.parts[p] = [state |-> "error", bytes |-> <<>>]])
      <4>1. PICK x : x = [state |-> "error", bytes |-> <<>>]
        BY Zenon
      <4>2. x.state # "sent"
        BY <4>1
      <4> QED
        BY <3>3, <4>1, <4>2, Zenon
    <3> QED
      BY <3>1, <3>2, <3>3, Zenon
  <2> DEFINE s == [r EXCEPT !.parts[p] = x]
  <2>3. /\ Become(u, s) /\ IsUnit(s) /\ s.pc = r.pc
        /\ s.hash = r.hash /\ s.data = r.data /\ s.parts = [r.parts EXCEPT ![p] = x]
    BY <1>1, <2>2, PartFields, SMTT(30)
  <2> HIDE DEF s
  <2>4. ASSUME IsMultipart(f), f \notin edits PROVE PartsAre(f, s.parts, "parts")
    <3>1. PartsAre(f, r.parts, "parts")
      BY <1>2, <2>1, <2>4 DEF Genuine
    <3>2. disk[f] = Contents[f]
      BY <1>1, <1>2, <2>4, SMTT(30) DEF DiskInv
    <3>3. DOMAIN r.parts = DOMAIN Pieces(Contents[f], PartSize)
      BY <3>1 DEF PartsAre
    <3>4. x.state = "sent" => x.bytes = Pieces(Contents[f], PartSize)[p]
      <4>1. Contents[f] \in Seq(STRING) /\ PartSize \in Nat \ {0}
        BY <1>1, FilesAre, UploadAssumption, SMTT(30)
      <4>2. Pieces(Contents[f], PartSize)[p] = SubSeq(Contents[f], first, last)
        BY <3>3, <4>1, PiecesAre, Zenon DEF Size
      <4> QED
        BY <2>2, <3>2, <4>2, Zenon
    <3> HIDE DEF first, last
    <3>5. s.parts = [q \in DOMAIN Pieces(Contents[f], PartSize) |-> s.parts[q]]
      BY <2>3, <3>1, <3>3, SMTT(30) DEF PartsAre
    <3>6. ASSUME NEW q \in DOMAIN s.parts, s.parts[q].state = "sent"
          PROVE  s.parts[q].bytes = Pieces(Contents[f], PartSize)[q]
      <4>1. q \in DOMAIN r.parts /\ s.parts[q] = IF q = p THEN x ELSE r.parts[q]
        BY <2>3, <3>6
      <4> QED
        BY <3>1, <3>4, <3>6, <4>1, SMTT(30) DEF PartsAre
    <3> QED
      BY <3>5, <3>6, SMTT(30) DEF PartsAre
  <2>5. ContentAddressed' /\ Become(u, s) /\ s.pc = "parts"
    BY <1>4, <2>1, <2>2, <2>3
  <2>6. s.pc # "put"
    BY <2>5
  <2> QED
    BY <1>5, <2>3, <2>4, <2>5, <2>6, Zenon
<1>14. CASE JoinParts(u)
  <2>1. r.pc = "parts" /\ UNCHANGED objects
    BY <1>14 DEF JoinParts, storeVars, r
  <2>2. CASE /\ \A p \in DOMAIN r.parts : r.parts[p].state = "sent"
             /\ Become(u, [r EXCEPT !.pc = "complete"])
    <3> DEFINE s == [r EXCEPT !.pc = "complete"]
    <3>1. /\ Become(u, s) /\ IsUnit(s) /\ s.pc = "complete"
          /\ s.hash = r.hash /\ s.data = r.data /\ s.parts = r.parts
      BY <1>1, <2>2, PcFields, SMTT(30)
    <3> HIDE DEF s
    <3>2. ASSUME IsMultipart(f), f \notin edits PROVE PartsAre(f, s.parts, s.pc)
      <4>1. PartsAre(f, r.parts, "parts")
        BY <1>2, <2>1, <3>2, SMTT(30) DEF Genuine
      <4>2. PartsAre(f, r.parts, "complete")
        BY <2>2, <4>1, Zenon DEF PartsAre
      <4> QED
        BY <3>1, <4>2, SMTT(30)
    <3>3. ContentAddressed' /\ Become(u, s) /\ s.pc # "put"
      BY <1>4, <2>1, <2>2, <3>1, SMTT(30)
    <3> QED
      BY <1>5, <3>1, <3>2, <3>3, Zenon
  <2>3. CASE Become(u, [r EXCEPT !.pc = "abort"])
    <3> DEFINE s == [r EXCEPT !.pc = "abort"]
    <3>1. /\ Become(u, s) /\ IsUnit(s) /\ s.pc = "abort"
          /\ s.hash = r.hash /\ s.data = r.data
      BY <1>1, <2>3, PcFields
    <3> HIDE DEF s
    <3> QED
      BY <1>4, <1>6, <2>1, <2>3, <3>1, SMTT(30)
  <2> QED
    BY <1>14, <2>2, <2>3 DEF JoinParts, r
<1>15. CASE CompleteMultipart(u)
  <2>1. r.pc = "complete" /\ IsMultipart(f)
    BY <1>15 DEF CompleteMultipart, UploadInv, UnitInv, SessionInv, r, f
  <2>2. CASE Store(r.hash, Joined(r.parts)) /\ Become(u, [r EXCEPT !.pc = "notify"])
    <3>1. Joined(r.parts) = r.hash.xxh128 \/ \E g \in edits : IsMultipart(g)
      <4>1. CASE f \in edits
        BY <2>1, <4>1
      <4>2. CASE f \notin edits
        <5>1. r.hash.xxh128 = Contents[f] /\ PartsAre(f, r.parts, "complete")
          BY <1>2, <2>1, <4>2 DEF Genuine
        <5> QED
          BY <1>1, <5>1, PartsJoin, SMTT(30)
      <4> QED
        BY <4>1, <4>2
    <3>2. ContentAddressed'
      BY <1>2, <1>3, <2>2, <3>1, Stores, SMTT(30)
    <3> DEFINE s == [r EXCEPT !.pc = "notify"]
    <3>3. /\ Become(u, s) /\ IsUnit(s) /\ s.pc = "notify"
          /\ s.hash = r.hash /\ s.data = r.data
      BY <1>1, <2>2, PcFields
    <3> HIDE DEF s
    <3> QED
      BY <1>6, <2>2, <3>2, <3>3, SMTT(30)
  <2>3. CASE UNCHANGED objects /\ Become(u, [r EXCEPT !.pc = "abort"])
    <3> DEFINE s == [r EXCEPT !.pc = "abort"]
    <3>1. /\ Become(u, s) /\ IsUnit(s) /\ s.pc = "abort"
          /\ s.hash = r.hash /\ s.data = r.data
      BY <1>1, <2>3, PcFields
    <3> HIDE DEF s
    <3> QED
      BY <1>4, <1>6, <2>3, <3>1
  <2> QED
    BY <1>15, <2>2, <2>3 DEF CompleteMultipart, r
<1>16. CASE AbortMultipart(u)
  <2>1. /\ \/ Become(u, [r EXCEPT !.pc = "notify", !.failed = TRUE, !.parts = <<>>])
           \/ Become(u, [r EXCEPT !.pc = "notify", !.failed = TRUE, !.parts = <<>>, !.lost = TRUE])
        /\ UNCHANGED objects
    BY <1>16 DEF AbortMultipart, r
  <2> DEFINE q == [r EXCEPT !.pc = "notify"]
             x == TRUE
             w == [q EXCEPT !.failed = x]
             v == [w EXCEPT !.parts = <<>>]
             l == [v EXCEPT !.lost = x]
  <2>a. Become(u, v) \/ Become(u, l)
    BY <2>1
  <2>b. IsUnit(q) /\ q.pc = "notify" /\ q.hash = r.hash /\ q.data = r.data
    BY <1>1, PcFields
  <2> HIDE DEF q, x
  <2>c. IsUnit(w) /\ w.pc = q.pc /\ w.hash = q.hash /\ w.data = q.data
    BY <2>b DEF IsUnit
  <2> HIDE DEF w
  <2>d. IsUnit(v) /\ v.pc = w.pc /\ v.hash = w.hash /\ v.data = w.data
    BY <2>c DEF IsUnit
  <2> HIDE DEF v
  <2>e. IsUnit(l) /\ l.pc = v.pc /\ l.hash = v.hash /\ l.data = v.data
    BY <2>d DEF IsUnit
  <2> HIDE DEF l
  <2>2. PICK s : /\ Become(u, s) /\ IsUnit(s) /\ s.pc = "notify"
                 /\ s.hash = r.hash /\ s.data = r.data
    BY <2>a, <2>b, <2>c, <2>d, <2>e
  <2> QED
    BY <1>4, <1>6, <2>1, <2>2
<1> QED
  BY <1>7, <1>8, <1>9, <1>10, <1>11, <1>12, <1>13, <1>14, <1>15, <1>16, SMTT(30) DEF UnitStep, r

\* Steps that leave the units and the data cache alone.
LEMMA ContentRests ==
    ASSUME ContentInv, UNCHANGED <<units, objects>>, edits \subseteq edits', DiskInv'
    PROVE  ContentInv'
<1>1. UnitIds' = UnitIds /\ \A v : Unit(v)' = Unit(v)
  BY DEF UnitIds, Unit
<1>2. ContentAddressed'
  BY StoresNothing, SMTT(30) DEF ContentInv
<1>3. ASSUME NEW v \in UnitIds' PROVE Genuine(v[1], Unit(v))'
  <2>1. PICK q : q = Unit(v) /\ q = Unit(v)' /\ Genuine(v[1], q)
    BY <1>1 DEF ContentInv
  <2> QED
    BY <2>1 DEF Genuine, PartsAre, IsMultipart, UseChunks, Size, Pieces
<1> QED
  BY <1>2, <1>3 DEF ContentInv

\* Reading a file makes units that will store what they hashed.
LEMMA ContentRead ==
    ASSUME UploadInv, ContentInv, NEW f \in Files,
           units' = [units EXCEPT ![f] =
               [i \in DOMAIN Chunks(f, disk[f]) |-> NewUnit(f, Chunks(f, disk[f])[i])]],
           UNCHANGED <<disk, edits, objects>>
    PROVE  ContentInv'
<1> DEFINE c == Chunks(f, disk[f])
<1>1. DOMAIN units = Files
  BY DEF UploadInv, UnitInv, UnitTypes
<1>2. DiskInv'
  BY DEF ContentInv, DiskInv
<1>3. ContentAddressed'
  BY StoresNothing DEF ContentInv
<1>4. ASSUME NEW i \in DOMAIN c PROVE Genuine(f, NewUnit(f, c[i]))
  <2>1. PICK q, b : /\ q = NewUnit(f, b) /\ b = c[i] /\ q.pc = "exists" /\ q.hash.xxh128 = b
                    /\ q.data = IF IsMultipart(f) THEN <<>> ELSE b
    <3>1. PICK q, b : q = NewUnit(f, b) /\ b = c[i]
      OBVIOUS
    <3>2. /\ q.pc = "exists" /\ q.hash.xxh128 = b
          /\ q.data = IF IsMultipart(f) THEN <<>> ELSE b
      BY <3>1 DEF NewUnit, hash_data
    <3> QED
      BY <3>1, <3>2
  <2>2. IsMultipart(f) /\ f \notin edits => b = Contents[f]
    <3> SUFFICES ASSUME IsMultipart(f), f \notin edits PROVE b = Contents[f]
      OBVIOUS
    <3>1. c = <<disk[f]>> /\ disk[f] = Contents[f]
      BY DEF IsMultipart, Chunks, ContentInv, DiskInv
    <3>2. i = 1
      BY <3>1
    <3> QED
      BY <2>1, <3>1, <3>2, SMTT(30)
  <2>3. q.pc # "put" /\ q.pc \notin {"parts", "complete"}
    BY <2>1
  <2>4. Genuine(f, q)
    BY <2>1, <2>2, <2>3, Zenon DEF Genuine
  <2> QED
    BY <2>1, <2>4, Zenon
<1> HIDE DEF c
<1>5. /\ units'[f] = [i \in DOMAIN c |-> NewUnit(f, c[i])]
      /\ \A g \in Files : g # f => units'[g] = units[g]
  BY <1>1, SMTT(30) DEF c
<1>6. ASSUME NEW v \in UnitIds' PROVE Genuine(v[1], Unit(v))'
  <2>1. v[1] \in Files /\ v[2] \in DOMAIN units'[v[1]]
    BY DEF UnitIds
  <2>2. Genuine(v[1], units'[v[1]][v[2]])
    <3>1. CASE v[1] = f
      BY <1>4, <1>5, <2>1, <3>1, SMTT(30)
    <3>2. CASE v[1] # f
      <4>1. units'[v[1]] = units[v[1]]
        BY <1>5, <2>1, <3>2
      <4>2. <<v[1], v[2]>> \in UnitIds
        BY <2>1, <4>1, UnitIdsAre
      <4>3. Genuine(v[1], Unit(<<v[1], v[2]>>))
        BY <4>2 DEF ContentInv
      <4> QED
        BY <4>1, <4>3 DEF Unit
    <3> QED
      BY <3>1, <3>2, SMTT(30)
  <2>3. PICK q : q = units'[v[1]][v[2]] /\ q = Unit(v)'
    BY DEF Unit
  <2>4. Genuine(v[1], q)
    BY <2>2, <2>3
  <2> QED
    BY <2>3, <2>4, Zenon DEF Genuine, PartsAre, IsMultipart, UseChunks, Size, Pieces
<1> QED
  BY <1>2, <1>3, <1>6 DEF ContentInv

\* Every step keeps what is stored genuine.
LEMMA ContentStep == UploadInv /\ ContentInv /\ [Next]_vars => ContentInv'
<1> SUFFICES ASSUME UploadInv, ContentInv, [Next]_vars PROVE ContentInv'
  OBVIOUS
<1>1. ASSUME UNCHANGED <<units, objects, disk, edits>> PROVE ContentInv'
  <2>1. DiskInv'
    BY <1>1 DEF ContentInv, DiskInv
  <2> QED
    BY <1>1, <2>1, ContentRests
<1>2. ASSUME NEW f \in Files, FileStep(f) PROVE ContentInv'
  <2>1. UNCHANGED <<objects, disk, edits>>
    BY <1>2, Zenon DEF FileStep, Start, Skip, AskMemory, GetMemory, Read, JoinFailed, JoinAll, storeVars
  <2>2. \/ UNCHANGED units
        \/ units' = [units EXCEPT ![f] =
               [i \in DOMAIN Chunks(f, disk[f]) |-> NewUnit(f, Chunks(f, disk[f])[i])]]
    BY <1>2, Zenon DEF FileStep, Start, Skip, AskMemory, GetMemory, Read, JoinFailed, JoinAll
  <2> QED
    BY <1>1, <2>1, <2>2, ContentRead
<1>3. ASSUME NEW u \in UnitIds, UnitStep(u) PROVE ContentInv'
  BY <1>3, ContentUnitStep
<1>4. ASSUME NEW f \in Files, Edit(f) PROVE ContentInv'
  <2>1. PICK v : disk' = [disk EXCEPT ![f] = v]
    BY <1>4, Zenon DEF Edit
  <2>2. edits' = edits \cup {f} /\ UNCHANGED <<units, objects>>
    BY <1>4 DEF Edit, storeVars
  <2>3. DiskInv'
    <3>1. disk = [g \in Files |-> disk[g]] /\ \A g \in Files : g \notin edits => disk[g] = Contents[g]
      BY DEF ContentInv, DiskInv
    <3>2. disk' = [g \in Files |-> disk'[g]] /\ \A g \in Files : g # f => disk'[g] = disk[g]
      BY <2>1, <3>1
    <3> QED
      BY <2>2, <3>1, <3>2 DEF DiskInv
  <2> QED
    BY <2>2, <2>3, ContentRests
<1>5. ASSUME Apply \/ Terminated \/ UNCHANGED vars PROVE UNCHANGED <<units, objects, disk, edits>>
  BY <1>5, Zenon DEF Apply, Terminated, vars, storeVars
<1> QED
  BY <1>1, <1>2, <1>3, <1>4, <1>5, SMTT(30) DEF Next

\* The data cache starts content-addressed.
LEMMA ContentStart == Init => ContentInv
<1> SUFFICES ASSUME Init PROVE ContentInv
  OBVIOUS
<1>1. disk = Contents /\ edits = {}
  BY DEF Init
<1>2. DiskInv
  <2>1. Contents = [f \in Files |-> Contents[f]]
    BY UploadAssumption DEF Files
  <2> QED
    BY <1>1, <2>1 DEF DiskInv
<1>3. ContentAddressed
  BY DEF Init, ContentAddressed
<1>4. UnitIds = {}
  BY DEF Init, UnitIds
<1> QED
  BY <1>2, <1>3, <1>4 DEF ContentInv

-----------------------------------------------------------------------------
(* The bytes that are counted. *)

\* What the counters owe a task.
Counted(f) == IF pc[f] = "finished" /\ result[f].kind # "err" THEN Size(f) ELSE 0

\* The units of a file hash its content.
HashesAre(f) ==
    /\ DOMAIN units[f] = DOMAIN Chunks(f, Contents[f])
    /\ \A i \in DOMAIN units[f] : units[f][i].hash = hash_data(Chunks(f, Contents[f])[i])

\* As long as nobody writes over a file, the counters cover the tasks that returned
\* a result.
CountInv ==
    edits = {} =>
      /\ stats = [hashed |-> stats.hashed, uploaded |-> stats.uploaded, skipped |-> stats.skipped]
      /\ stats.hashed \in Nat /\ stats.skipped \in Nat
      /\ \A f \in Files : pc[f] = "upload" => HashesAre(f)
      /\ stats.hashed + stats.skipped >= SumFunction([f \in Files |-> Counted(f)])

\* Steps after which no more is owed.
LEMMA CountRests ==
    ASSUME CountInv, UNCHANGED stats, edits \subseteq edits',
           \A f \in Files : Counted(f)' = Counted(f),
           edits = {} => \A f \in Files : pc'[f] = "upload" => HashesAre(f)'
    PROVE  CountInv'
<1> SUFFICES ASSUME edits' = {}
             PROVE  CountInv'
  BY DEF CountInv
<1>1. edits = {}
  OBVIOUS
<1>2. [f \in Files |-> Counted(f)]' = [f \in Files |-> Counted(f)]
  <2>1. Files' = Files
    BY DEF Files
  <2> HIDE DEF Counted
  <2> QED
    BY <2>1
<1>3. SumFunction([f \in Files |-> Counted(f)])' = SumFunction([f \in Files |-> Counted(f)])
  <2>1. PICK g : g = [f \in Files |-> Counted(f)] /\ g = [f \in Files |-> Counted(f)]'
    BY <1>2, Zenon
  <2> QED
    BY <2>1, Zenon
<1> QED
  BY <1>1, <1>3, Zenon DEF CountInv

\* The bytes of a result are the bytes of its file.
LEMMA BytesOf ==
    ASSUME NEW f \in Files, UseChunks(f), HashesAre(f)
    PROVE  SumFunction([i \in DOMAIN units[f] |-> Len(units[f][i].hash.xxh128)]) = Size(f)
<1> DEFINE b == Contents[f]
           g == [i \in DOMAIN units[f] |-> Len(units[f][i].hash.xxh128)]
<1>1. b \in Seq(STRING) /\ ChunkSize \in Nat \ {0} /\ Len(b) \in Nat /\ Len(b) > 0
  BY FilesAre, UploadAssumption DEF UseChunks, Size
<1>2. b # <<>>
  BY <1>1
<1>3. Chunks(f, b) = Pieces(b, ChunkSize)
  BY <1>2 DEF Chunks
<1>4. DOMAIN units[f] = DOMAIN Pieces(b, ChunkSize)
  BY <1>3 DEF HashesAre
<1>5. \A i \in DOMAIN units[f] : units[f][i].hash.xxh128 = Pieces(b, ChunkSize)[i]
  <2>1. \A x : hash_data(x).xxh128 = x
    BY DEF hash_data
  <2> QED
    BY <1>3, <2>1, Zenon DEF HashesAre
<1>6. g = [i \in DOMAIN Pieces(b, ChunkSize) |-> Len(Pieces(b, ChunkSize)[i])]
  BY <1>4, <1>5
<1> HIDE DEF g
<1>7. SumFunction(g) = Len(b)
  BY <1>1, <1>6, PiecesSum
<1> QED
  BY <1>7 DEF g, Size

\* A task that reports its bytes and returns.
LEMMA CountReturns ==
    ASSUME UploadInv, CountInv, NEW f \in Files, pc[f] # "finished", NEW fr, UpdateProgress(f, fr),
           edits = {} => fr.bytes = Size(f), UNCHANGED <<units, edits>>
    PROVE  CountInv'
<1> SUFFICES ASSUME edits = {} PROVE CountInv'
  BY DEF CountInv
<1>1. /\ stats = [hashed |-> stats.hashed, uploaded |-> stats.uploaded, skipped |-> stats.skipped]
      /\ stats.hashed \in Nat /\ stats.skipped \in Nat
      /\ \A g \in Files : pc[g] = "upload" => HashesAre(g)
      /\ stats.hashed + stats.skipped >= SumFunction([g \in Files |-> Counted(g)])
  BY DEF CountInv
<1>2. Size(f) \in Nat /\ fr.bytes = Size(f)
  BY FilesAre
<1>3. PICK a, d, e :
         /\ a \in Nat /\ d \in Nat
         /\ stats' = [hashed |-> stats.hashed + a, uploaded |-> e, skipped |-> stats.skipped + d]
         /\ a + d >= Size(f)
  <2> DEFINE a == IF fr.kind = "skipped" THEN 0 ELSE fr.bytes
             x == IF fr.kind = "whole" /\ fr.uploaded THEN fr.bytes ELSE 0
             d == IF fr.kind = "skipped" \/ (fr.kind = "whole" /\ ~fr.uploaded) THEN fr.bytes ELSE 0
  <2>1. a \in Nat /\ d \in Nat /\ a + d >= Size(f)
    BY <1>2
  <2>2. stats' = [stats EXCEPT !.hashed = @ + a, !.uploaded = @ + x, !.skipped = @ + d]
    BY Zenon DEF UpdateProgress
  <2> HIDE DEF a, x, d
  <2>3. stats' = [hashed |-> stats.hashed + a, uploaded |-> stats.uploaded + x,
                  skipped |-> stats.skipped + d]
    BY <1>1, <2>2, Zenon
  <2> QED
    BY <2>1, <2>3, Zenon
<1>4. PICK r : Return(f, r)
  BY Zenon DEF UpdateProgress
<1>5. /\ pc'[f] = "finished" /\ \A g \in Files : g # f => pc'[g] = pc[g] /\ result'[g] = result[g]
  BY <1>4 DEF Return, UploadInv, TaskInv
<1> DEFINE C == [g \in Files |-> Counted(g)]
           D == [g \in Files |-> Counted(g)']
<1>6. \A g \in Files : Counted(g) \in Nat /\ Counted(g)' \in Nat
  BY FilesAre DEF Counted, Size
<1>7. Counted(f) = 0 /\ Counted(f)' <= Size(f)
  BY <1>2 DEF Counted, Size
<1>8. \A g \in Files : g # f => Counted(g)' = Counted(g)
  BY <1>5 DEF Counted, Size
<1>9. SumFunction(D) = SumFunction(C) - C[f] + D[f]
  <2>1. C \in [Files -> Int] /\ D \in [Files -> Int] /\ \A g \in Files : g # f => C[g] = D[g]
    BY <1>6, <1>8
  <2> HIDE DEF C, D
  <2> QED
    BY <2>1, FilesSum, Zenon
<1>10. SumFunction(C) \in Int
  <2>1. C \in [Files -> Int]
    BY <1>6
  <2> HIDE DEF C
  <2> QED
    BY <2>1, FilesAre, SumInt, Zenon
<1>11. C[f] = 0 /\ D[f] \in Nat /\ D[f] <= Size(f)
  BY <1>6, <1>7
<1>12. stats.hashed + stats.skipped >= SumFunction(C)
  BY <1>1
<1>13. stats'.hashed = stats.hashed + a /\ stats'.skipped = stats.skipped + d
  BY <1>3
<1>14. stats'.hashed + stats'.skipped >= SumFunction(D)
  <2> HIDE DEF C, D
  <2> QED
    BY <1>1, <1>2, <1>3, <1>9, <1>10, <1>11, <1>12, <1>13, SMTT(30)
<1>15. SumFunction([g \in Files |-> Counted(g)])' = SumFunction(D)
  BY DEF Files
<1>16. \A g \in Files : pc'[g] = "upload" => HashesAre(g)'
  <2>1. \A g \in Files : pc'[g] = "upload" => pc[g] = "upload"
    BY <1>5
  <2> QED
    BY <1>1, <2>1, Zenon DEF HashesAre, Chunks, UseChunks, Size, Pieces, hash_data
<1>17. /\ stats' = [hashed |-> stats'.hashed, uploaded |-> stats'.uploaded, skipped |-> stats'.skipped]
       /\ stats'.hashed \in Nat /\ stats'.skipped \in Nat
  BY <1>1, <1>3
<1> HIDE DEF D
<1> QED
  BY <1>14, <1>15, <1>16, <1>17, Zenon DEF CountInv

\* Every step keeps the count.
LEMMA CountStep == UploadInv /\ ContentInv /\ CountInv /\ [Next]_vars => CountInv'
<1> SUFFICES ASSUME UploadInv, ContentInv, CountInv, [Next]_vars PROVE CountInv'
  OBVIOUS
<1>0. /\ pc \in [Files -> {"spawned", "caches", "memory", "read", "upload", "finished"}]
      /\ DOMAIN result = Files /\ DOMAIN units = Files
  BY DEF UploadInv, TaskInv, UnitInv, UnitTypes
<1>1. edits = {} => \A f \in Files : pc[f] = "upload" => HashesAre(f)
  BY DEF CountInv
<1>2. ASSUME NEW f \in Files, UNCHANGED units[f], HashesAre(f) PROVE HashesAre(f)'
  BY <1>2, Zenon DEF HashesAre, Chunks, UseChunks, Size, Pieces, hash_data
<1>3. ASSUME NEW f \in Files, pc[f] # "finished", NEW q, q # "upload", pc' = [pc EXCEPT ![f] = q],
             \A g \in Files : g # f => result'[g] = result[g],
             q = "finished" => result'[f].kind = "err", UNCHANGED <<stats, edits, units>>
      PROVE  CountInv'
  <2>1. pc'[f] = q /\ \A g \in Files : g # f => pc'[g] = pc[g]
    BY <1>0, <1>3
  <2>2. \A g \in Files : Counted(g)' = Counted(g)
    BY <1>3, <2>1 DEF Counted, Size
  <2>3. edits = {} => \A g \in Files : pc'[g] = "upload" => HashesAre(g)'
    BY <1>1, <1>2, <1>3, <2>1
  <2> QED
    BY <1>3, <2>2, <2>3, CountRests, SMTT(30)
<1>4. ASSUME NEW f \in Files, pc[f] # "finished", NEW why, Fail(f, why), UNCHANGED <<edits, units>>
      PROVE  CountInv'
  <2>1. PICK r : Return(f, r) /\ r.kind = "err"
    BY <1>4 DEF Fail, Err
  <2>2. pc' = [pc EXCEPT ![f] = "finished"] /\ result' = [result EXCEPT ![f] = r]
    BY <2>1 DEF Return
  <2>3. result'[f].kind = "err" /\ \A g \in Files : g # f => result'[g] = result[g]
    BY <1>0, <2>1, <2>2
  <2>4. UNCHANGED stats
    BY <1>4 DEF Fail
  <2> QED
    BY <1>3, <1>4, <2>2, <2>3, <2>4, Zenon
<1>5. ASSUME NEW f \in Files, FileStep(f) PROVE CountInv'
  <2>1. CASE Start(f)
    <3>1. pc[f] = "spawned" /\ UNCHANGED <<edits, units>>
      BY <2>1 DEF Start
    <3>2. CASE Fail(f, "cancelled")
      BY <1>4, <3>1, <3>2
    <3>3. CASE pc' = [pc EXCEPT ![f] = "caches"] /\ UNCHANGED <<result, stats>>
      BY <1>3, <3>1, <3>3, Zenon
    <3> QED
      BY <2>1, <3>2, <3>3 DEF Start
  <2>2. CASE Skip(f)
    <3>1. PICK fr : UpdateProgress(f, fr) /\ fr.bytes = Size(f)
      BY <2>2 DEF Skip
    <3>2. pc[f] # "finished" /\ UNCHANGED <<edits, units>>
      BY <2>2 DEF Skip
    <3> QED
      BY <3>1, <3>2, CountReturns, SMTT(30)
  <2>3. CASE AskMemory(f) \/ GetMemory(f)
    <3>1. PICK q \in {"memory", "read"} : pc' = [pc EXCEPT ![f] = q]
      BY <2>3 DEF AskMemory, GetMemory
    <3>2. pc[f] # "finished" /\ UNCHANGED <<edits, units, result, stats>>
      BY <2>3 DEF AskMemory, GetMemory
    <3>3. q # "upload" /\ q # "finished"
      OBVIOUS
    <3> QED
      BY <1>3, <3>1, <3>2, <3>3, ZenonT(30)
  <2>4. CASE Read(f)
    <3>1. pc[f] = "read" /\ UNCHANGED <<edits, disk>>
      BY <2>4 DEF Read
    <3>2. CASE Fail(f, "io") /\ UNCHANGED units
      BY <1>4, <3>1, <3>2, SMTT(30)
    <3>3. CASE /\ units' = [units EXCEPT ![f] =
                     [i \in DOMAIN Chunks(f, disk[f]) |-> NewUnit(f, Chunks(f, disk[f])[i])]]
               /\ pc' = [pc EXCEPT ![f] = "upload"] /\ UNCHANGED <<result, stats>>
      <4>1. pc'[f] = "upload" /\ \A g \in Files : g # f => pc'[g] = pc[g]
        BY <1>0, <3>3
      <4>2. \A g \in Files : Counted(g)' = Counted(g)
        BY <3>1, <3>3, <4>1, SMTT(30) DEF Counted, Size
      <4>3. \A g \in Files : g # f => units'[g] = units[g]
        BY <1>0, <3>3, SMTT(30)
      <4>4. ASSUME edits = {} PROVE HashesAre(f)'
        <5> DEFINE c == Chunks(f, Contents[f])
        <5>1. disk[f] = Contents[f]
          BY <4>4 DEF ContentInv, DiskInv
        <5>2. units'[f] = [i \in DOMAIN c |-> NewUnit(f, c[i])]
          BY <1>0, <3>3, <5>1
        <5>3. c' = c
          BY DEF Chunks, UseChunks, Size, Pieces
        <5> HIDE DEF c
        <5>4. DOMAIN units'[f] = DOMAIN c /\ \A i \in DOMAIN c : units'[f][i].hash = hash_data(c[i])
          BY <5>2, SMTT(30) DEF NewUnit
        <5> QED
          BY <5>3, <5>4 DEF HashesAre, hash_data, c
      <4>5. edits = {} => \A g \in Files : pc'[g] = "upload" => HashesAre(g)'
        BY <1>1, <1>2, <4>1, <4>3, <4>4, SMTT(30)
      <4> QED
        BY <3>1, <3>3, <4>2, <4>5, CountRests, SMTT(30)
    <3> QED
      BY <2>4, <3>2, <3>3 DEF Read
  <2>5. CASE JoinFailed(f)
    <3>1. pc[f] # "finished" /\ Fail(f, "io") /\ UNCHANGED <<edits, units>>
      BY <2>5 DEF JoinFailed
    <3> QED
      BY <1>4, <3>1
  <2>6. CASE JoinAll(f)
    <3> DEFINE n == IF UseChunks(f)
                    THEN SumFunction([i \in DOMAIN units[f] |-> Len(units[f][i].hash.xxh128)])
                    ELSE Size(f)
    <3>1. pc[f] = "upload" /\ UNCHANGED <<edits, units>>
      BY <2>6 DEF JoinAll
    <3>2. edits = {} => n = Size(f)
      BY <1>1, <3>1, BytesOf
    <3>3. PICK fr : UpdateProgress(f, fr) /\ fr.bytes = n
      <4>1. PICK kind, hashes, uploaded :
              UpdateProgress(f, [kind |-> kind, hashes |-> hashes, uploaded |-> uploaded, bytes |-> n])
        BY <2>6, Zenon DEF JoinAll
      <4> HIDE DEF n
      <4> QED
        BY <4>1
    <3> HIDE DEF n
    <3> QED
      BY <3>1, <3>2, <3>3, CountReturns, SMTT(30)
  <2> QED
    BY <1>5, <2>1, <2>2, <2>3, <2>4, <2>5, <2>6, SMTT(30) DEF FileStep
<1>6. ASSUME NEW u \in UnitIds, UnitStep(u) PROVE CountInv'
  <2>1. Kept
    BY <1>6, UnitInvStep DEF UploadInv
  <2>2. UNCHANGED <<pc, result, stats, edits>>
    BY <1>6, Zenon DEF UnitStep, CheckExists, Claim, Wake, PutObject, Notify, CreateMultipart, JoinParts,
                CompleteMultipart, AbortMultipart, UploadPart, fileVars, taskVars
  <2>3. \A f \in Files : Counted(f)' = Counted(f)
    BY <2>2, SMTT(30) DEF Counted, Size
  <2>4. ASSUME NEW f \in Files, HashesAre(f) PROVE HashesAre(f)'
    <3>1. /\ DOMAIN units'[f] = DOMAIN units[f]
          /\ \A i \in DOMAIN units[f] : units'[f][i].hash = units[f][i].hash
      BY <2>1, UnitIdsAre, Zenon DEF Kept, Unit
    <3>2. /\ DOMAIN units'[f] = DOMAIN Chunks(f, Contents[f])
          /\ \A i \in DOMAIN units'[f] : units'[f][i].hash = hash_data(Chunks(f, Contents[f])[i])
      BY <2>4, <3>1, Zenon DEF HashesAre
    <3> QED
      BY <3>2, Zenon DEF HashesAre, Chunks, UseChunks, Size, Pieces, hash_data
  <2>5. edits = {} => \A f \in Files : pc'[f] = "upload" => HashesAre(f)'
    BY <1>1, <2>2, <2>4
  <2> QED
    BY <2>2, <2>3, <2>5, CountRests
<1>7. ASSUME (\E f \in Files : Edit(f)) \/ Apply \/ Terminated \/ UNCHANGED vars PROVE CountInv'
  <2>1. UNCHANGED <<pc, result, stats, units>> /\ edits \subseteq edits'
    BY <1>7, Zenon DEF Edit, Apply, Terminated, vars, taskVars
  <2>2. \A f \in Files : Counted(f)' = Counted(f)
    BY <2>1 DEF Counted, Size
  <2>3. edits = {} => \A f \in Files : pc'[f] = "upload" => HashesAre(f)'
    BY <1>1, <1>2, <2>1, SMTT(30)
  <2> QED
    BY <2>1, <2>2, <2>3, CountRests
<1> QED
  BY <1>5, <1>6, <1>7 DEF Next

\* Nothing is owed at the start.
LEMMA CountStart == Init => CountInv
<1> SUFFICES ASSUME Init PROVE CountInv
  OBVIOUS
<1>1. /\ stats = [hashed |-> 0, uploaded |-> 0, skipped |-> 0]
      /\ \A f \in Files : pc[f] = "spawned"
  BY DEF Init
<1>2. [f \in Files |-> Counted(f)] = [f \in Files |-> 0]
  BY <1>1 DEF Counted
<1>3. SumFunction([f \in Files |-> Counted(f)]) = 0
  <2>1. PICK g : g = [f \in Files |-> Counted(f)]
    BY Zenon
  <2>2. SumFunction(g) = 0
    BY <1>2, <2>1, FilesAre, SumZero, SMTT(30)
  <2> QED
    BY <2>1, <2>2, Zenon
<1>4. 0 + 0 >= 0 /\ stats.hashed = 0 /\ stats.skipped = 0 /\ stats.uploaded = 0
  BY <1>1
<1> QED
  BY <1>1, <1>3, <1>4 DEF CountInv

\* When every task has returned a result, every byte of the manifest is owed.
LEMMA CountEnds == UploadInv /\ CountInv => ProgressComplete
<1> SUFFICES ASSUME UploadInv, CountInv, outcome = "ok", edits = {}
             PROVE  stats.hashed + stats.skipped >= TotalBytes
  BY DEF ProgressComplete
<1>1. \A f \in Files : pc[f] = "finished" /\ result[f].kind # "err"
  BY DEF UploadInv, OutcomeInv
<1>2. [f \in Files |-> Counted(f)] = [f \in Files |-> Size(f)]
  BY <1>1 DEF Counted
<1>3. SumFunction([f \in Files |-> Counted(f)]) = TotalBytes
  BY <1>2, Zenon DEF TotalBytes
<1> QED
  BY <1>3, Zenon DEF CountInv

-----------------------------------------------------------------------------
\* What is held, stored and counted, in every state of HASH_UPLOAD.
BytesInv == UploadInv /\ PoolInv /\ ContentInv /\ CountInv

\* The invariant holds in every state of HASH_UPLOAD.
THEOREM BytesInvHolds == Spec => []BytesInv
<1>1. Init => BytesInv
  BY UploadInit, PoolStart, ContentStart, CountStart DEF BytesInv
<1>2. BytesInv /\ [Next]_vars => BytesInv'
  BY UploadStep, PoolStep, ContentStep, CountStep DEF BytesInv
<1> QED
  BY <1>1, <1>2, PTL DEF Spec

\* For every manifest, every size of chunk, part and pool, whatever fails and
\* whoever writes meanwhile: an object's bytes hash to its key unless a file was
\* overwritten while it was uploaded in parts; the tasks never hold more memory
\* than the pool has, and an Ok return leaves it whole; and an Ok return has counted
\* every byte of a manifest nobody wrote over.
THEOREM BytesAreAlwaysAccounted == Spec => []BytesAreAccounted
<1>1. BytesInv => BytesAreAccounted
  BY PoolEnds, CountEnds DEF BytesInv, BytesAreAccounted, ContentInv
<1> QED
  BY <1>1, BytesInvHolds, PTL
=============================================================================
