--------------------------- MODULE CacheSyncProofs ---------------------------
(***************************************************************************)
(* Proofs about CacheSync, for every manifest, object, size of part and    *)
(* state of the check cache, whatever fails and wherever a kill falls.     *)
(***************************************************************************)
EXTENDS CacheSync, FiniteSetTheorems, SequenceTheorems, WellFoundedInduction, TLAPS

-----------------------------------------------------------------------------
(* The pieces of an object. *)

\* A nonempty set of natural numbers has a least element.
LEMMA LeastOf ==
    ASSUME NEW T, T \subseteq Nat, T # {}
    PROVE  \E x \in T : \A y \in T : x <= y
<1>1. PICK x \in T : \A y \in T : ~ (<<y, x>> \in OpToRel(<, Nat))
  BY WFMin, NatLessThanWellFounded, Zenon
<1>2. \A y \in T : ~ (y < x)
  BY <1>1, Zenon DEF OpToRel
<1> QED
  BY <1>2

\* Where the kth piece of n bytes ends, in a file of length l.
EndOf(k, n, l) == IF k * n < l THEN k * n ELSE l

\* A larger count of pieces is a longer stretch.
LEMMA TimesGrows == \A a, b, n \in Nat : a <= b => a * n <= b * n
OBVIOUS

\* Every piece starts where the one before it ended, and the last one ends the file.
LEMMA PieceEnds ==
    ASSUME NEW n \in Nat \ {0}, NEW l \in Nat, NEW c, c = (l + n - 1) \div n
    PROVE  /\ c \in Nat /\ EndOf(0, n, l) = 0 /\ EndOf(c, n, l) = l
           /\ \A k \in 0..c : EndOf(k, n, l) \in 0..l
           /\ \A k \in 1..c : /\ EndOf(k - 1, n, l) = (k - 1) * n
                              /\ EndOf(k - 1, n, l) < EndOf(k, n, l)
<1>1. c \in Int /\ c * n <= l + n - 1 /\ l + n - 1 < c * n + n
  OBVIOUS
<1>2. c \in Nat
  OBVIOUS
<1>3. l <= c * n
  BY <1>1, <1>2
<1>4. ASSUME NEW k \in 1..c
      PROVE  k - 1 \in Nat /\ (k - 1) * n \in Nat /\ (k - 1) * n < l /\ k * n = (k - 1) * n + n
  <2>1. k \in Nat /\ k - 1 \in Nat /\ k <= c
    BY <1>2
  <2>2. k * n <= c * n
    BY <1>2, <2>1, TimesGrows
  <2>3. k * n = (k - 1) * n + n
    BY <2>1
  <2>4. (k - 1) * n \in Nat /\ c * n \in Nat
    BY <1>2, <2>1
  <2> QED
    BY <1>1, <2>1, <2>2, <2>3, <2>4
<1>5. EndOf(0, n, l) = 0
  BY DEF EndOf
<1>6. EndOf(c, n, l) = l
  BY <1>2, <1>3 DEF EndOf
<1>7. ASSUME NEW k \in 0..c PROVE EndOf(k, n, l) \in 0..l
  <2>1. k * n \in Nat
    BY <1>2
  <2> QED
    BY <2>1 DEF EndOf
<1>8. ASSUME NEW k \in 1..c
      PROVE  EndOf(k - 1, n, l) = (k - 1) * n /\ EndOf(k - 1, n, l) < EndOf(k, n, l)
  BY <1>4 DEF EndOf
<1> QED
  BY <1>2, <1>5, <1>6, <1>7, <1>8

\* The start of a sequence, and the stretch after it.
LEMMA Stretches ==
    ASSUME NEW b \in Seq(STRING), NEW i \in Nat, NEW j \in Nat, i <= j, j <= Len(b)
    PROVE  /\ SubSeq(b, 1, i) \o SubSeq(b, i + 1, j) = SubSeq(b, 1, j)
           /\ Len(SubSeq(b, i + 1, j)) = j - i
<1>1. Len(b) \in Nat /\ \A k \in 1..Len(b) : b[k] \in STRING
  BY LenProperties, ElementOfSeq
<1> DEFINE s == SubSeq(b, 1, i)
           t == SubSeq(b, i + 1, j)
           r == SubSeq(b, 1, j)
<1>2. s \in Seq(STRING) /\ Len(s) = i /\ \A k \in 1..i : s[k] = b[k]
  <2>1. \A k \in 1..i : b[k] \in STRING
    BY <1>1
  <2>2. /\ s \in Seq(STRING) /\ Len(s) = (IF 1 <= i THEN i - 1 + 1 ELSE 0)
        /\ \A k \in 1..(i - 1 + 1) : s[k] = b[1 + k - 1]
    BY <2>1, SubSeqProperties
  <2> HIDE DEF s
  <2> QED
    BY <2>2
<1>3. t \in Seq(STRING) /\ Len(t) = j - i /\ \A k \in 1..(j - i) : t[k] = b[i + k]
  <2>1. i + 1 \in Int /\ j \in Int /\ \A k \in (i + 1)..j : b[k] \in STRING
    BY <1>1
  <2>2. /\ t \in Seq(STRING) /\ Len(t) = (IF i + 1 <= j THEN j - (i + 1) + 1 ELSE 0)
        /\ \A k \in 1..(j - (i + 1) + 1) : t[k] = b[i + 1 + k - 1]
    BY <2>1, SubSeqProperties
  <2> HIDE DEF t
  <2> QED
    BY <2>2
<1>4. r \in Seq(STRING) /\ Len(r) = j /\ \A k \in 1..j : r[k] = b[k]
  <2>1. \A k \in 1..j : b[k] \in STRING
    BY <1>1
  <2>2. /\ r \in Seq(STRING) /\ Len(r) = (IF 1 <= j THEN j - 1 + 1 ELSE 0)
        /\ \A k \in 1..(j - 1 + 1) : r[k] = b[1 + k - 1]
    BY <2>1, SubSeqProperties
  <2> HIDE DEF r
  <2> QED
    BY <2>2
<1> HIDE DEF s, t, r
<1>5. /\ s \o t \in Seq(STRING) /\ Len(s \o t) = Len(s) + Len(t)
      /\ \A k \in 1..(Len(s) + Len(t)) : (s \o t)[k] = IF k <= Len(s) THEN s[k] ELSE t[k - Len(s)]
  <2>1. s \in Seq(STRING) /\ t \in Seq(STRING)
    BY <1>2, <1>3
  <2> QED
    BY <2>1, ConcatProperties
<1>6. Len(s \o t) = j
  BY <1>2, <1>3, <1>5
<1>7. ASSUME NEW k \in 1..j PROVE (s \o t)[k] = r[k]
  <2>1. k \in 1..(Len(s) + Len(t))
    BY <1>2, <1>3
  <2>2. CASE k <= i
    BY <1>2, <1>4, <1>5, <2>1, <2>2
  <2>3. CASE k > i
    <3>1. k - i \in 1..(j - i) /\ i + (k - i) = k
      BY <2>3
    <3>2. t[k - i] = b[k]
      BY <1>3, <3>1
    <3> QED
      BY <1>2, <1>4, <1>5, <2>1, <2>3, <3>2
  <2>4. k <= i \/ k > i
    OBVIOUS
  <2> QED
    BY <2>2, <2>3, <2>4, Zenon
<1>8. s \o t = r
  BY <1>4, <1>5, <1>6, <1>7, SeqEqual
<1> QED
  BY <1>3, <1>8 DEF s, t, r

\* The recursion that assembles an object.
Assembles(parts, U) ==
    U = [k \in 0..Len(parts) |-> IF k = 0 THEN <<>> ELSE U[k - 1] \o parts[k]]

\* Assembled is the last value of its recursion.
LEMMA AssembledIs ==
    ASSUME NEW parts
    PROVE  Assembled(parts) = (CHOOSE U : Assembles(parts, U))[Len(parts)]
BY DEF Assembled, Assembles

\* The pieces of an object, joined in order, are the object.
LEMMA PiecesJoin ==
    ASSUME NEW b \in Seq(STRING), NEW n \in Nat \ {0}, NEW parts,
           Len(parts) = (Len(b) + n - 1) \div n,
           \A k \in 1..Len(parts) :
               parts[k] = SubSeq(b, (k - 1) * n + 1, EndOf(k, n, Len(b)))
    PROVE  Assembled(parts) = b
<1> DEFINE c == Len(parts)
           l == Len(b)
           Cut(p) == SubSeq(b, 1, EndOf(p, n, l))
           Step(U, p) == IF p = 0 THEN <<>> ELSE U[p - 1] \o parts[p]
           g == [p \in 0..c |-> Cut(p)]
           upTo == CHOOSE U : Assembles(parts, U)
<1>1. l \in Nat
  BY LenProperties
<1>2. /\ c \in Nat /\ EndOf(0, n, l) = 0 /\ EndOf(c, n, l) = l
      /\ \A k \in 0..c : EndOf(k, n, l) \in 0..l
      /\ \A k \in 1..c : EndOf(k - 1, n, l) = (k - 1) * n /\ EndOf(k - 1, n, l) < EndOf(k, n, l)
  BY <1>1, PieceEnds, Zenon
<1>3. Cut(0) = <<>>
  <2>1. Cut(0) = SubSeq(b, 1, 0)
    BY <1>2, Zenon
  <2>2. 1 \in Int /\ 0 \in Int /\ 0 < 1
    OBVIOUS
  <2> QED
    BY <2>1, <2>2, SubSeqEmpty, Zenon
<1>4. ASSUME NEW k \in 1..c PROVE Cut(k) = Cut(k - 1) \o parts[k]
  <2>1. parts[k] = SubSeq(b, (k - 1) * n + 1, EndOf(k, n, l))
    OBVIOUS
  <2>2. PICK i \in Nat, j \in Nat :
           i = EndOf(k - 1, n, l) /\ j = EndOf(k, n, l) /\ i = (k - 1) * n /\ i <= j /\ j <= l
    <3>1. k \in 0..c /\ k - 1 \in 0..c
      BY <1>2
    <3>2. EndOf(k, n, l) \in 0..l /\ EndOf(k - 1, n, l) \in 0..l
      BY <1>2, <3>1
    <3>3. EndOf(k - 1, n, l) = (k - 1) * n /\ EndOf(k - 1, n, l) < EndOf(k, n, l)
      BY <1>2
    <3> QED
      BY <1>1, <3>2, <3>3
  <2>3. SubSeq(b, 1, i) \o SubSeq(b, i + 1, j) = SubSeq(b, 1, j)
    BY <2>2, Stretches, Zenon
  <2> QED
    BY <2>1, <2>2, <2>3, Zenon
<1> HIDE DEF Cut
<1>5. ASSUME NEW p \in 0..c PROVE g[p] = Step(g, p)
  <2>1. CASE p = 0
    BY <1>2, <1>3, <2>1
  <2>2. CASE p # 0
    <3>1. p \in 1..c /\ p - 1 \in 0..c
      BY <1>2, <2>2
    <3>2. g[p] = Cut(p) /\ g[p - 1] = Cut(p - 1)
      BY <3>1
    <3>3. Cut(p) = Cut(p - 1) \o parts[p]
      BY <1>4, <3>1, Zenon
    <3> HIDE DEF g
    <3> QED
      BY <2>2, <3>2, <3>3, Zenon
  <2> QED
    BY <2>1, <2>2
<1>6. Assembles(parts, g)
  <2>1. g = [p \in 0..c |-> g[p]]
    OBVIOUS
  <2> HIDE DEF g, Step
  <2>2. g = [p \in 0..c |-> Step(g, p)]
    BY <1>5, <2>1
  <2> QED
    BY <2>2, Zenon DEF Assembles, Step
<1>7. Assembles(parts, upTo)
  <2> HIDE DEF g
  <2> QED
    BY <1>6, Zenon
<1>8. \A p \in 0..c : upTo[p] = Step(upTo, p)
  <2> HIDE DEF upTo
  <2> QED
    BY <1>7, Zenon DEF Assembles
<1>9. \A p \in 0..c : upTo[p] = g[p]
  <2> DEFINE T == {p \in 0..c : upTo[p] # g[p]}
  <2> HIDE DEF upTo, g
  <2> SUFFICES ASSUME T # {} PROVE FALSE
    BY Zenon
  <2>1. PICK p \in T : \A q \in T : p <= q
    <3>1. T \subseteq Nat
      BY <1>2
    <3> HIDE DEF T
    <3> QED
      BY <3>1, LeastOf, Zenon
  <2>2. p \in 0..c /\ upTo[p] # g[p]
    BY Zenon
  <2>3. p # 0
    BY <1>5, <1>8, <2>2, Zenon
  <2>4. p - 1 \in 0..c /\ ~ (p <= p - 1)
    BY <1>2, <2>2, <2>3
  <2>5. upTo[p - 1] = g[p - 1]
    BY <2>1, <2>4, Zenon
  <2>6. upTo[p] = upTo[p - 1] \o parts[p] /\ g[p] = g[p - 1] \o parts[p]
    BY <1>5, <1>8, <2>2, <2>3, Zenon
  <2> QED
    BY <2>2, <2>5, <2>6, Zenon
<1>10. Assembled(parts) = Cut(c)
  <2>1. c \in 0..c
    BY <1>2
  <2>2. g[c] = Cut(c)
    BY <2>1
  <2>3. Assembled(parts) = upTo[c]
    BY AssembledIs, Zenon
  <2> HIDE DEF g, upTo
  <2> QED
    BY <1>9, <2>1, <2>2, <2>3, Zenon
<1>11. Cut(c) = b
  <2>1. Cut(c) = SubSeq(b, 1, l)
    BY <1>2, Zenon DEF Cut
  <2>2. \A k \in 1..l : b[k] \in STRING
    BY ElementOfSeq
  <2>3. /\ SubSeq(b, 1, l) \in Seq(STRING)
        /\ Len(SubSeq(b, 1, l)) = (IF 1 <= l THEN l - 1 + 1 ELSE 0)
        /\ \A k \in 1..(l - 1 + 1) : SubSeq(b, 1, l)[k] = b[1 + k - 1]
    BY <1>1, <2>2, SubSeqProperties
  <2>4. Len(SubSeq(b, 1, l)) = l /\ \A k \in 1..l : SubSeq(b, 1, l)[k] = b[k]
    BY <1>1, <2>3
  <2> QED
    BY <2>1, <2>3, <2>4, SeqEqual
<1> QED
  BY <1>10, <1>11

-----------------------------------------------------------------------------
(* The parts that S3 is sent. *)

\* The lesser and the greater of two numbers.
LEMMA LesserGreater ==
    ASSUME NEW a \in Int, NEW b \in Int
    PROVE  /\ Min({a, b}) = IF a <= b THEN a ELSE b
           /\ Max({a, b}) = IF a >= b THEN a ELSE b
<1>1. PICK x : x = Min({a, b}) /\ x \in {a, b} /\ \A y \in {a, b} : x <= y
  <2>1. \E x \in {a, b} : \A y \in {a, b} : x <= y
    OBVIOUS
  <2> QED
    BY <2>1, Zenon DEF Min
<1>2. PICK z : z = Max({a, b}) /\ z \in {a, b} /\ \A y \in {a, b} : z >= y
  <2>1. \E z \in {a, b} : \A y \in {a, b} : z >= y
    OBVIOUS
  <2> QED
    BY <2>1, Zenon DEF Max
<1>3. Min({a, b}) = IF a <= b THEN a ELSE b
  BY <1>1
<1>4. Max({a, b}) = IF a >= b THEN a ELSE b
  BY <1>2
<1> QED
  BY <1>3, <1>4

\* What Slices returns.
LEMMA SlicesAre ==
    ASSUME NEW l \in Nat, NEW n \in Nat \ {0}
    PROVE  /\ CeilDiv(l, n) \in Nat /\ DOMAIN Slices(l, n) = 1..CeilDiv(l, n)
           /\ Len(Slices(l, n)) = CeilDiv(l, n)
           /\ \A k \in 1..CeilDiv(l, n) :
                /\ Slices(l, n)[k][1] = (k - 1) * n
                /\ Slices(l, n)[k][2] = EndOf(k, n, l)
<1> DEFINE c == CeilDiv(l, n)
<1>1. c \in Nat
  BY PieceEnds DEF CeilDiv
<1>2. Slices(l, n) = [i \in 1..c |-> <<(i - 1) * n, Min({i * n, l})>>]
  BY DEF Slices, CeilDiv
<1> HIDE DEF c
<1>3. ASSUME NEW k \in 1..c PROVE Min({k * n, l}) = EndOf(k, n, l)
  <2>1. k * n \in Int
    BY <1>1
  <2> QED
    BY <2>1, LesserGreater DEF EndOf
<1>4. DOMAIN Slices(l, n) = 1..c /\ Len(Slices(l, n)) = c
  BY <1>1, <1>2
<1> QED
  BY <1>1, <1>2, <1>3, <1>4 DEF c

\* So many pieces cover so many bytes, and no fewer do.
LEMMA CeilDivIs ==
    ASSUME NEW l \in Nat, NEW n \in Nat \ {0}
    PROVE  /\ CeilDiv(l, n) \in Nat
           /\ l <= CeilDiv(l, n) * n
           /\ \A m \in Nat : l <= m * n => CeilDiv(l, n) <= m
<1> DEFINE c == CeilDiv(l, n)
<1>1. /\ c \in Nat /\ EndOf(c, n, l) = l
      /\ \A k \in 1..c : EndOf(k - 1, n, l) = (k - 1) * n /\ EndOf(k - 1, n, l) < EndOf(k, n, l)
      /\ \A k \in 0..c : EndOf(k, n, l) \in 0..l
  BY PieceEnds, Zenon DEF CeilDiv
<1> HIDE DEF c
<1>2. c * n \in Nat /\ l <= c * n
  BY <1>1 DEF EndOf
<1>3. ASSUME NEW m \in Nat, l <= m * n PROVE c <= m
  <2> SUFFICES ASSUME ~(c <= m) PROVE FALSE
    OBVIOUS
  <2>1. c \in 1..c /\ c \in 0..c /\ c - 1 \in Nat /\ m <= c - 1
    BY <1>1
  <2>2. (c - 1) * n < l
    BY <1>1, <2>1
  <2>3. m * n <= (c - 1) * n
    BY <2>1, TimesGrows
  <2>4. m * n \in Nat /\ (c - 1) * n \in Nat
    BY <2>1
  <2> QED
    BY <1>3, <2>2, <2>3, <2>4
<1> QED
  BY <1>1, <1>2, <1>3 DEF c

\* S3 takes pieces of n bytes: none but the last is shorter.
LEMMA PiecesAccepted ==
    ASSUME NEW l \in Nat, NEW n \in Nat \ {0}, S3_MIN_PART_SIZE <= n,
           l <= S3_MAX_MULTIPART_PARTS * n
    PROVE  S3Accepts(Slices(l, n))
<1> DEFINE c == CeilDiv(l, n)
<1>1. S3_MAX_MULTIPART_PARTS \in Nat /\ S3_MIN_PART_SIZE \in Nat
  BY SyncAssumption
<1>2. c \in Nat /\ c <= S3_MAX_MULTIPART_PARTS
  BY <1>1, CeilDivIs
<1>3. /\ Len(Slices(l, n)) = c
      /\ \A k \in 1..c : Slices(l, n)[k][1] = (k - 1) * n /\ Slices(l, n)[k][2] = EndOf(k, n, l)
  BY SlicesAre, Zenon
<1>4. /\ c \in Nat
      /\ \A k \in 1..c : EndOf(k - 1, n, l) = (k - 1) * n /\ EndOf(k - 1, n, l) < EndOf(k, n, l)
  BY PieceEnds, Zenon DEF CeilDiv
<1> HIDE DEF c
<1>5. ASSUME NEW k \in 1..(c - 1)
      PROVE  Slices(l, n)[k][2] - Slices(l, n)[k][1] >= S3_MIN_PART_SIZE
  <2>1. k \in 1..c /\ k + 1 \in 1..c /\ k \in Nat /\ (k + 1) - 1 = k
    BY <1>2
  <2>2. EndOf(k, n, l) = k * n
    BY <1>4, <2>1
  <2>3. k * n - (k - 1) * n = n
    BY <2>1
  <2> QED
    BY <1>1, <1>3, <2>1, <2>2, <2>3, Zenon
<1> QED
  BY <1>2, <1>3, <1>5 DEF S3Accepts

\* The part size of a server-side copy is one that S3 accepts for the object.
LEMMA EffectivePartSize ==
    ASSUME NEW cfg, cfg.part_size \in Nat, NEW l \in Nat,
           l <= S3_MAX_MULTIPART_PARTS * S3_MAX_PART_SIZE
    PROVE  /\ effective_part_size(cfg, l) \in Nat \ {0}
           /\ S3Accepts(Slices(l, effective_part_size(cfg, l)))
<1> DEFINE d == CeilDiv(l, S3_MAX_MULTIPART_PARTS)
           w == Max({cfg.part_size, d})
           n == effective_part_size(cfg, l)
<1>1. /\ S3_MAX_MULTIPART_PARTS \in Nat \ {0} /\ S3_MIN_PART_SIZE \in Nat \ {0}
      /\ S3_MAX_PART_SIZE \in Nat /\ S3_MIN_PART_SIZE <= S3_MAX_PART_SIZE
  BY SyncAssumption
<1>2. d \in Nat /\ l <= d * S3_MAX_MULTIPART_PARTS
  BY <1>1, CeilDivIs
<1> HIDE DEF d
<1>3. w \in Nat /\ d <= w
  <2>1. PICK s \in Nat : s = cfg.part_size
    OBVIOUS
  <2>2. Max({s, d}) = IF s >= d THEN s ELSE d
    <3>1. s \in Int /\ d \in Int
      BY <1>2
    <3> QED
      BY <3>1, LesserGreater, Zenon
  <2> QED
    BY <1>2, <2>1, <2>2
<1>4. n = Max({S3_MIN_PART_SIZE, Min({w, S3_MAX_PART_SIZE})})
  BY DEF effective_part_size, Between, d
<1> HIDE DEF n, w
<1>5. PICK v \in Nat : v = Min({w, S3_MAX_PART_SIZE}) /\ (v = S3_MAX_PART_SIZE \/ v = w)
  BY <1>1, <1>3, LesserGreater
<1>6. n \in Nat \ {0} /\ S3_MIN_PART_SIZE <= n /\ v <= n
  <2>1. Max({S3_MIN_PART_SIZE, v}) = IF S3_MIN_PART_SIZE >= v THEN S3_MIN_PART_SIZE ELSE v
    <3>1. S3_MIN_PART_SIZE \in Int /\ v \in Int
      BY <1>1
    <3> QED
      BY <3>1, LesserGreater, Zenon
  <2> QED
    BY <1>1, <1>4, <1>5, <2>1
<1>7. l <= S3_MAX_MULTIPART_PARTS * n
  <2> DEFINE M == S3_MAX_MULTIPART_PARTS
  <2>1. M \in Nat
    BY <1>1
  <2>2. CASE v = S3_MAX_PART_SIZE
    <3>1. v * M <= n * M
      BY <1>5, <1>6, <2>1, TimesGrows
    <3> QED
      BY <1>5, <1>6, <2>1, <2>2, <3>1
  <2>3. CASE v = w
    <3>1. d <= n
      BY <1>2, <1>3, <1>5, <1>6, <2>3
    <3>2. d * M <= n * M
      BY <1>2, <1>6, <2>1, <3>1, TimesGrows
    <3>3. d * M \in Nat /\ n * M \in Nat /\ n * M = M * n
      BY <1>2, <1>6, <2>1
    <3> QED
      BY <1>2, <3>2, <3>3
  <2> QED
    BY <1>5, <2>2, <2>3
<1> QED
  BY <1>6, <1>7, PiecesAccepted DEF n

-----------------------------------------------------------------------------
(* The invariant. *)

Uploading(h) == items[h].stage \in {"copying", "sending"}
Finished == {h \in DOMAIN items : items[h].stage \in {"done", "skipped"}}

\* The bytes that answer a request for a range.
PartOf(h, range) == SubSeq(h.digest, range[1] + 1, Min({range[2], SourceSize(h)}))

\* What a sync that returns an error may blame for the object.
Excused(h) ==
    \/ past.fault \/ syncHalt \/ h \notin sync.source
    \/ InParts(h) /\ Overestimated(h)

\* What the stage of an object's task says of the call's history.
HistoryInv(h) ==
    /\ <<h, items[h].est>> \in Sizes(sync)
    /\ items[h].stage = "trusted" => h \in past.trusted
    /\ items[h].stage \in {"done", "skipped"} => h \in past.seen \cup past.trusted \cup past.partial
    /\ items[h].stage = "failed" => Excused(h)

\* A multipart upload: how the object is cut, and that the parts that arrived
\* are the object's bytes there, none of them missing unless a request failed.
PartsInv(h) ==
    /\ h \in DOMAIN uploads
    /\ items[h].stage = "copying" =>
        /\ sync.from = "s3" /\ sync.to = "s3" /\ h \in sync.source
        /\ sync.config # {} /\ SourceSize(h) > 0
        /\ items[h].ranges =
             Slices(SourceSize(h), effective_part_size(The(sync.config), SourceSize(h)))
    /\ items[h].stage = "sending" =>
        /\ InParts(h) /\ items[h].ranges = Slices(items[h].est, SyncPartSize)
        /\ items[h].failed => Excused(h)
    /\ items[h].pending \subseteq DOMAIN items[h].ranges
    /\ \A p \in uploads[h] :
        \E k \in DOMAIN items[h].ranges : p = <<k, PartOf(h, items[h].ranges[k])>>
    /\ ~items[h].failed =>
        \A k \in DOMAIN items[h].ranges \ items[h].pending :
            /\ <<k, PartOf(h, items[h].ranges[k])>> \in uploads[h]
            /\ items[h].ranges[k][1] < SourceSize(h)

\* All that concerns one object.
ObjectInv(h) ==
    /\ h \in DOMAIN items => HistoryInv(h) /\ (Uploading(h) => PartsInv(h))
    /\ h \in DOMAIN dest =>
        \/ dest[h] = h.digest \/ h \in past.partial
        \/ h \in DOMAIN items /\ items[h].stage = "writing"
    /\ h \in DOMAIN uploads => h \in past.left \/ (h \in DOMAIN items /\ Uploading(h))

ObjectsInv == \A h \in DOMAIN items \cup DOMAIN dest \cup DOMAIN uploads : ObjectInv(h)

\* The fields of the records, and what the steps of a call say of its tasks.
ShapeInv ==
    /\ sync \in Syncs /\ syncStep \in {"begin", "work", "ok", "err"}
    /\ DOMAIN past = {"seen", "trusted", "partial", "left", "fault"}
    /\ DOMAIN check_cache = {"entries", "hits", "invalidated"} /\ check_cache.hits \in Nat
    /\ DOMAIN syncTally = {"total", "copied", "skipped"}
    /\ syncTally.copied \in Nat /\ syncTally.skipped \in Nat
    /\ \A h \in DOMAIN items :
        DOMAIN items[h] = {"stage", "est", "ranges", "pending", "failed"}
    /\ syncStep = "begin" => DOMAIN items = {}
    /\ syncStep = "ok" => \A h \in DOMAIN items : items[h].stage \in {"done", "skipped"}
    /\ syncStep = "err" =>
        /\ \A h \in DOMAIN items : items[h].stage \in {"done", "skipped", "failed"}
        /\ \E h \in DOMAIN items : items[h].stage = "failed"

\* The check cache is trusted only after enough hits were verified.
TrustInv ==
    syncStep # "begin" /\ past.trusted # {} => VerifyFirst <= check_cache.hits /\ ~sync.forced

\* Unless a task failed, the statistics count the finished ones.
TallyInv ==
    syncStep # "begin" =>
        /\ IsFiniteSet(DOMAIN items) /\ syncTally.total = Cardinality(DOMAIN items)
        /\ (\A h \in DOMAIN items : items[h].stage # "failed") =>
                syncTally.copied + syncTally.skipped = Cardinality(Finished)

SyncInv == ShapeInv /\ ObjectsInv /\ TrustInv /\ TallyInv

-----------------------------------------------------------------------------
(* What the step of one object's task leaves alone. *)

\* The history of the call grows, but for a torn file made whole.
PastGrows(h) ==
    /\ DOMAIN past' = DOMAIN past
    /\ past.seen \subseteq past'.seen /\ past.trusted \subseteq past'.trusted
    /\ past.left \subseteq past'.left /\ past.partial \ {h} \subseteq past'.partial
    /\ past.fault => past'.fault

\* The other objects stay where they are.
OthersStay(h) ==
    \A g : g # h =>
        /\ g \in DOMAIN dest' => g \in DOMAIN dest /\ dest'[g] = dest[g]
        /\ g \in DOMAIN uploads' <=> g \in DOMAIN uploads
        /\ g \in DOMAIN uploads => uploads'[g] = uploads[g]

\* The other tasks too, and this one keeps its size.
TaskSteps(h) ==
    /\ syncStep = "work" /\ syncStep' = "work" /\ sync' = sync /\ h \in DOMAIN items
    /\ DOMAIN items' = DOMAIN items
    /\ \A g \in DOMAIN items : g # h => items'[g] = items[g]
    /\ items'[h].est = items[h].est /\ DOMAIN items'[h] = DOMAIN items[h]
    /\ syncHalt => syncHalt'

\* The statistics follow the task.
TallyFollows(h) ==
    /\ DOMAIN syncTally' = DOMAIN syncTally /\ syncTally'.total = syncTally.total
    /\ syncTally'.copied \in Nat /\ syncTally'.skipped \in Nat
    /\ items[h].stage \notin {"done", "skipped", "failed"}
    /\ \/ items'[h].stage = "failed"
       \/ /\ items'[h].stage \notin {"done", "skipped", "failed"}
          /\ syncTally'.copied + syncTally'.skipped = syncTally.copied + syncTally.skipped
       \/ /\ items'[h].stage \in {"done", "skipped"}
          /\ syncTally'.copied + syncTally'.skipped = syncTally.copied + syncTally.skipped + 1

\* The check cache keeps its count of hits, and the call what it trusted.
CacheRests ==
    /\ DOMAIN check_cache' = DOMAIN check_cache /\ check_cache'.hits = check_cache.hits
    /\ past'.trusted = past.trusted

CacheFollows ==
    /\ DOMAIN check_cache' = DOMAIN check_cache /\ check_cache'.hits \in Nat
    /\ TrustInv'

\* What is shown of every step of a task.
TaskStep(h) ==
    /\ PastGrows(h) /\ OthersStay(h) /\ TaskSteps(h) /\ TallyFollows(h) /\ CacheFollows
    /\ ObjectInv(h)'

\* A task that goes to another stage keeps its fields.
LEMMA GoesIs ==
    ASSUME ShapeInv, NEW h \in DOMAIN items, NEW st, Goes(h, st)
    PROVE  /\ DOMAIN items' = DOMAIN items
           /\ \A g \in DOMAIN items : g # h => items'[g] = items[g]
           /\ DOMAIN items'[h] = DOMAIN items[h] /\ items'[h].stage = st
           /\ items'[h].est = items[h].est /\ items'[h].ranges = items[h].ranges
           /\ items'[h].pending = items[h].pending /\ items'[h].failed = items[h].failed
<1>1. DOMAIN items[h] = {"stage", "est", "ranges", "pending", "failed"}
  BY DEF ShapeInv
<1> DEFINE r == items[h]
           s == [r EXCEPT !.stage = st]
<1>2. items' = [items EXCEPT ![h] = s]
  BY DEF Goes
<1>3. /\ DOMAIN s = DOMAIN r /\ s.stage = st /\ s.est = r.est /\ s.ranges = r.ranges
      /\ s.pending = r.pending /\ s.failed = r.failed
  BY <1>1
<1> HIDE DEF s
<1> QED
  BY <1>2, <1>3

\* A step that only moves a task.
LEMMA MoveSteps ==
    ASSUME ShapeInv, NEW h \in DOMAIN items, NEW st, syncStep = "work", Goes(h, st),
           UNCHANGED callVars,
           items[h].stage \notin {"done", "skipped", "failed"}, st \notin {"done", "skipped"}
    PROVE  TaskSteps(h) /\ TallyFollows(h)
<1>1. /\ sync' = sync /\ syncStep' = syncStep /\ syncHalt' = syncHalt /\ syncTally' = syncTally
  BY DEF callVars
<1>2. TaskSteps(h)
  BY <1>1, GoesIs DEF TaskSteps
<1>3. items'[h].stage = st
  BY GoesIs
<1>4. syncTally.copied \in Nat /\ syncTally.skipped \in Nat
  BY DEF ShapeInv
<1> QED
  BY <1>1, <1>2, <1>3, <1>4 DEF TallyFollows

\* A step that counts a task as skipped or copied, unless the callback stops it.
LEMMA CountedIs ==
    ASSUME ShapeInv, NEW h \in DOMAIN items, NEW field \in {"copied", "skipped"},
           NEW st \in {"done", "skipped"}, NEW goes_on \in BOOLEAN, syncStep = "work",
           Counted(h, field, st, goes_on), items[h].stage \notin {"done", "skipped", "failed"}
    PROVE  /\ TaskSteps(h) /\ TallyFollows(h)
           /\ items'[h].stage = st \/ (items'[h].stage = "failed" /\ syncHalt')
<1>1. sync' = sync /\ syncStep' = syncStep
  BY DEF Counted
<1>2. PICK t : /\ Goes(h, t) /\ (t = st \/ (t = "failed" /\ syncHalt'))
               /\ syncHalt => syncHalt'
  <2>1. CASE goes_on
    BY <2>1, Zenon DEF Counted
  <2>2. CASE ~goes_on
    BY <2>2, Zenon DEF Counted
  <2> QED
    BY <2>1, <2>2
<1>3. TaskSteps(h) /\ items'[h].stage = t
  BY <1>1, <1>2, GoesIs DEF TaskSteps
<1>4. /\ DOMAIN syncTally' = DOMAIN syncTally /\ syncTally'.total = syncTally.total
      /\ syncTally'.copied \in Nat /\ syncTally'.skipped \in Nat
      /\ syncTally'.copied + syncTally'.skipped = syncTally.copied + syncTally.skipped + 1
  <2>1. /\ DOMAIN syncTally = {"total", "copied", "skipped"}
        /\ syncTally.copied \in Nat /\ syncTally.skipped \in Nat
    BY DEF ShapeInv
  <2>2. syncTally' = [syncTally EXCEPT ![field] = @ + 1]
    BY DEF Counted
  <2>3. CASE field = "copied"
    BY <2>1, <2>2, <2>3
  <2>4. CASE field = "skipped"
    BY <2>1, <2>2, <2>4
  <2> QED
    BY <2>3, <2>4
<1> QED
  BY <1>2, <1>3, <1>4 DEF TallyFollows

\* With its hits and the trusted objects, the check cache keeps its promise.
LEMMA CacheHolds ==
    ASSUME ShapeInv, TrustInv, CacheRests, syncStep' = syncStep, sync' = sync
    PROVE  CacheFollows
BY DEF ShapeInv, TrustInv, CacheRests, CacheFollows

\* What is known of the other objects stays true.
LEMMA OthersHold ==
    ASSUME ShapeInv, ObjectsInv, NEW h, PastGrows(h), OthersStay(h), TaskSteps(h),
           ObjectInv(h)'
    PROVE  ObjectsInv'
<1> SUFFICES ASSUME NEW g, g \in (DOMAIN items \cup DOMAIN dest \cup DOMAIN uploads)', g # h
             PROVE  ObjectInv(g)'
  BY Zenon DEF ObjectsInv
<1>1. /\ g \in DOMAIN dest' => g \in DOMAIN dest /\ dest'[g] = dest[g]
      /\ g \in DOMAIN uploads' <=> g \in DOMAIN uploads
      /\ g \in DOMAIN uploads => uploads'[g] = uploads[g]
  BY Zenon DEF OthersStay
<1>2. /\ sync' = sync /\ DOMAIN items' = DOMAIN items /\ (syncHalt => syncHalt')
      /\ g \in DOMAIN items => items'[g] = items[g]
  BY Zenon DEF TaskSteps
<1>3. ObjectInv(g)
  BY <1>1, <1>2, Zenon DEF ObjectsInv
<1>4. /\ g \in past.seen => g \in past'.seen
      /\ g \in past.trusted => g \in past'.trusted
      /\ g \in past.partial => g \in past'.partial
      /\ g \in past.left => g \in past'.left
      /\ past.fault => past'.fault
  BY DEF PastGrows
<1>5. ASSUME g \in DOMAIN items, Excused(g) PROVE Excused(g)'
  BY <1>2, <1>4, <1>5, Zenon DEF Excused, InParts, Overestimated
<1>6. ASSUME g \in DOMAIN items, HistoryInv(g) PROVE HistoryInv(g)'
  BY <1>2, <1>4, <1>5, <1>6 DEF HistoryInv
<1>7. ASSUME g \in DOMAIN items, PartsInv(g) PROVE PartsInv(g)'
  <2>1. items'[g] = items[g] /\ g \in DOMAIN uploads /\ uploads'[g] = uploads[g]
    BY <1>1, <1>2, <1>7, Zenon DEF PartsInv
  <2>2. InParts(g) => InParts(g)'
    BY <1>2, <2>1, Zenon DEF InParts
  <2> QED
    BY <1>1, <1>2, <1>5, <1>7, <2>1, <2>2, Zenon DEF PartsInv
<1>8. g \in DOMAIN items => (Uploading(g)' <=> Uploading(g))
  BY <1>2, Zenon DEF Uploading
<1>9. g \in DOMAIN items' => HistoryInv(g)' /\ (Uploading(g)' => PartsInv(g)')
  BY <1>2, <1>3, <1>6, <1>7, <1>8, Zenon DEF ObjectInv
<1>10. g \in DOMAIN dest' =>
        \/ dest'[g] = g.digest \/ g \in past'.partial
        \/ g \in DOMAIN items' /\ items'[g].stage = "writing"
  BY <1>1, <1>2, <1>3, <1>4, Zenon DEF ObjectInv
<1>11. g \in DOMAIN uploads' => g \in past'.left \/ (g \in DOMAIN items' /\ Uploading(g)')
  BY <1>1, <1>2, <1>3, <1>4, <1>8, Zenon DEF ObjectInv
<1> QED
  BY <1>9, <1>10, <1>11, Zenon DEF ObjectInv

\* One more finished task is counted once.
LEMMA TallyHolds ==
    ASSUME ShapeInv, TallyInv, NEW h, TaskSteps(h), TallyFollows(h)
    PROVE  TallyInv'
<1>1. /\ syncStep # "begin" /\ h \in DOMAIN items /\ DOMAIN items' = DOMAIN items
      /\ \A g \in DOMAIN items : g # h => items'[g] = items[g]
  BY DEF TaskSteps
<1>2. IsFiniteSet(DOMAIN items) /\ syncTally.total = Cardinality(DOMAIN items)
  BY <1>1 DEF TallyInv
<1>3. IsFiniteSet(DOMAIN items') /\ syncTally'.total = Cardinality(DOMAIN items')
  BY <1>1, <1>2, Zenon DEF TallyFollows
<1>4. ASSUME \A g \in DOMAIN items' : items'[g].stage # "failed"
      PROVE  syncTally'.copied + syncTally'.skipped = Cardinality(Finished')
  <2>1. items'[h].stage # "failed"
    BY <1>1, <1>4
  <2>2. \A g \in DOMAIN items : items[g].stage # "failed"
    BY <1>1, <1>4 DEF TallyFollows
  <2>3. syncTally.copied + syncTally.skipped = Cardinality(Finished)
    BY <1>1, <2>2 DEF TallyInv
  <2>4. IsFiniteSet(Finished) /\ h \notin Finished
    <3>1. Finished \subseteq DOMAIN items
      BY DEF Finished
    <3>2. h \notin Finished
      BY DEF Finished, TallyFollows
    <3> QED
      BY <1>2, <3>1, <3>2, FS_Subset, Zenon
  <2>5. CASE items'[h].stage \notin {"done", "skipped", "failed"}
    <3>1. Finished' = Finished
      BY <1>1, <2>4, <2>5 DEF Finished
    <3>2. syncTally'.copied + syncTally'.skipped = syncTally.copied + syncTally.skipped
      BY <2>5 DEF TallyFollows
    <3> QED
      BY <2>3, <3>1, <3>2, Zenon
  <2>6. CASE items'[h].stage \in {"done", "skipped"}
    <3>1. Finished' = Finished \cup {h}
      BY <1>1, <2>4, <2>6 DEF Finished
    <3>2. syncTally'.copied + syncTally'.skipped = syncTally.copied + syncTally.skipped + 1
      BY <2>6 DEF TallyFollows
    <3>3. Cardinality(Finished \cup {h}) = Cardinality(Finished) + 1
      BY <2>4, FS_AddElement, Zenon
    <3> QED
      BY <2>3, <3>1, <3>2, <3>3, Zenon
  <2> QED
    BY <2>1, <2>5, <2>6
<1> QED
  BY <1>3, <1>4, Zenon DEF TallyInv

\* The invariant after the step of a task.
LEMMA TaskHolds ==
    ASSUME SyncInv, NEW h, TaskStep(h)
    PROVE  SyncInv'
<1> USE DEF SyncInv, TaskStep
<1>1. ObjectsInv'
  BY OthersHold, Zenon
<1>2. TallyInv'
  BY TallyHolds, Zenon
<1>3. TrustInv'
  BY Zenon DEF CacheFollows
<1>4. ShapeInv'
  <2>1. \A g \in DOMAIN items' :
           DOMAIN items'[g] = {"stage", "est", "ranges", "pending", "failed"}
    BY DEF TaskSteps, ShapeInv
  <2>2. sync' \in Syncs /\ syncStep' = "work"
    BY DEF TaskSteps, ShapeInv
  <2>3. DOMAIN past' = {"seen", "trusted", "partial", "left", "fault"}
    BY Zenon DEF PastGrows, ShapeInv
  <2>4. DOMAIN check_cache' = {"entries", "hits", "invalidated"} /\ check_cache'.hits \in Nat
    BY Zenon DEF CacheFollows, ShapeInv
  <2>5. /\ DOMAIN syncTally' = {"total", "copied", "skipped"}
        /\ syncTally'.copied \in Nat /\ syncTally'.skipped \in Nat
    BY Zenon DEF TallyFollows, ShapeInv
  <2> QED
    BY <2>1, <2>2, <2>3, <2>4, <2>5 DEF ShapeInv
<1> QED
  BY <1>1, <1>2, <1>3, <1>4

\* The steps of the history.
LEMMA PastSame ==
    ASSUME NEW h, past' = past
    PROVE  PastGrows(h)
BY DEF PastGrows

\* A failed request is remembered.
LEMMA PastFails ==
    ASSUME ShapeInv, NEW h, Failing
    PROVE  /\ PastGrows(h) /\ past'.fault /\ past'.trusted = past.trusted
           /\ past'.partial = past.partial /\ past'.left = past.left
BY DEF ShapeInv, Failing, PastGrows

\* An object seen at the destination is remembered.
LEMMA PastSees ==
    ASSUME ShapeInv, NEW h, Seeing(h)
    PROVE  /\ PastGrows(h) /\ h \in past'.seen /\ past'.trusted = past.trusted
           /\ past'.partial = past.partial /\ past'.left = past.left
BY DEF ShapeInv, Seeing, PastGrows

-----------------------------------------------------------------------------
(* The steps of a task. *)

\* A task that neither uploads nor writes goes on, or fails with a reason.
LEMMA MoveHolds ==
    ASSUME SyncInv, NEW h \in DOMAIN items, NEW st, syncStep = "work", Goes(h, st),
           UNCHANGED callVars, UNCHANGED <<dest, uploads>>, PastGrows(h), CacheFollows,
           past'.partial = past.partial,
           items[h].stage \notin {"done", "skipped", "failed", "copying", "sending", "writing"},
           st \notin {"done", "skipped", "copying", "sending"},
           st = "trusted" => h \in past'.trusted,
           st = "failed" => past'.fault \/ syncHalt
    PROVE  TaskStep(h)
<1>1. ShapeInv /\ ObjectInv(h)
  BY Zenon DEF SyncInv, ObjectsInv
<1>2. TaskSteps(h) /\ TallyFollows(h)
  BY <1>1, MoveSteps
<1>3. /\ items'[h].stage = st /\ items'[h].est = items[h].est /\ DOMAIN items' = DOMAIN items
  BY <1>1, GoesIs
<1>4. sync' = sync /\ syncHalt' = syncHalt /\ dest' = dest /\ uploads' = uploads
  BY DEF callVars
<1>5. OthersStay(h)
  BY <1>4 DEF OthersStay
<1>6. st = "failed" => Excused(h)'
  BY <1>4, Zenon DEF Excused
<1>7. HistoryInv(h)'
  BY <1>1, <1>3, <1>4, <1>6 DEF ObjectInv, HistoryInv
<1>8. ~Uploading(h) /\ ~Uploading(h)'
  BY <1>3 DEF Uploading
<1>9. h \in DOMAIN uploads => h \in past'.left
  BY <1>1, <1>8 DEF ObjectInv, PastGrows
<1>10. h \in DOMAIN dest => dest[h] = h.digest \/ h \in past.partial
  BY <1>1 DEF ObjectInv
<1>11. ObjectInv(h)'
  BY <1>3, <1>4, <1>7, <1>8, <1>9, <1>10, Zenon DEF ObjectInv
<1> QED
  BY <1>2, <1>5, <1>11 DEF TaskStep

\* A task whose object was found or put at the destination is counted.
LEMMA CountHolds ==
    ASSUME SyncInv, NEW h \in DOMAIN items, NEW field \in {"copied", "skipped"},
           NEW st \in {"done", "skipped"}, NEW goes_on \in BOOLEAN, syncStep = "work",
           Counted(h, field, st, goes_on), items[h].stage \notin {"done", "skipped", "failed"},
           OthersStay(h), PastGrows(h), CacheFollows,
           h \in past'.seen \cup past'.trusted \cup past'.partial,
           h \in DOMAIN dest' => dest'[h] = h.digest \/ h \in past'.partial,
           h \in DOMAIN uploads' => h \in past'.left
    PROVE  TaskStep(h)
<1>1. ShapeInv /\ ObjectInv(h)
  BY Zenon DEF SyncInv, ObjectsInv
<1>2. /\ TaskSteps(h) /\ TallyFollows(h)
      /\ items'[h].stage = st \/ (items'[h].stage = "failed" /\ syncHalt')
  BY <1>1, CountedIs
<1>3. sync' = sync /\ DOMAIN items' = DOMAIN items /\ items'[h].est = items[h].est
  BY <1>2 DEF TaskSteps
<1>4. items'[h].stage \in {"done", "skipped", "failed"}
  BY <1>2
<1>5. items'[h].stage = "failed" => Excused(h)'
  BY <1>2 DEF Excused
<1>6. HistoryInv(h)'
  BY <1>1, <1>3, <1>4, <1>5 DEF ObjectInv, HistoryInv
<1>7. ~Uploading(h)'
  BY <1>4 DEF Uploading
<1>8. ObjectInv(h)'
  BY <1>3, <1>6, <1>7, Zenon DEF ObjectInv
<1> QED
  BY <1>2, <1>8 DEF TaskStep

\* What is stored under the hash of a task is not half written by that task.
LEMMA StoredIs ==
    ASSUME SyncInv, NEW h \in DOMAIN items, items[h].stage \notin {"writing"}
    PROVE  h \in DOMAIN dest => dest[h] = h.digest \/ h \in past.partial
BY Zenon DEF SyncInv, ObjectsInv, ObjectInv

\* An open upload of an object whose task is not uploading was left open.
LEMMA LeftIs ==
    ASSUME SyncInv, NEW h \in DOMAIN items, ~Uploading(h)
    PROVE  h \in DOMAIN uploads => h \in past.left
BY Zenon DEF SyncInv, ObjectsInv, ObjectInv

\* Storing an object touches no other.
LEMMA StoreIs ==
    ASSUME NEW h, NEW b, dest' = StoredAt(h, b), uploads' = uploads
    PROVE  OthersStay(h) /\ h \in DOMAIN dest' /\ dest'[h] = b
BY DEF StoredAt, OthersStay

\* The check cache learns of an object.
LEMMA CacheRecords ==
    ASSUME SyncInv, NEW h, check_cache' = record_in_check_cache(h) \/ check_cache' = check_cache,
           past'.trusted = past.trusted, syncStep' = syncStep, sync' = sync
    PROVE  CacheFollows
<1>1. DOMAIN check_cache' = DOMAIN check_cache /\ check_cache'.hits = check_cache.hits
  BY DEF SyncInv, ShapeInv, record_in_check_cache
<1> QED
  BY <1>1, CacheHolds DEF SyncInv, CacheRests

\* A task that starts sees whether the call was cancelled.
LEMMA StartItemHolds ==
    ASSUME SyncInv, NEW h \in DOMAIN items, StartItem(h)
    PROVE  TaskStep(h)
<1>1. /\ syncStep = "work" /\ items[h].stage = "queued" /\ UNCHANGED callVars
      /\ dest' = dest /\ uploads' = uploads /\ check_cache' = check_cache /\ past' = past
  BY DEF StartItem, At
<1>2. CacheFollows
  BY <1>1, CacheRecords DEF callVars
<1>3. PICK st : Goes(h, st) /\ (st = "exists" \/ (st = "failed" /\ syncHalt))
  BY Zenon DEF StartItem
<1> QED
  BY <1>1, <1>2, <1>3, PastSame, MoveHolds, SMTT(30)

\* A task with no server-side copy goes on to transfer its object.
LEMMA NoServerCopyHolds ==
    ASSUME SyncInv, NEW h \in DOMAIN items, NoServerCopy(h)
    PROVE  TaskStep(h)
<1>1. /\ syncStep = "work" /\ items[h].stage = "copy" /\ UNCHANGED callVars
      /\ dest' = dest /\ uploads' = uploads /\ check_cache' = check_cache
      /\ Goes(h, "transfer") /\ (Failing \/ past' = past)
  BY DEF NoServerCopy, At
<1>2. PastGrows(h) /\ past'.partial = past.partial /\ past'.trusted = past.trusted
  BY <1>1, PastSame, PastFails DEF SyncInv
<1>3. CacheFollows
  BY <1>1, <1>2, CacheRecords DEF callVars
<1> QED
  BY <1>1, <1>2, <1>3, MoveHolds

\* A task whose upload cannot be created fails.
LEMMA CreateFailsHolds ==
    ASSUME SyncInv, NEW h \in DOMAIN items, CreateFails(h)
    PROVE  TaskStep(h)
<1>1. /\ syncStep = "work" /\ items[h].stage = "transfer" /\ UNCHANGED callVars
      /\ dest' = dest /\ uploads' = uploads /\ check_cache' = check_cache
      /\ Goes(h, "failed") /\ Failing
  BY DEF CreateFails, At
<1>2. /\ PastGrows(h) /\ past'.partial = past.partial /\ past'.trusted = past.trusted
      /\ past'.fault
  BY <1>1, PastFails DEF SyncInv
<1>3. CacheFollows
  BY <1>1, <1>2, CacheRecords DEF callVars
<1> QED
  BY <1>1, <1>2, <1>3, MoveHolds

\* A task is skipped on the word of the check cache.
LEMMA SkipTrustedHolds ==
    ASSUME SyncInv, NEW h \in DOMAIN items, NEW goes_on \in BOOLEAN, SkipTrusted(h, goes_on)
    PROVE  TaskStep(h)
<1>1. /\ syncStep = "work" /\ items[h].stage = "trusted"
      /\ dest' = dest /\ uploads' = uploads /\ check_cache' = check_cache /\ past' = past
      /\ Counted(h, "skipped", "skipped", goes_on)
  BY DEF SkipTrusted, At
<1>2. h \in past.trusted /\ ~Uploading(h)
  BY <1>1, Zenon DEF SyncInv, ObjectsInv, ObjectInv, HistoryInv, Uploading
<1>3. CacheFollows
  BY <1>1, CacheRecords DEF Counted
<1>4. OthersStay(h)
  BY <1>1 DEF OthersStay
<1>5. h \in DOMAIN dest' => dest'[h] = h.digest \/ h \in past'.partial
  BY <1>1, StoredIs
<1>6. h \in DOMAIN uploads' => h \in past'.left
  BY <1>1, <1>2, LeftIs
<1> QED
  BY <1>1, <1>2, <1>3, <1>4, <1>5, <1>6, PastSame, CountHolds, SMTT(30)

\* The check cache is asked: a hit that is not verified is not one of the first.
LEMMA AskCheckCacheHolds ==
    ASSUME SyncInv, NEW h \in DOMAIN items, NEW verify \in BOOLEAN, AskCheckCache(h, verify)
    PROVE  TaskStep(h)
<1> DEFINE hit == check_cache_exists(h) /\ ~check_cache.invalidated
<1>1. /\ syncStep = "work" /\ items[h].stage = "exists" /\ UNCHANGED callVars
      /\ dest' = dest /\ uploads' = uploads
  BY DEF AskCheckCache, At
<1>2. /\ ShapeInv /\ TrustInv /\ VerifyFirst \in Nat /\ check_cache.hits \in Nat
      /\ DOMAIN check_cache = {"entries", "hits", "invalidated"}
      /\ DOMAIN past = {"seen", "trusted", "partial", "left", "fault"}
  BY SyncAssumption DEF SyncInv, ShapeInv
<1>3. sync' = sync /\ syncStep' = syncStep
  BY <1>1 DEF callVars
<1>4. PICK n \in Nat : n = Min({check_cache.hits + 1, VerifyFirst})
                       /\ (VerifyFirst <= check_cache.hits => n = VerifyFirst)
  <2>1. check_cache.hits + 1 \in Int /\ VerifyFirst \in Int
    BY <1>2
  <2>2. Min({check_cache.hits + 1, VerifyFirst}) =
            IF check_cache.hits + 1 <= VerifyFirst THEN check_cache.hits + 1 ELSE VerifyFirst
    BY <2>1, LesserGreater, Zenon
  <2> QED
    BY <1>2, <2>2
<1>5. CASE hit /\ verify
  <2>1. /\ check_cache' = [check_cache EXCEPT !.hits = n] /\ past' = past /\ Goes(h, "verify")
    BY <1>4, <1>5 DEF AskCheckCache
  <2>2. CacheFollows
    BY <1>1, <1>2, <1>3, <1>4, <2>1 DEF CacheFollows, TrustInv
  <2> QED
    BY <1>1, <2>1, <2>2, PastSame, MoveHolds
<1>6. CASE hit /\ ~verify
  <2>1. /\ check_cache' = [check_cache EXCEPT !.hits = n] /\ Goes(h, "trusted")
        /\ past' = [past EXCEPT !.trusted = @ \cup {h}]
    BY <1>4, <1>6 DEF AskCheckCache
  <2>2. PastGrows(h) /\ h \in past'.trusted /\ past'.partial = past.partial
    BY <1>2, <2>1 DEF PastGrows
  <2>3. VerifyFirst <= check_cache.hits /\ ~sync.forced
    BY <1>2, <1>6 DEF AskCheckCache, should_verify, check_cache_exists
  <2>4. CacheFollows
    BY <1>1, <1>2, <1>3, <1>4, <2>1, <2>3 DEF CacheFollows, TrustInv
  <2> QED
    BY <1>1, <2>1, <2>2, <2>4, MoveHolds, SMTT(30)
<1>7. CASE ~hit
  <2>1. check_cache' = check_cache /\ past' = past /\ Goes(h, "head")
    BY <1>7 DEF AskCheckCache
  <2>2. CacheFollows
    BY <1>3, <2>1, CacheRecords
  <2> QED
    BY <1>1, <2>1, <2>2, PastSame, MoveHolds
<1> QED
  BY <1>5, <1>6, <1>7

\* HeadObject answers for an object that is there, is not, or fails.
LEMMA HeadObjectHolds ==
    ASSUME SyncInv, NEW h \in DOMAIN items, NEW answers \in BOOLEAN, NEW goes_on \in BOOLEAN,
           HeadObject(h, answers, goes_on)
    PROVE  TaskStep(h)
<1> DEFINE there == answers /\ h \in DOMAIN dest
<1>1. /\ syncStep = "work" /\ items[h].stage \in {"head", "verify"}
      /\ dest' = dest /\ uploads' = uploads
  BY DEF HeadObject
<1>2. /\ ShapeInv /\ DOMAIN check_cache = {"entries", "hits", "invalidated"}
      /\ DOMAIN past = {"seen", "trusted", "partial", "left", "fault"}
  BY DEF SyncInv, ShapeInv
<1>3. DOMAIN check_cache' = DOMAIN check_cache /\ check_cache'.hits = check_cache.hits
  <2>1. \/ check_cache' = check_cache \/ check_cache' = record_in_check_cache(h)
        \/ check_cache' = [check_cache EXCEPT !.invalidated = TRUE]
    BY Zenon DEF HeadObject
  <2> QED
    BY <1>2, <2>1 DEF record_in_check_cache
<1>4. /\ PastGrows(h) /\ past'.trusted = past.trusted /\ past'.partial = past.partial
      /\ there /\ dest[h] = h.digest => h \in past'.seen
  <2>1. PICK s, b : /\ past' = [past EXCEPT !.seen = s, !.fault = b]
                    /\ past.seen \subseteq s /\ (past.fault => b)
                    /\ there /\ dest[h] = h.digest => h \in s
    <3> DEFINE x == IF there /\ dest[h] = h.digest THEN past.seen \cup {h} ELSE past.seen
               y == past.fault \/ ~answers
    <3>1. past' = [past EXCEPT !.seen = x, !.fault = y]
      BY Zenon DEF HeadObject
    <3>2. past.seen \subseteq x /\ (there /\ dest[h] = h.digest => h \in x)
      OBVIOUS
    <3>3. past.fault => y
      OBVIOUS
    <3> HIDE DEF x, y
    <3> QED
      BY <3>1, <3>2, <3>3, Zenon
  <2> QED
    BY <1>2, <2>1 DEF PastGrows
<1>5. CASE there
  <2>1. Counted(h, "skipped", "skipped", goes_on)
    BY <1>5 DEF HeadObject
  <2>2. CacheFollows
    BY <1>2, <1>3, <1>4, <2>1, CacheHolds DEF Counted, CacheRests, SyncInv
  <2>3. OthersStay(h)
    BY <1>1 DEF OthersStay
  <2>4. dest[h] = h.digest \/ h \in past.partial
    BY <1>1, <1>5, StoredIs
  <2>5. h \in past'.seen \cup past'.trusted \cup past'.partial
    BY <1>4, <1>5, <2>4
  <2>6. h \in DOMAIN uploads' => h \in past'.left
    BY <1>1, <1>4, LeftIs DEF Uploading, PastGrows
  <2> QED
    BY <1>1, <1>4, <2>1, <2>2, <2>3, <2>4, <2>5, <2>6, CountHolds, SMTT(30)
<1>6. CASE ~there
  <2>1. Goes(h, "copy") /\ UNCHANGED callVars
    BY <1>6, Zenon DEF HeadObject
  <2>2. CacheFollows
    BY <1>2, <1>3, <1>4, <2>1, CacheHolds DEF callVars, CacheRests, SyncInv
  <2> QED
    BY <1>1, <1>4, <2>1, <2>2, MoveHolds
<1> QED
  BY <1>5, <1>6

\* A file that exists is skipped.
LEMMA FileExistsHolds ==
    ASSUME SyncInv, NEW h \in DOMAIN items, NEW goes_on \in BOOLEAN, FileExists(h, goes_on)
    PROVE  TaskStep(h)
<1>1. /\ syncStep = "work" /\ items[h].stage = "exists"
      /\ dest' = dest /\ uploads' = uploads /\ check_cache' = check_cache
  BY DEF FileExists, At
<1>2. /\ PastGrows(h) /\ past'.trusted = past.trusted /\ past'.partial = past.partial
      /\ h \in DOMAIN dest /\ dest[h] = h.digest => h \in past'.seen
  <2>1. CASE h \in DOMAIN dest /\ dest[h] = h.digest
    BY <2>1, PastSees DEF FileExists, Seeing, SyncInv
  <2>2. CASE ~(h \in DOMAIN dest /\ dest[h] = h.digest)
    BY <2>2, PastSame DEF FileExists
  <2> QED
    BY <2>1, <2>2
<1>3. CASE h \in DOMAIN dest
  <2>1. Counted(h, "skipped", "skipped", goes_on)
    BY <1>3 DEF FileExists
  <2>2. CacheFollows
    BY <1>1, <1>2, <2>1, CacheRecords DEF Counted
  <2>3. OthersStay(h)
    BY <1>1 DEF OthersStay
  <2>4. dest[h] = h.digest \/ h \in past.partial
    BY <1>1, <1>3, StoredIs
  <2>5. h \in past'.seen \cup past'.trusted \cup past'.partial
    BY <1>2, <1>3, <2>4
  <2>6. h \in DOMAIN uploads' => h \in past'.left
    BY <1>1, <1>2, LeftIs DEF Uploading, PastGrows
  <2> QED
    BY <1>1, <1>2, <2>1, <2>2, <2>3, <2>4, <2>5, <2>6, CountHolds, SMTT(30)
<1>4. CASE h \notin DOMAIN dest
  <2>1. Goes(h, "copy") /\ UNCHANGED callVars
    BY <1>4 DEF FileExists
  <2>2. CacheFollows
    BY <1>1, <1>2, <2>1, CacheRecords, SMTT(30) DEF callVars
  <2> QED
    BY <1>1, <1>2, <2>1, <2>2, MoveHolds, SMTT(30)
<1> QED
  BY <1>3, <1>4

\* The whole object is put at the destination, which counts the task.
LEMMA PutHolds ==
    ASSUME SyncInv, NEW h \in DOMAIN items, NEW goes_on \in BOOLEAN, syncStep = "work",
           items[h].stage \in {"copy", "transfer"},
           dest' = StoredAt(h, h.digest), check_cache' = record_in_check_cache(h),
           Seeing(h), Counted(h, "copied", "done", goes_on), uploads' = uploads
    PROVE  TaskStep(h)
<1>1. OthersStay(h) /\ dest'[h] = h.digest
  BY StoreIs
<1>2. PastGrows(h) /\ h \in past'.seen /\ past'.trusted = past.trusted /\ past'.left = past.left
  BY PastSees DEF SyncInv
<1>3. CacheFollows
  BY <1>2, CacheRecords DEF Counted
<1>4. h \in DOMAIN uploads' => h \in past'.left
  BY <1>2, LeftIs DEF Uploading
<1> QED
  BY <1>1, <1>2, <1>3, <1>4, CountHolds

\* CopyObject copies the object or the task goes on to transfer it.
LEMMA CopyObjectHolds ==
    ASSUME SyncInv, NEW h \in DOMAIN items, NEW answers \in BOOLEAN, NEW goes_on \in BOOLEAN,
           CopyObject(h, answers, goes_on)
    PROVE  TaskStep(h)
<1>1. syncStep = "work" /\ items[h].stage = "copy" /\ uploads' = uploads
  BY DEF CopyObject, At
<1>2. \/ /\ dest' = StoredAt(h, h.digest) /\ check_cache' = record_in_check_cache(h)
         /\ Seeing(h) /\ Counted(h, "copied", "done", goes_on)
      \/ Failing /\ Goes(h, "transfer") /\ UNCHANGED <<callVars, dest, check_cache>>
  BY Zenon DEF CopyObject
<1>3. CASE Failing /\ Goes(h, "transfer") /\ UNCHANGED <<callVars, dest, check_cache>>
  <2>1. PastGrows(h) /\ past'.partial = past.partial /\ past'.trusted = past.trusted
    BY <1>3, PastFails DEF SyncInv
  <2>2. CacheFollows
    BY <1>3, <2>1, CacheRecords DEF callVars
  <2> QED
    BY <1>1, <1>3, <2>1, <2>2, MoveHolds
<1> QED
  BY <1>1, <1>2, <1>3, PutHolds, SMTT(30)

\* put_object stores the object or the task fails.
LEMMA PutWholeHolds ==
    ASSUME SyncInv, NEW h \in DOMAIN items, NEW answers \in BOOLEAN, NEW goes_on \in BOOLEAN,
           PutWhole(h, answers, goes_on)
    PROVE  TaskStep(h)
<1>1. syncStep = "work" /\ items[h].stage = "transfer" /\ uploads' = uploads
  BY DEF PutWhole, At
<1>2. \/ /\ dest' = StoredAt(h, h.digest) /\ check_cache' = record_in_check_cache(h)
         /\ Seeing(h) /\ Counted(h, "copied", "done", goes_on)
      \/ Failing /\ Goes(h, "failed") /\ UNCHANGED <<callVars, dest, check_cache>>
  BY Zenon DEF PutWhole
<1>3. CASE Failing /\ Goes(h, "failed") /\ UNCHANGED <<callVars, dest, check_cache>>
  <2>1. /\ PastGrows(h) /\ past'.partial = past.partial /\ past'.trusted = past.trusted
        /\ past'.fault
    BY <1>3, PastFails DEF SyncInv
  <2>2. CacheFollows
    BY <1>3, <2>1, CacheRecords DEF callVars
  <2> QED
    BY <1>1, <1>3, <2>1, <2>2, MoveHolds
<1> QED
  BY <1>1, <1>2, <1>3, PutHolds, SMTT(30)

\* A file is begun, and is half written until it ends.
LEMMA WriteFileHolds ==
    ASSUME SyncInv, NEW h \in DOMAIN items, NEW answers \in BOOLEAN, WriteFile(h, answers)
    PROVE  TaskStep(h)
<1>1. /\ syncStep = "work" /\ items[h].stage = "transfer" /\ UNCHANGED callVars
      /\ uploads' = uploads /\ check_cache' = check_cache
  BY DEF WriteFile, At
<1>2. \/ dest' = StoredAt(h, <<>>) /\ Goes(h, "writing") /\ past' = past
      \/ Failing /\ Goes(h, "failed") /\ dest' = dest
  BY Zenon DEF WriteFile
<1>3. CASE Failing /\ Goes(h, "failed") /\ dest' = dest
  <2>1. /\ PastGrows(h) /\ past'.partial = past.partial /\ past'.trusted = past.trusted
        /\ past'.fault
    BY <1>3, PastFails, SMTT(30) DEF SyncInv
  <2>2. CacheFollows
    BY <1>1, <2>1, CacheRecords, SMTT(30) DEF callVars
  <2> QED
    BY <1>1, <1>3, <2>1, <2>2, MoveHolds
<1>4. CASE dest' = StoredAt(h, <<>>) /\ Goes(h, "writing") /\ past' = past
  <2>1. ShapeInv /\ ObjectInv(h)
    BY Zenon DEF SyncInv, ObjectsInv
  <2>2. TaskSteps(h) /\ TallyFollows(h)
    BY <1>1, <1>4, <2>1, MoveSteps, SMTT(30)
  <2>3. OthersStay(h) /\ PastGrows(h)
    BY <1>1, <1>4, StoreIs, PastSame
  <2>4. CacheFollows
    BY <1>1, <1>4, CacheRecords DEF callVars
  <2>5. /\ items'[h].stage = "writing" /\ items'[h].est = items[h].est
        /\ DOMAIN items' = DOMAIN items /\ sync' = sync
    BY <1>1, <1>4, <2>1, GoesIs, SMTT(30) DEF callVars
  <2>6. HistoryInv(h)'
    BY <2>1, <2>5 DEF ObjectInv, HistoryInv
  <2>7. ~Uploading(h) /\ ~Uploading(h)'
    BY <1>1, <2>5 DEF Uploading
  <2>8. h \in DOMAIN uploads' => h \in past'.left
    BY <1>1, <1>4, <2>7, LeftIs
  <2>9. ObjectInv(h)'
    BY <2>5, <2>6, <2>7, <2>8, Zenon DEF ObjectInv
  <2> QED
    BY <2>2, <2>3, <2>4, <2>9, SMTT(30) DEF TaskStep
<1> QED
  BY <1>2, <1>3, <1>4

\* The file is whole, also if an earlier process had left half of it.
LEMMA WriteFileEndsHolds ==
    ASSUME SyncInv, NEW h \in DOMAIN items, NEW goes_on \in BOOLEAN, WriteFileEnds(h, goes_on)
    PROVE  TaskStep(h)
<1>1. /\ syncStep = "work" /\ items[h].stage = "writing"
      /\ uploads' = uploads /\ check_cache' = check_cache
      /\ dest' = StoredAt(h, h.digest) /\ Counted(h, "copied", "done", goes_on)
      /\ past' = [past EXCEPT !.seen = @ \cup {h}, !.partial = @ \ {h}]
  BY DEF WriteFileEnds, At
<1>2. DOMAIN past = {"seen", "trusted", "partial", "left", "fault"}
  BY DEF SyncInv, ShapeInv
<1>3. PastGrows(h) /\ h \in past'.seen /\ past'.trusted = past.trusted /\ past'.left = past.left
  BY <1>1, <1>2 DEF PastGrows
<1>4. OthersStay(h) /\ dest'[h] = h.digest
  BY <1>1, StoreIs
<1>5. CacheFollows
  BY <1>1, <1>3, CacheRecords DEF Counted
<1>6. h \in DOMAIN uploads' => h \in past'.left
  BY <1>1, <1>3, LeftIs DEF Uploading
<1> QED
  BY <1>1, <1>3, <1>4, <1>5, <1>6, CountHolds

\* A write that fails midway is remembered as cut short.
LEMMA WriteFileFailsHolds ==
    ASSUME SyncInv, NEW h \in DOMAIN items, WriteFileFails(h)
    PROVE  TaskStep(h)
<1>1. /\ syncStep = "work" /\ items[h].stage = "writing" /\ UNCHANGED callVars
      /\ dest' = dest /\ uploads' = uploads /\ check_cache' = check_cache /\ Goes(h, "failed")
      /\ past' = [past EXCEPT !.partial = @ \cup {h}, !.fault = TRUE]
  BY DEF WriteFileFails, At
<1>2. ShapeInv /\ ObjectInv(h)
  BY Zenon DEF SyncInv, ObjectsInv
<1>3. /\ PastGrows(h) /\ h \in past'.partial /\ past'.fault
      /\ past'.trusted = past.trusted /\ past'.left = past.left
  BY <1>1, <1>2 DEF PastGrows, ShapeInv
<1>4. TaskSteps(h) /\ TallyFollows(h)
  BY <1>1, <1>2, MoveSteps, SMTT(30)
<1>5. OthersStay(h)
  BY <1>1 DEF OthersStay
<1>6. CacheFollows
  BY <1>1, <1>3, CacheRecords DEF callVars
<1>7. /\ items'[h].stage = "failed" /\ items'[h].est = items[h].est
      /\ DOMAIN items' = DOMAIN items /\ sync' = sync
  BY <1>1, <1>2, GoesIs, SMTT(30) DEF callVars
<1>8. Excused(h)'
  BY <1>3, Zenon DEF Excused
<1>9. HistoryInv(h)'
  BY <1>2, <1>7, <1>8 DEF ObjectInv, HistoryInv
<1>10. ~Uploading(h) /\ ~Uploading(h)'
  BY <1>1, <1>7 DEF Uploading
<1>11. h \in DOMAIN uploads' => h \in past'.left
  BY <1>1, <1>3, <1>10, LeftIs
<1>12. ObjectInv(h)'
  BY <1>3, <1>9, <1>10, <1>11, Zenon DEF ObjectInv
<1> QED
  BY <1>3, <1>4, <1>5, <1>6, <1>12 DEF TaskStep

-----------------------------------------------------------------------------
(* Multipart uploads. *)

\* What the manifests say of an object that has a task.
LEMMA SizeIs ==
    ASSUME SyncInv, NEW h \in DOMAIN items
    PROVE  /\ h.digest \in Seq(STRING) /\ SourceSize(h) \in Nat /\ items[h].est \in Nat
           /\ SourceSize(h) <= items[h].est
           /\ sync.from = "s3" /\ sync.to = "s3" =>
                /\ items[h].est <= S3_MAX_MULTIPART_PARTS * SyncPartSize
                /\ items[h].est <= S3_MAX_MULTIPART_PARTS * S3_MAX_PART_SIZE
<1>1. sync \in Syncs /\ <<h, items[h].est>> \in Sizes(sync)
  BY Zenon DEF SyncInv, ShapeInv, ObjectsInv, ObjectInv, HistoryInv
<1>2. PICK e : e = <<h, items[h].est>> /\ e \in Sizes(sync)
  BY <1>1
<1>3. e[1] = h /\ e[2] = items[h].est
  BY <1>2
<1>4. /\ e[1].digest \in Seq(STRING) /\ e[2] \in Nat /\ Len(e[1].digest) <= e[2]
      /\ sync.from = "s3" /\ sync.to = "s3" =>
            /\ e[2] <= S3_MAX_MULTIPART_PARTS * SyncPartSize
            /\ e[2] <= S3_MAX_MULTIPART_PARTS * S3_MAX_PART_SIZE
  BY <1>1, <1>2, SyncAssumption
<1>5. Len(h.digest) \in Nat
  BY <1>3, <1>4, LenProperties
<1> QED
  BY <1>3, <1>4, <1>5 DEF SourceSize

\* A part has bytes, as many as S3 asks for.
LEMMA PartSizeIs == SyncPartSize \in Nat \ {0} /\ S3_MIN_PART_SIZE <= SyncPartSize
BY SyncAssumption

\* The parts of a server-side copy are ones S3 accepts.
LEMMA CopyAccepted ==
    ASSUME SyncInv, NEW h \in DOMAIN items, items[h].stage = "copying"
    PROVE  /\ effective_part_size(The(sync.config), SourceSize(h)) \in Nat \ {0}
           /\ S3Accepts(items[h].ranges)
<1>1. PartsInv(h)
  BY DEF SyncInv, ObjectsInv, ObjectInv, Uploading
<1>2. /\ sync.from = "s3" /\ sync.to = "s3" /\ sync.config # {}
      /\ items[h].ranges =
             Slices(SourceSize(h), effective_part_size(The(sync.config), SourceSize(h)))
  BY <1>1 DEF PartsInv
<1>3. The(sync.config) \in sync.config
  BY <1>2, Zenon DEF The
<1>4. The(sync.config).part_size \in Nat
  BY <1>3, SyncAssumption DEF SyncInv, ShapeInv
<1>5. /\ SourceSize(h) \in Nat
      /\ SourceSize(h) <= S3_MAX_MULTIPART_PARTS * S3_MAX_PART_SIZE
  <2>1. /\ SourceSize(h) \in Nat /\ items[h].est \in Nat /\ SourceSize(h) <= items[h].est
        /\ items[h].est <= S3_MAX_MULTIPART_PARTS * S3_MAX_PART_SIZE
    BY <1>2, SizeIs
  <2>2. S3_MAX_MULTIPART_PARTS * S3_MAX_PART_SIZE \in Nat
    BY SyncAssumption
  <2> QED
    BY <2>1, <2>2
<1> QED
  BY <1>2, <1>4, <1>5, EffectivePartSize

\* The parts of a transfer are ones S3 accepts, too.
LEMMA SendAccepted ==
    ASSUME SyncInv, NEW h \in DOMAIN items, items[h].stage = "sending"
    PROVE  S3Accepts(items[h].ranges)
<1>1. InParts(h) /\ items[h].ranges = Slices(items[h].est, SyncPartSize)
  BY DEF SyncInv, ObjectsInv, ObjectInv, Uploading, PartsInv
<1>2. items[h].est \in Nat /\ items[h].est <= S3_MAX_MULTIPART_PARTS * SyncPartSize
  BY <1>1, SizeIs DEF InParts
<1> QED
  BY <1>1, <1>2, PartSizeIs, PiecesAccepted, SMTT(30)

\* A part that starts beyond the object was cut from too large an estimate.
LEMMA BeyondIsOver ==
    ASSUME SyncInv, NEW h \in DOMAIN items, items[h].stage = "sending",
           NEW i \in DOMAIN items[h].ranges, ~(items[h].ranges[i][1] < SourceSize(h))
    PROVE  InParts(h) /\ Overestimated(h)
<1> DEFINE n == SyncPartSize
           e == items[h].est
           l == SourceSize(h)
<1>1. InParts(h) /\ items[h].ranges = Slices(e, n)
  BY DEF SyncInv, ObjectsInv, ObjectInv, Uploading, PartsInv
<1>2. n \in Nat \ {0} /\ e \in Nat /\ l \in Nat
  BY PartSizeIs, SizeIs
<1> HIDE DEF n, e, l
<1>3. /\ CeilDiv(e, n) \in Nat /\ i \in 1..CeilDiv(e, n)
      /\ Slices(e, n)[i][1] = (i - 1) * n
  BY <1>1, <1>2, SlicesAre, Zenon
<1>4. i - 1 \in Nat /\ i <= CeilDiv(e, n) /\ (i - 1) * n \in Nat
  BY <1>2, <1>3
<1>5. l <= (i - 1) * n
  BY <1>1, <1>2, <1>3, <1>4 DEF l
<1>6. CeilDiv(l, n) \in Nat /\ CeilDiv(l, n) <= i - 1
  BY <1>2, <1>4, <1>5, CeilDivIs, SMTT(30)
<1>7. CeilDiv(e, n) > CeilDiv(l, n)
  BY <1>3, <1>4, <1>6
<1> QED
  BY <1>1, <1>7, SMTT(30) DEF Overestimated, n, e, l

\* When no part is missing and none failed, they make up the object.
LEMMA PartsAreObject ==
    ASSUME SyncInv, NEW h \in DOMAIN items, Uploading(h),
           items[h].pending = {}, ~items[h].failed
    PROVE  Assembled([i \in DOMAIN items[h].ranges |->
                (CHOOSE p \in uploads[h] : p[1] = i)[2]]) = h.digest
<1> DEFINE R == items[h].ranges
           l == SourceSize(h)
           b == h.digest
           parts == [i \in DOMAIN R |-> (CHOOSE p \in uploads[h] : p[1] = i)[2]]
<1>1. PartsInv(h)
  BY Zenon DEF SyncInv, ObjectsInv, ObjectInv
<1>2. b \in Seq(STRING) /\ l \in Nat /\ l = Len(b) /\ items[h].est \in Nat /\ l <= items[h].est
  BY SizeIs, SMTT(30) DEF SourceSize
<1>3. \A k \in DOMAIN R : <<k, PartOf(h, R[k])>> \in uploads[h] /\ R[k][1] < l
  BY <1>1, SMTT(30) DEF PartsInv
<1>4. \A p \in uploads[h] : \E k \in DOMAIN R : p = <<k, PartOf(h, R[k])>>
  BY <1>1 DEF PartsInv
<1>5. ASSUME NEW k \in DOMAIN R PROVE parts[k] = PartOf(h, R[k])
  <2> DEFINE q == CHOOSE p \in uploads[h] : p[1] = k
  <2>1. \E p \in uploads[h] : p[1] = k
    <3>1. PICK p : p = <<k, PartOf(h, R[k])>>
      BY Zenon
    <3>2. p \in uploads[h] /\ p[1] = k
      BY <1>3, <3>1
    <3> QED
      BY <3>2
  <2>2. q \in uploads[h] /\ q[1] = k
    BY <2>1, Zenon
  <2>3. parts[k] = q[2]
    OBVIOUS
  <2> HIDE DEF q, parts
  <2>4. PICK j \in DOMAIN R : q = <<j, PartOf(h, R[j])>>
    BY <1>4, <2>2
  <2>5. j = k /\ q[2] = PartOf(h, R[j])
    BY <2>2, <2>4
  <2> QED
    BY <2>3, <2>5
<1>6. PICK n \in Nat \ {0}, m \in Nat : R = Slices(m, n) /\ l <= m /\ m > 0
  <2>1. CASE items[h].stage = "copying"
    <3>1. /\ R = Slices(l, effective_part_size(The(sync.config), l)) /\ l > 0
      BY <1>1, <2>1 DEF PartsInv
    <3>2. effective_part_size(The(sync.config), l) \in Nat \ {0}
      BY <2>1, CopyAccepted
    <3> QED
      BY <1>2, <3>1, <3>2, SMTT(30)
  <2>2. CASE items[h].stage = "sending"
    <3>1. R = Slices(items[h].est, SyncPartSize) /\ items[h].est >= 2 * SyncPartSize
      BY <1>1, <2>2 DEF PartsInv, InParts
    <3>2. SyncPartSize \in Nat \ {0} /\ items[h].est > 0
      BY <1>2, <3>1, PartSizeIs
    <3> QED
      BY <1>2, <3>1, <3>2, SMTT(30)
  <2> QED
    BY <2>1, <2>2 DEF Uploading
<1> DEFINE c == CeilDiv(m, n)
<1>7. /\ c \in Nat /\ DOMAIN R = 1..c
      /\ \A k \in 1..c : R[k][1] = (k - 1) * n /\ R[k][2] = EndOf(k, n, m)
  BY <1>6, SlicesAre, ZenonT(30)
<1>8. m <= c * n
  BY CeilDivIs
<1>9. /\ CeilDiv(l, n) \in Nat /\ l <= CeilDiv(l, n) * n
      /\ \A x \in Nat : l <= x * n => CeilDiv(l, n) <= x
  BY <1>2, CeilDivIs, Zenon
<1> HIDE DEF c, R, parts, l, b
<1>10. c # 0 /\ c - 1 \in Nat /\ c * n \in Nat
  BY <1>6, <1>7, <1>8
<1>11. c = CeilDiv(l, n)
  <2>1. CeilDiv(l, n) <= c
    BY <1>2, <1>6, <1>7, <1>8, <1>9, <1>10, SMTT(30)
  <2>2. (c - 1) * n < l
    <3>1. c \in 1..c /\ c \in DOMAIN R
      BY <1>7, <1>10
    <3>2. R[c][1] = (c - 1) * n
      BY <1>7, <3>1, Zenon
    <3>3. R[c][1] < l
      BY <1>3, <3>1, Zenon
    <3> QED
      BY <3>2, <3>3, Zenon
  <2>3. ASSUME CeilDiv(l, n) <= c - 1 PROVE FALSE
    <3>1. CeilDiv(l, n) * n <= (c - 1) * n
      BY <1>9, <1>10, <2>3, TimesGrows, SMTT(30)
    <3>2. CeilDiv(l, n) * n \in Nat /\ (c - 1) * n \in Nat
      BY <1>9, <1>10
    <3> QED
      BY <1>2, <1>9, <2>2, <3>1, <3>2, SMTT(30)
  <2> QED
    BY <1>7, <1>9, <2>1, <2>3
<1>12. ASSUME NEW k \in 1..c
       PROVE  parts[k] = SubSeq(b, (k - 1) * n + 1, EndOf(k, n, l))
  <2>1. Min({EndOf(k, n, m), l}) = EndOf(k, n, l)
    <3>1. k * n \in Nat
      BY <1>7
    <3>2. EndOf(k, n, m) \in Int /\ l \in Int
      BY <1>2, <3>1 DEF EndOf
    <3>3. Min({EndOf(k, n, m), l}) = IF EndOf(k, n, m) <= l THEN EndOf(k, n, m) ELSE l
      BY <3>2, LesserGreater, Zenon
    <3> QED
      BY <1>2, <1>6, <3>1, <3>3 DEF EndOf
  <2>2. parts[k] = SubSeq(b, R[k][1] + 1, Min({R[k][2], l}))
    BY <1>5, <1>7, Zenon DEF PartOf, b, l
  <2> QED
    BY <1>7, <2>1, <2>2, Zenon
<1>13. Len(parts) = c
  BY <1>7 DEF parts
<1>14. Assembled(parts) = b
  <2>1. /\ Len(parts) # 0 /\ Len(parts) = (Len(b) + n - 1) \div n
        /\ \A k \in 1..Len(parts) :
             parts[k] = SubSeq(b, (k - 1) * n + 1, EndOf(k, n, Len(b)))
    BY <1>2, <1>10, <1>11, <1>12, <1>13, SMTT(30) DEF CeilDiv
  <2> QED
    BY <1>2, <2>1, PiecesJoin, Zenon
<1> QED
  BY <1>14 DEF parts, b, R

\* An upload is opened: no part has arrived and all are pending.
LEMMA OpenHolds ==
    ASSUME SyncInv, NEW h \in DOMAIN items, syncStep = "work",
           items[h].stage \in {"copy", "transfer"},
           NEW st \in {"copying", "sending"}, NEW ranges, OpenUpload(h, st, ranges),
           st = "copying" =>
              /\ sync.from = "s3" /\ sync.to = "s3" /\ h \in sync.source
              /\ sync.config # {} /\ SourceSize(h) > 0
              /\ ranges = Slices(SourceSize(h),
                                 effective_part_size(The(sync.config), SourceSize(h))),
           st = "sending" => InParts(h) /\ ranges = Slices(items[h].est, SyncPartSize)
    PROVE  TaskStep(h)
<1>1. ShapeInv /\ ObjectInv(h)
  BY Zenon DEF SyncInv, ObjectsInv
<1>2. /\ sync' = sync /\ syncStep' = syncStep /\ syncHalt' = syncHalt /\ syncTally' = syncTally
      /\ dest' = dest /\ check_cache' = check_cache /\ past' = past
  BY DEF OpenUpload, callVars
<1>3. /\ DOMAIN uploads' = DOMAIN uploads \cup {h} /\ uploads'[h] = {}
      /\ \A g \in DOMAIN uploads : g # h => uploads'[g] = uploads[g]
  BY DEF OpenUpload
<1> DEFINE r == items[h]
           F == FALSE
           s == [r EXCEPT !.stage = st, !.ranges = ranges, !.pending = DOMAIN ranges,
                          !.failed = F]
<1>4. items' = [items EXCEPT ![h] = s]
  BY SMTT(30) DEF OpenUpload
<1>5. DOMAIN r = {"stage", "est", "ranges", "pending", "failed"}
  BY <1>1 DEF ShapeInv
<1> HIDE DEF F
<1>6. /\ DOMAIN s = DOMAIN r /\ s.stage = st /\ s.est = r.est /\ s.ranges = ranges
      /\ s.pending = DOMAIN ranges /\ s.failed = F
  BY <1>5
<1> HIDE DEF s
<1>7. /\ DOMAIN items' = DOMAIN items /\ \A g \in DOMAIN items : g # h => items'[g] = items[g]
      /\ items'[h] = s
  BY <1>4, SMTT(30)
<1>8. TaskSteps(h)
  BY <1>2, <1>6, <1>7, SMTT(30) DEF TaskSteps
<1>9. TallyFollows(h)
  <2>1. syncTally.copied \in Nat /\ syncTally.skipped \in Nat
    BY <1>1, SMTT(30) DEF ShapeInv
  <2>2. /\ items'[h].stage \notin {"done", "skipped", "failed"}
        /\ items[h].stage \notin {"done", "skipped", "failed"}
    BY <1>6, <1>7, SMTT(30)
  <2> QED
    BY <1>2, <2>1, <2>2, SMTT(30) DEF TallyFollows
<1>10. OthersStay(h)
  BY <1>2, <1>3 DEF OthersStay
<1>11. PastGrows(h) /\ CacheFollows
  BY <1>2, PastSame, CacheRecords
<1>12. HistoryInv(h)'
  BY <1>1, <1>2, <1>6, <1>7, Zenon DEF ObjectInv, HistoryInv
<1>13. PartsInv(h)'
  <2>1. ~items'[h].failed
    BY <1>6, <1>7, SMTT(30) DEF F
  <2>2. /\ h \in DOMAIN uploads' /\ items'[h].pending \subseteq DOMAIN items'[h].ranges
        /\ DOMAIN items'[h].ranges \ items'[h].pending = {} /\ uploads'[h] = {}
    BY <1>3, <1>6, <1>7
  <2>3. st = "sending" => InParts(h)'
    BY <1>2, <1>6, <1>7, Zenon DEF InParts
  <2>4. items'[h].stage = "copying" =>
            /\ sync'.from = "s3" /\ sync'.to = "s3" /\ h \in sync'.source
            /\ sync'.config # {} /\ SourceSize(h) > 0
            /\ items'[h].ranges =
                 Slices(SourceSize(h), effective_part_size(The(sync'.config), SourceSize(h)))
    BY <1>2, <1>6, <1>7, Zenon
  <2>5. items'[h].stage = "sending" =>
            InParts(h)' /\ items'[h].ranges = Slices(items'[h].est, SyncPartSize)
    BY <1>6, <1>7, <2>3, ZenonT(30)
  <2> QED
    BY <2>1, <2>2, <2>4, <2>5, Zenon DEF PartsInv
<1>14. Uploading(h)'
  BY <1>6, <1>7, SMTT(30) DEF Uploading
<1>15. h \in DOMAIN dest => dest[h] = h.digest \/ h \in past.partial
  BY StoredIs
<1>16. ObjectInv(h)'
  BY <1>2, <1>7, <1>12, <1>13, <1>14, <1>15, ZenonT(30) DEF ObjectInv
<1> QED
  BY <1>8, <1>9, <1>10, <1>11, <1>16 DEF TaskStep

\* A server-side copy by parts is of an object that has bytes.
LEMMA MultipartCopyHolds ==
    ASSUME SyncInv, NEW h \in DOMAIN items, multipart_copy(h)
    PROVE  TaskStep(h)
<1>1. /\ syncStep = "work" /\ items[h].stage = "copy"
      /\ sync.from = "s3" /\ sync.to = "s3" /\ h \in sync.source
      /\ OpenUpload(h, "copying",
            Slices(SourceSize(h), effective_part_size(The(sync.config), SourceSize(h))))
  BY SMTT(30) DEF multipart_copy, At
<1>2. PICK cfg \in sync.config : SourceSize(h) > effective_threshold(cfg)
  BY DEF multipart_copy, CopiesInParts
<1>3. effective_threshold(cfg) \in Nat
  <2>1. PICK t \in Nat : t = cfg.multipart_threshold
    BY <1>2, SyncAssumption, SMTT(30) DEF SyncInv, ShapeInv
  <2>2. t \in Int /\ S3_MAX_SINGLE_COPY_BYTES \in Int /\ S3_MAX_SINGLE_COPY_BYTES \in Nat
    <3>1. S3_MAX_SINGLE_COPY_BYTES \in Nat
      BY SyncAssumption, Zenon
    <3> QED
      BY <3>1, SMTT(30)
  <2>3. Min({t, S3_MAX_SINGLE_COPY_BYTES}) =
            IF t <= S3_MAX_SINGLE_COPY_BYTES THEN t ELSE S3_MAX_SINGLE_COPY_BYTES
    BY <2>2, LesserGreater, Zenon
  <2> QED
    BY <2>1, <2>2, <2>3, SMTT(30) DEF effective_threshold
<1>4. SourceSize(h) > 0
  BY <1>2, <1>3, SizeIs
<1> QED
  BY <1>1, <1>2, <1>4, OpenHolds, SMTT(30)

\* A transfer by parts cuts the object as its estimate says.
LEMMA MultipartTransferHolds ==
    ASSUME SyncInv, NEW h \in DOMAIN items, transfer_object_multipart(h)
    PROVE  TaskStep(h)
<1>1. /\ syncStep = "work" /\ items[h].stage = "transfer" /\ InParts(h)
      /\ OpenUpload(h, "sending", Slices(items[h].est, SyncPartSize))
  BY DEF transfer_object_multipart, At
<1> QED
  BY <1>1, OpenHolds

\* A part arrives, or its request fails and the task has an excuse.
LEMMA SendPartHolds ==
    ASSUME SyncInv, NEW h \in DOMAIN items, NEW answers \in BOOLEAN,
           NEW i \in items[h].pending, SendPart(h, i, answers)
    PROVE  TaskStep(h)
<1> DEFINE r == items[h]
           R == r.ranges
           data == IF answers THEN GetRange(h, R[i]) ELSE {}
<1>1. ShapeInv /\ ObjectInv(h)
  BY Zenon DEF SyncInv, ObjectsInv
<1>2. /\ syncStep = "work" /\ r.stage \in {"copying", "sending"}
      /\ dest' = dest /\ check_cache' = check_cache /\ UNCHANGED callVars
  BY Zenon DEF SendPart
<1>3. sync' = sync /\ syncStep' = syncStep /\ syncHalt' = syncHalt /\ syncTally' = syncTally
  BY <1>2 DEF callVars
<1>4. PartsInv(h) /\ Uploading(h) /\ HistoryInv(h)
  BY <1>1, <1>2 DEF ObjectInv, Uploading
<1>5. i \in DOMAIN R /\ h \in DOMAIN uploads
  BY <1>4, Zenon DEF PartsInv
<1>6. \/ data = {PartOf(h, R[i])} /\ R[i][1] < SourceSize(h)
      \/ data = {} /\ (~answers \/ h \notin sync.source \/ ~(R[i][1] < SourceSize(h)))
  BY Zenon DEF GetRange, PartOf
<1>7. PICK pend, fails :
         /\ items' = [items EXCEPT ![h] = [r EXCEPT !.pending = pend, !.failed = fails]]
         /\ pend = {} \/ pend = r.pending \ {i}
         /\ data # {} => pend = r.pending \ {i}
         /\ fails <=> (r.failed \/ data = {})
  <2> DEFINE x == IF data = {} /\ r.stage = "sending" THEN {} ELSE r.pending \ {i}
             y == r.failed \/ data = {}
  <2>1. items' = [items EXCEPT ![h] = [r EXCEPT !.pending = x, !.failed = y]]
    BY Zenon DEF SendPart
  <2>2. (x = {} \/ x = r.pending \ {i}) /\ (data # {} => x = r.pending \ {i})
    BY Zenon
  <2>3. y <=> (r.failed \/ data = {})
    OBVIOUS
  <2> HIDE DEF x, y, data
  <2> QED
    BY <2>1, <2>2, <2>3, Zenon
<1>8. /\ DOMAIN uploads' = DOMAIN uploads /\ uploads'[h] = uploads[h] \cup {<<i, d>> : d \in data}
      /\ \A g \in DOMAIN uploads : g # h => uploads'[g] = uploads[g]
  <2>1. uploads' = [uploads EXCEPT ![h] = uploads[h] \cup {<<i, d>> : d \in data}]
    BY Zenon DEF SendPart
  <2> HIDE DEF data
  <2> QED
    BY <1>5, <2>1
<1>9. /\ PastGrows(h) /\ past'.trusted = past.trusted /\ past'.partial = past.partial
      /\ past'.left = past.left /\ (~answers => past'.fault)
  <2> DEFINE y == past.fault \/ ~answers
  <2>1. past' = [past EXCEPT !.fault = y]
    BY Zenon DEF SendPart
  <2>2. (past.fault => y) /\ (~answers => y)
    OBVIOUS
  <2>3. DOMAIN past = {"seen", "trusted", "partial", "left", "fault"}
    BY <1>1 DEF ShapeInv
  <2> HIDE DEF y
  <2> QED
    BY <2>1, <2>2, <2>3 DEF PastGrows
<1> HIDE DEF data
<1> DEFINE q == [r EXCEPT !.pending = pend]
           s == [q EXCEPT !.failed = fails]
<1>10. items' = [items EXCEPT ![h] = s]
  BY <1>7
<1>11. DOMAIN r = {"stage", "est", "ranges", "pending", "failed"}
  BY <1>1 DEF ShapeInv
<1>12. /\ DOMAIN q = DOMAIN r /\ q.stage = r.stage /\ q.est = r.est /\ q.ranges = R
       /\ q.pending = pend
  BY <1>11
<1> HIDE DEF q
<1>13. /\ DOMAIN s = DOMAIN r /\ s.stage = r.stage /\ s.est = r.est /\ s.ranges = R
       /\ s.pending = pend /\ s.failed = fails
  BY <1>11, <1>12
<1> HIDE DEF s
<1>14. /\ DOMAIN items' = DOMAIN items /\ \A g \in DOMAIN items : g # h => items'[g] = items[g]
       /\ items'[h] = s
  BY <1>10
<1>15. TaskSteps(h)
  BY <1>2, <1>3, <1>13, <1>14, SMTT(30) DEF TaskSteps
<1>16. TallyFollows(h)
  <2>1. syncTally.copied \in Nat /\ syncTally.skipped \in Nat
    BY <1>1 DEF ShapeInv
  <2>2. /\ items'[h].stage \notin {"done", "skipped", "failed"}
        /\ items[h].stage \notin {"done", "skipped", "failed"}
    BY <1>2, <1>13, <1>14, SMTT(30)
  <2> QED
    BY <1>3, <2>1, <2>2, SMTT(30) DEF TallyFollows
<1>17. OthersStay(h)
  BY <1>2, <1>8, SMTT(30) DEF OthersStay
<1>18. CacheFollows
  BY <1>2, <1>3, <1>9, CacheRecords
<1>19. HistoryInv(h)'
  BY <1>2, <1>3, <1>4, <1>13, <1>14, Zenon DEF HistoryInv
<1>20. r.stage = "sending" /\ fails => Excused(h)'
  <2>1. ASSUME Excused(h) PROVE Excused(h)'
    BY <1>3, <1>9, <1>13, <1>14, <2>1, Zenon DEF Excused, InParts, Overestimated, PastGrows
  <2>2. ASSUME r.stage = "sending", r.failed PROVE Excused(h)
    BY <1>4, <2>2, Zenon DEF PartsInv
  <2>3. ASSUME r.stage = "sending", data = {}, answers PROVE Excused(h)
    <3>1. data # {PartOf(h, R[i])}
      BY <2>3
    <3>2. h \notin sync.source \/ ~(R[i][1] < SourceSize(h))
      BY <1>6, <2>3, <3>1, Zenon
    <3>3. ~(R[i][1] < SourceSize(h)) => InParts(h) /\ Overestimated(h)
      BY <1>5, <2>3, BeyondIsOver
    <3> QED
      BY <3>2, <3>3, Zenon DEF Excused
  <2>4. ~answers => Excused(h)'
    BY <1>9, Zenon DEF Excused
  <2> QED
    BY <1>7, <2>1, <2>2, <2>3, <2>4, Zenon
<1>21. PartsInv(h)'
  <2>1. pend \subseteq DOMAIN R
    BY <1>4, <1>7, SMTT(30) DEF PartsInv
  <2>2. \A p \in uploads'[h] : \E k \in DOMAIN R : p = <<k, PartOf(h, R[k])>>
    <3>1. \A p \in uploads[h] : \E k \in DOMAIN R : p = <<k, PartOf(h, R[k])>>
      BY <1>4, Zenon DEF PartsInv
    <3>2. \A d \in data : d = PartOf(h, R[i])
      BY <1>6, SMTT(30)
    <3> QED
      BY <1>5, <1>8, <3>1, <3>2, SMTT(30)
  <2>3. ASSUME ~fails, NEW k \in DOMAIN R \ pend
        PROVE  <<k, PartOf(h, R[k])>> \in uploads'[h] /\ R[k][1] < SourceSize(h)
    <3>1. ~r.failed /\ data # {} /\ pend = r.pending \ {i}
      BY <1>7, <2>3, Zenon
    <3>2. data = {PartOf(h, R[i])} /\ R[i][1] < SourceSize(h)
      BY <1>6, <3>1, Zenon
    <3>3. CASE k = i
      <4>1. PartOf(h, R[i]) \in data
        BY <3>2, SMTT(30)
      <4> QED
        BY <1>8, <3>2, <3>3, <4>1, SMTT(30)
    <3>4. CASE k # i
      <4>1. k \in DOMAIN R \ r.pending
        BY <2>3, <3>1, <3>4
      <4>2. <<k, PartOf(h, R[k])>> \in uploads[h] /\ R[k][1] < SourceSize(h)
        BY <1>4, <3>1, <4>1, Zenon DEF PartsInv
      <4> QED
        BY <1>8, <4>2
    <3> QED
      BY <3>3, <3>4
  <2>4. InParts(h) => InParts(h)'
    BY <1>3, <1>13, <1>14, Zenon DEF InParts
  <2>5. items'[h].stage = "copying" =>
            /\ sync'.from = "s3" /\ sync'.to = "s3" /\ h \in sync'.source
            /\ sync'.config # {} /\ SourceSize(h) > 0
            /\ items'[h].ranges =
                 Slices(SourceSize(h), effective_part_size(The(sync'.config), SourceSize(h)))
    BY <1>3, <1>4, <1>13, <1>14, Zenon DEF PartsInv
  <2>6. items'[h].stage = "sending" =>
            /\ InParts(h)' /\ items'[h].ranges = Slices(items'[h].est, SyncPartSize)
            /\ items'[h].failed => Excused(h)'
    BY <1>4, <1>13, <1>14, <1>20, <2>4, Zenon DEF PartsInv
  <2>7. h \in DOMAIN uploads'
    BY <1>5, <1>8, SMTT(30)
  <2>8. /\ items'[h].ranges = R /\ items'[h].pending = pend /\ items'[h].failed = fails
    BY <1>13, <1>14, SMTT(30)
  <2> QED
    BY <2>1, <2>2, <2>3, <2>5, <2>6, <2>7, <2>8, Zenon DEF PartsInv
<1>22. Uploading(h)'
  BY <1>2, <1>13, <1>14, SMTT(30) DEF Uploading
<1>23. h \in DOMAIN dest => dest[h] = h.digest \/ h \in past.partial
  BY <1>2, StoredIs
<1>24. ObjectInv(h)'
  BY <1>2, <1>9, <1>14, <1>19, <1>21, <1>22, <1>23, Zenon DEF ObjectInv
<1> QED
  BY <1>9, <1>15, <1>16, <1>17, <1>18, <1>24 DEF TaskStep

\* An upload that did not succeed: a copy is tried as a transfer, a transfer
\* fails and has an excuse.
LEMMA AfterUploadHolds ==
    ASSUME SyncInv, NEW h \in DOMAIN items, syncStep = "work", Uploading(h), AfterUpload(h),
           UNCHANGED callVars, dest' = dest, check_cache' = check_cache,
           PastGrows(h), past'.trusted = past.trusted, past'.partial = past.partial,
           OthersStay(h), h \in DOMAIN uploads' => h \in past'.left,
           items[h].stage = "sending" => past'.fault \/ Excused(h)
    PROVE  TaskStep(h)
<1>1. ShapeInv /\ ObjectInv(h)
  BY Zenon DEF SyncInv, ObjectsInv
<1>2. sync' = sync /\ syncStep' = syncStep /\ syncHalt' = syncHalt
  BY SMTT(30) DEF callVars
<1>3. PICK st : Goes(h, st) /\ (st = "transfer" \/ (st = "failed" /\ items[h].stage = "sending"))
  BY SMTT(30) DEF AfterUpload, Uploading
<1>4. items[h].stage \in {"copying", "sending"}
  BY SMTT(30) DEF Uploading
<1>5. TaskSteps(h) /\ TallyFollows(h)
  BY <1>1, <1>3, <1>4, MoveSteps, SMTT(30)
<1>6. items'[h].stage = st /\ items'[h].est = items[h].est /\ DOMAIN items' = DOMAIN items
  BY <1>1, <1>3, GoesIs
<1>7. CacheFollows
  BY <1>2, CacheRecords
<1>8. st = "failed" => Excused(h)'
  <2>1. Excused(h) => Excused(h)'
    BY <1>2, <1>6, Zenon DEF Excused, InParts, Overestimated, PastGrows
  <2>2. past'.fault => Excused(h)'
    BY Zenon DEF Excused
  <2> QED
    BY <1>3, <2>1, <2>2, Zenon
<1>9. HistoryInv(h)'
  BY <1>1, <1>2, <1>3, <1>6, <1>8, Zenon DEF ObjectInv, HistoryInv
<1>10. ~Uploading(h)'
  BY <1>3, <1>6 DEF Uploading
<1>11. h \in DOMAIN dest => dest[h] = h.digest \/ h \in past.partial
  BY <1>4, StoredIs
<1>12. ObjectInv(h)'
  BY <1>9, <1>10, <1>11, Zenon DEF ObjectInv
<1> QED
  BY <1>5, <1>7, <1>12 DEF TaskStep

\* CompleteMultipartUpload puts the object, or leaves the upload open.
LEMMA CompleteUploadHolds ==
    ASSUME SyncInv, NEW h \in DOMAIN items, NEW answers \in BOOLEAN, NEW goes_on \in BOOLEAN,
           CompleteUpload(h, answers, goes_on)
    PROVE  TaskStep(h)
<1> DEFINE bytes == Assembled([i \in DOMAIN items[h].ranges |->
                        (CHOOSE p \in uploads[h] : p[1] = i)[2]])
           done  == answers /\ S3Accepts(items[h].ranges)
<1>1. /\ syncStep = "work" /\ items[h].stage \in {"copying", "sending"}
      /\ items[h].pending = {} /\ ~items[h].failed
  BY Zenon DEF CompleteUpload
<1>2. Uploading(h)
  BY <1>1 DEF Uploading
<1>3. bytes = h.digest
  BY <1>1, <1>2, PartsAreObject, Zenon
<1>4. \/ /\ dest' = StoredAt(h, bytes) /\ uploads' = WithoutUpload(h)
         /\ check_cache' = record_in_check_cache(h)
         /\ Seeing(h) /\ Counted(h, "copied", "done", goes_on)
      \/ /\ ~done /\ AfterUpload(h) /\ UNCHANGED <<callVars, dest, uploads, check_cache>>
         /\ past' = [past EXCEPT !.left = @ \cup {h}, !.fault = @ \/ ~answers]
  BY Zenon DEF CompleteUpload
<1> HIDE DEF bytes
<1>5. CASE /\ dest' = StoredAt(h, bytes) /\ uploads' = WithoutUpload(h)
           /\ check_cache' = record_in_check_cache(h)
           /\ Seeing(h) /\ Counted(h, "copied", "done", goes_on)
  <2>1. PastGrows(h) /\ h \in past'.seen /\ past'.trusted = past.trusted
    BY <1>5, PastSees, SMTT(30) DEF SyncInv
  <2>2. OthersStay(h) /\ dest'[h] = h.digest /\ h \notin DOMAIN uploads'
    BY <1>3, <1>5, SMTT(30) DEF OthersStay, StoredAt, WithoutUpload
  <2>3. CacheFollows
    BY <1>5, <2>1, CacheRecords, SMTT(30) DEF Counted
  <2> QED
    BY <1>1, <1>5, <2>1, <2>2, <2>3, CountHolds, SMTT(30)
<1>6. CASE /\ ~done /\ AfterUpload(h) /\ UNCHANGED <<callVars, dest, uploads, check_cache>>
           /\ past' = [past EXCEPT !.left = @ \cup {h}, !.fault = @ \/ ~answers]
  <2>1. /\ PastGrows(h) /\ past'.trusted = past.trusted /\ past'.partial = past.partial
        /\ h \in past'.left /\ (~answers => past'.fault)
    <3> DEFINE y == past.fault \/ ~answers
    <3>1. past' = [past EXCEPT !.left = @ \cup {h}, !.fault = y]
      BY <1>6
    <3>2. (past.fault => y) /\ (~answers => y)
      OBVIOUS
    <3>3. DOMAIN past = {"seen", "trusted", "partial", "left", "fault"}
      BY DEF SyncInv, ShapeInv
    <3> HIDE DEF y
    <3> QED
      BY <3>1, <3>2, <3>3 DEF PastGrows
  <2>2. OthersStay(h)
    BY <1>6 DEF OthersStay
  <2>3. items[h].stage = "sending" => past'.fault
    BY <1>6, <2>1, SendAccepted, ZenonT(30)
  <2> QED
    BY <1>1, <1>2, <1>6, <2>1, <2>2, <2>3, AfterUploadHolds, SMTT(30)
<1> QED
  BY <1>4, <1>5, <1>6, Zenon

\* AbortMultipartUpload closes the upload, or leaves it open.
LEMMA AbortHolds ==
    ASSUME SyncInv, NEW h \in DOMAIN items, NEW answers \in BOOLEAN, Abort(h, answers)
    PROVE  TaskStep(h)
<1>1. /\ syncStep = "work" /\ items[h].stage \in {"copying", "sending"} /\ items[h].failed
      /\ AfterUpload(h) /\ UNCHANGED callVars /\ dest' = dest /\ check_cache' = check_cache
  BY DEF Abort
<1>2. Uploading(h)
  BY <1>1 DEF Uploading
<1>3. items[h].stage = "sending" => Excused(h)
  BY <1>1, <1>2, ZenonT(30) DEF SyncInv, ObjectsInv, ObjectInv, PartsInv
<1>4. DOMAIN past = {"seen", "trusted", "partial", "left", "fault"}
  BY DEF SyncInv, ShapeInv
<1>5. /\ PastGrows(h) /\ past'.trusted = past.trusted /\ past'.partial = past.partial
      /\ OthersStay(h) /\ (h \in DOMAIN uploads' => h \in past'.left)
  <2>1. CASE answers
    <3>1. uploads' = WithoutUpload(h) /\ past' = past
      BY <2>1 DEF Abort
    <3> QED
      BY <1>1, <3>1, PastSame DEF WithoutUpload, OthersStay
  <2>2. CASE ~answers
    <3>1. uploads' = uploads /\ past' = [past EXCEPT !.left = @ \cup {h}]
      BY <2>2 DEF Abort
    <3> QED
      BY <1>1, <1>4, <3>1 DEF PastGrows, OthersStay
  <2> QED
    BY <2>1, <2>2, SMTT(30)
<1> QED
  BY <1>1, <1>2, <1>3, <1>5, AfterUploadHolds, SMTT(30)

\* Every step of a task.
LEMMA ItemStepHolds ==
    ASSUME SyncInv, NEW h \in DOMAIN items, ItemStep(h)
    PROVE  SyncInv'
<1>1. TaskStep(h)
  BY StartItemHolds, NoServerCopyHolds, MultipartCopyHolds, MultipartTransferHolds,
     CreateFailsHolds, SkipTrustedHolds, FileExistsHolds, WriteFileEndsHolds,
     WriteFileFailsHolds,
     AskCheckCacheHolds, WriteFileHolds, AbortHolds, SendPartHolds, HeadObjectHolds,
     CopyObjectHolds, PutWholeHolds, CompleteUploadHolds, Zenon
     DEF ItemStep
<1> QED
  BY <1>1, TaskHolds

-----------------------------------------------------------------------------
(* The steps of a call. *)

\* A call begins with one task per object, none of them finished.
LEMMA BeginSyncHolds == ASSUME SyncInv, BeginSync PROVE SyncInv'
<1>1. PICK est \in WorkItems :
         /\ items' = [h \in DOMAIN est |-> NewItem(est[h])]
         /\ syncTally' = [total |-> Cardinality(DOMAIN est), copied |-> 0, skipped |-> 0]
  BY Zenon DEF BeginSync
<1>2. /\ syncStep = "begin" /\ syncStep' = "work" /\ sync' = sync
      /\ dest' = dest /\ uploads' = uploads /\ check_cache' = check_cache
      /\ past' = [NewPast EXCEPT !.partial = past.partial, !.left = past.left]
  BY DEF BeginSync
<1>3. ShapeInv /\ ObjectsInv /\ DOMAIN items = {}
  BY <1>2 DEF SyncInv, ShapeInv
<1>4. /\ DOMAIN est = {e[1] : e \in Sizes(sync)}
      /\ \A h \in DOMAIN est : <<h, est[h]>> \in Sizes(sync)
  BY <1>1 DEF WorkItems
<1>5. IsFiniteSet(DOMAIN est)
  <2>1. IsFiniteSet(Sizes(sync))
    BY <1>3, SyncAssumption DEF ShapeInv
  <2> DEFINE f == [e \in Sizes(sync) |-> e[1]]
             T == {e[1] : e \in Sizes(sync)}
  <2>2. f \in [Sizes(sync) -> T]
    OBVIOUS
  <2>3. f \in Surjection(Sizes(sync), T)
    BY <2>2 DEF Surjection
  <2> HIDE DEF f, T
  <2>4. IsFiniteSet(T)
    BY <2>1, <2>3, FS_Surjection, Zenon
  <2> QED
    BY <1>4, <2>4, Zenon DEF T
<1>6. /\ DOMAIN past' = {"seen", "trusted", "partial", "left", "fault"}
      /\ past'.trusted = {} /\ past'.partial = past.partial /\ past'.left = past.left
  BY <1>2 DEF NewPast
<1>7. /\ DOMAIN items' = DOMAIN est
      /\ \A h \in DOMAIN est :
            /\ DOMAIN items'[h] = {"stage", "est", "ranges", "pending", "failed"}
            /\ items'[h].stage = "queued" /\ items'[h].est = est[h]
  BY <1>1 DEF NewItem
<1>8. /\ DOMAIN syncTally' = {"total", "copied", "skipped"}
      /\ syncTally'.total = Cardinality(DOMAIN est)
      /\ syncTally'.copied = 0 /\ syncTally'.skipped = 0
  BY <1>1
<1>9. ShapeInv'
  BY <1>2, <1>3, <1>6, <1>7, <1>8 DEF ShapeInv
<1>10. ASSUME NEW h, h \in (DOMAIN items \cup DOMAIN dest \cup DOMAIN uploads)'
       PROVE  ObjectInv(h)'
  <2>1. h \in DOMAIN items' => HistoryInv(h)' /\ ~Uploading(h)'
    BY <1>2, <1>4, <1>7, SMTT(30) DEF HistoryInv, Uploading
  <2>2. /\ h \in DOMAIN dest => dest[h] = h.digest \/ h \in past.partial
        /\ h \in DOMAIN uploads => h \in past.left
    BY <1>3 DEF ObjectsInv, ObjectInv
  <2> QED
    BY <1>2, <1>6, <2>1, <2>2, Zenon DEF ObjectInv
<1>11. TrustInv'
  BY <1>6, SMTT(30) DEF TrustInv
<1>12. TallyInv'
  <2>1. Finished' = {}
    BY <1>7 DEF Finished
  <2>2. Cardinality(Finished') = 0
    BY <2>1, FS_EmptySet, Zenon
  <2> QED
    BY <1>5, <1>7, <1>8, <2>2, SMTT(30) DEF TallyInv
<1> QED
  BY <1>9, <1>10, <1>11, <1>12, Zenon DEF SyncInv, ObjectsInv

\* What is known of the objects stays true while the tasks rest.
LEMMA ObjectsRest ==
    ASSUME SyncInv, UNCHANGED <<sync, uploads, items, syncHalt, past>>,
           \A h \in DOMAIN dest' : h \in DOMAIN dest /\ dest'[h] = dest[h]
    PROVE  ObjectsInv'
<1>1. /\ sync' = sync /\ uploads' = uploads /\ items' = items
      /\ syncHalt' = syncHalt /\ past' = past
  OBVIOUS
<1> SUFFICES ASSUME NEW h, h \in (DOMAIN items \cup DOMAIN dest \cup DOMAIN uploads)'
             PROVE  ObjectInv(h)'
  BY Zenon DEF ObjectsInv
<1>2. ObjectInv(h) /\ (h \in DOMAIN dest' => h \in DOMAIN dest /\ dest'[h] = dest[h])
  BY <1>1 DEF SyncInv, ObjectsInv
<1>3. /\ Excused(h) => Excused(h)'
      /\ InParts(h) => InParts(h)'
      /\ Uploading(h) <=> Uploading(h)'
  <2>1. (syncHalt => syncHalt') /\ (past.fault => past'.fault)
    BY <1>1
  <2>2. Uploading(h) <=> Uploading(h)'
    BY <1>1 DEF Uploading
  <2>3. (InParts(h) <=> InParts(h)') /\ (Overestimated(h) <=> Overestimated(h)')
    BY <1>1 DEF InParts, Overestimated
  <2> QED
    BY <1>1, <2>1, <2>2, <2>3, Zenon DEF Excused
<1>4. HistoryInv(h) => HistoryInv(h)'
  BY <1>1, <1>3, Zenon DEF HistoryInv
<1>5. PartsInv(h) => PartsInv(h)'
  BY <1>1, <1>3, Zenon DEF PartsInv
<1> QED
  BY <1>1, <1>2, <1>3, <1>4, <1>5, Zenon DEF ObjectInv

\* A call ends once all its tasks have.
LEMMA EndSyncHolds == ASSUME SyncInv, EndSync PROVE SyncInv'
<1>1. /\ sync' = sync /\ dest' = dest /\ uploads' = uploads /\ check_cache' = check_cache
      /\ items' = items /\ syncHalt' = syncHalt /\ syncTally' = syncTally /\ past' = past
      /\ syncStep = "work"
      /\ \A h \in DOMAIN items : items[h].stage \in {"done", "skipped", "failed"}
  BY DEF EndSync
<1>2. \/ syncStep' = "err" /\ \E h \in DOMAIN items : items[h].stage = "failed"
      \/ syncStep' = "ok" /\ \A h \in DOMAIN items : items[h].stage # "failed"
  BY Zenon DEF EndSync
<1>3. ShapeInv'
  BY <1>1, <1>2 DEF SyncInv, ShapeInv
<1>4. ObjectsInv'
  BY <1>1, ObjectsRest, SMTT(30)
<1>5. TrustInv' /\ TallyInv'
  BY <1>1 DEF SyncInv, TrustInv, TallyInv, Finished
<1> QED
  BY <1>3, <1>4, <1>5 DEF SyncInv

\* The next process knows which files were half written and which uploads are open.
LEMMA SyncAgainHolds == ASSUME SyncInv, SyncAgain PROVE SyncInv'
<1> DEFINE writing == {h \in DOMAIN items : items[h].stage = "writing"}
<1>1. /\ syncStep' = "begin" /\ items' = <<>>
      /\ check_cache' = [check_cache EXCEPT !.hits = 0, !.invalidated = FALSE]
      /\ past' = [past EXCEPT !.partial = @ \cup writing, !.left = @ \cup DOMAIN uploads]
      /\ sync' = sync /\ dest' = dest /\ uploads' = uploads /\ syncTally' = syncTally
  BY DEF SyncAgain, Nothing
<1>2. ShapeInv /\ ObjectsInv
  BY DEF SyncInv
<1>3. DOMAIN items' = {}
  BY <1>1
<1>4. /\ DOMAIN past' = {"seen", "trusted", "partial", "left", "fault"}
      /\ past'.partial = past.partial \cup writing /\ past'.left = past.left \cup DOMAIN uploads
  BY <1>1, <1>2 DEF ShapeInv
<1>5. DOMAIN check_cache' = {"entries", "hits", "invalidated"} /\ check_cache'.hits = 0
  BY <1>1, <1>2 DEF ShapeInv
<1>6. ShapeInv'
  BY <1>1, <1>2, <1>3, <1>4, <1>5, SMTT(30) DEF ShapeInv
<1>7. ASSUME NEW h, h \in (DOMAIN items \cup DOMAIN dest \cup DOMAIN uploads)'
      PROVE  ObjectInv(h)'
  <2>1. /\ h \in DOMAIN dest => dest[h] = h.digest \/ h \in past.partial \cup writing
        /\ h \in DOMAIN uploads => h \in past.left \cup DOMAIN uploads
    BY <1>2 DEF ObjectsInv, ObjectInv
  <2> QED
    BY <1>1, <1>3, <1>4, <2>1, SMTT(30) DEF ObjectInv
<1>8. TrustInv' /\ TallyInv'
  BY <1>1 DEF TrustInv, TallyInv
<1> QED
  BY <1>6, <1>7, <1>8, Zenon DEF SyncInv, ObjectsInv

\* An object that vanishes is not there half written.
LEMMA LoseHolds == ASSUME SyncInv, NEW g \in DOMAIN dest, Lose(g) PROVE SyncInv'
<1>1. /\ sync' = sync /\ uploads' = uploads /\ check_cache' = check_cache /\ syncStep' = syncStep
      /\ items' = items /\ syncHalt' = syncHalt /\ syncTally' = syncTally /\ past' = past
      /\ DOMAIN dest' = DOMAIN dest \ {g} /\ \A h \in DOMAIN dest' : dest'[h] = dest[h]
  BY DEF Lose
<1>2. ObjectsInv'
  BY <1>1, ObjectsRest, SMTT(30)
<1>3. ShapeInv' /\ TrustInv' /\ TallyInv'
  BY <1>1 DEF SyncInv, ShapeInv, TrustInv, TallyInv, Finished
<1> QED
  BY <1>2, <1>3 DEF SyncInv

\* Nothing happens.
LEMMA SyncStutters == ASSUME SyncInv, UNCHANGED syncVars PROVE SyncInv'
<1>1. /\ sync' = sync /\ dest' = dest /\ uploads' = uploads /\ check_cache' = check_cache
      /\ syncStep' = syncStep /\ items' = items /\ syncHalt' = syncHalt
      /\ syncTally' = syncTally /\ past' = past
  BY DEF syncVars
<1>2. ObjectsInv'
  BY <1>1, ObjectsRest, SMTT(30)
<1>3. ShapeInv' /\ TrustInv' /\ TallyInv'
  BY <1>1, SMTT(30) DEF SyncInv, ShapeInv, TrustInv, TallyInv, Finished
<1> QED
  BY <1>2, <1>3 DEF SyncInv

\* Before the first call.
LEMMA SyncInitHolds == ASSUME SyncInit PROVE SyncInv
<1>1. /\ sync \in Syncs /\ dest = sync.dest /\ uploads = <<>> /\ items = <<>>
      /\ check_cache = [entries |-> sync.entries, hits |-> 0, invalidated |-> FALSE]
      /\ syncStep = "begin" /\ past = NewPast
      /\ syncTally = [total |-> 0, copied |-> 0, skipped |-> 0]
  BY DEF SyncInit, Nothing
<1>2. DOMAIN items = {} /\ DOMAIN uploads = {}
  BY <1>1, SMTT(30)
<1>3. \A h \in DOMAIN dest : dest[h] = h.digest
  BY <1>1, SyncAssumption, SMTT(30)
<1>4. ObjectsInv
  BY <1>2, <1>3, SMTT(30) DEF ObjectsInv, ObjectInv
<1>5. ShapeInv
  <2>1. DOMAIN past = {"seen", "trusted", "partial", "left", "fault"}
    BY <1>1, SMTT(30) DEF NewPast
  <2>2. DOMAIN check_cache = {"entries", "hits", "invalidated"} /\ check_cache.hits = 0
    BY <1>1
  <2>3. /\ DOMAIN syncTally = {"total", "copied", "skipped"}
        /\ syncTally.copied = 0 /\ syncTally.skipped = 0
    BY <1>1
  <2> QED
    BY <1>1, <1>2, <2>1, <2>2, <2>3, SMTT(30) DEF ShapeInv
<1> QED
  BY <1>1, <1>4, <1>5, SMTT(30) DEF SyncInv, TrustInv, TallyInv

\* In every state of a sync, whatever fails, is lost or is killed: the parts of
\* an upload are the object's bytes, what is stored is whole but for a file being
\* written or one whose direct write an error or a kill cut short, the check
\* cache is trusted only once verified, and the statistics count the finished
\* tasks (cache_sync.rs, data_cache.rs).
THEOREM SyncInvHolds == SyncSpec => []SyncInv
<1>1. SyncInit => SyncInv
  BY SyncInitHolds
<1>2. SyncInv /\ [SyncNext]_syncVars => SyncInv'
  BY BeginSyncHolds, ItemStepHolds, EndSyncHolds, SyncAgainHolds, LoseHolds, SyncStutters, Zenon
     DEF SyncNext
<1> QED
  BY <1>1, <1>2, PTL DEF SyncSpec

\* A sync that returns Ok found or put every object at the destination, or took
\* it as present on the word of a check cache it had verified, or because a file
\* of its name is there, be it one whose write was cut short; these are the only
\* torn objects.  One that returns Err has a reason, an upload left open is one
\* whose abort or completion failed, and the parts of a copy are ones S3 accepts
\* (cache_sync_manifest, transfer_object, copy_from).
THEOREM SyncsAreAlwaysSound == SyncSpec => []SyncsAreSound
<1>1. SyncInv => SyncsAreSound
  <2> SUFFICES ASSUME SyncInv PROVE SyncIsComplete /\ ObjectsStayWhole
    BY DEF SyncsAreSound
  <2>1. ASSUME syncStep = "ok"
        PROVE  /\ DOMAIN items \subseteq past.seen \cup past.trusted \cup past.partial
               /\ past.trusted # {} => VerifyFirst <= check_cache.hits /\ ~sync.forced
               /\ syncTally.copied + syncTally.skipped = syncTally.total
    <3>1. \A h \in DOMAIN items : items[h].stage \in {"done", "skipped"}
      BY <2>1 DEF SyncInv, ShapeInv
    <3>2. DOMAIN items \subseteq past.seen \cup past.trusted \cup past.partial
      BY <3>1, Zenon DEF SyncInv, ObjectsInv, ObjectInv, HistoryInv
    <3>3. Finished = DOMAIN items /\ \A h \in DOMAIN items : items[h].stage # "failed"
      BY <3>1, SMTT(30) DEF Finished
    <3>4. syncTally.copied + syncTally.skipped = syncTally.total
      BY <2>1, <3>3, SMTT(30) DEF SyncInv, TallyInv
    <3>5. past.trusted # {} => VerifyFirst <= check_cache.hits /\ ~sync.forced
      BY <2>1, SMTT(30) DEF SyncInv, TrustInv
    <3> QED
      BY <3>2, <3>4, <3>5, SMTT(30)
  <2>2. ASSUME syncStep = "err"
        PROVE  \/ past.fault \/ syncHalt \/ ~(DOMAIN items \subseteq sync.source)
               \/ \E h \in DOMAIN items : InParts(h) /\ Overestimated(h)
    <3>1. PICK h \in DOMAIN items : items[h].stage = "failed"
      BY <2>2 DEF SyncInv, ShapeInv
    <3>2. Excused(h)
      BY <3>1, Zenon DEF SyncInv, ObjectsInv, ObjectInv, HistoryInv
    <3> QED
      BY <3>1, <3>2, SMTT(30) DEF Excused
  <2>3. ASSUME syncStep \in {"ok", "err"} PROVE DOMAIN uploads \subseteq past.left
    <3>1. \A h \in DOMAIN items : ~Uploading(h)
      BY <2>3 DEF SyncInv, ShapeInv, Uploading
    <3> QED
      BY <3>1, Zenon DEF SyncInv, ObjectsInv, ObjectInv
  <2>4. \A h \in DOMAIN dest :
          \/ dest[h] = h.digest \/ h \in past.partial
          \/ h \in DOMAIN items /\ items[h].stage = "writing"
    BY Zenon DEF SyncInv, ObjectsInv, ObjectInv
  <2>5. \A h \in DOMAIN items : items[h].stage = "copying" => S3Accepts(items[h].ranges)
    BY CopyAccepted
  <2>6. SyncIsComplete
    BY <2>1, <2>2, Zenon DEF SyncIsComplete
  <2>7. ObjectsStayWhole
    BY <2>3, <2>4, <2>5, Zenon DEF ObjectsStayWhole
  <2> QED
    BY <2>6, <2>7
<1> QED
  BY <1>1, SyncInvHolds, PTL
=============================================================================
