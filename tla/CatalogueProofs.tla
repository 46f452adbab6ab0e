-------------------------- MODULE CatalogueProofs --------------------------
(***************************************************************************)
(* Theorems about the catalogue, for every set of words, configurations,   *)
(* feeds and requests: types, the bounds and the monotonicity of the       *)
(* score, the policy on outgoing contacts, links of URLs to their hosts,   *)
(* the views of the graph, exports and re-enrichment.  The first section   *)
(* stands in for induction over data: a function defined by recursion      *)
(* exists and is unique up to any number, because a least number at which  *)
(* it would fail does not.                                                 *)
(***************************************************************************)
EXTENDS Catalogue, WellFoundedInduction, SequenceTheorems, FiniteSetTheorems, TLAPS

----------------------------------------------------------------------------
(* Induction over numbers, functions defined by recursion, sequences       *)

LEMMA LeastNumber ==
    ASSUME NEW T, T \subseteq Nat, T # {}
    PROVE  \E m \in T : \A k \in T : m <= k
  <1> DEFINE less == {p \in Nat \X Nat : p[1] < p[2]}
  <1>1. IsWellFoundedOn(less, Nat)
    BY NatLessThanWellFounded DEF OpToRel
  <1>2. PICK m \in T : \A k \in T : ~(<<k, m>> \in less)
    BY <1>1, WFMin
  <1>3. ASSUME NEW k \in T PROVE m <= k
    <2>1. <<k, m>> \in Nat \X Nat /\ ~(<<k, m>>[1] < <<k, m>>[2])
      BY <1>2
    <2> QED
      BY <2>1
  <1> QED
    BY <1>3

LEMMA UpTo ==
    ASSUME NEW n \in Nat, NEW T, 0 \in T, \A k \in 0..n : k < n /\ k \in T => k + 1 \in T
    PROVE  \A k \in 0..n : k \in T
  <1> DEFINE Out == {k \in 0..n : k \notin T}
  <1> SUFFICES ASSUME Out # {} PROVE FALSE
    OBVIOUS
  <1>1. PICK m \in Out : \A k \in Out : m <= k
    <2>1. Out \subseteq Nat
      OBVIOUS
    <2> QED
      BY <2>1, LeastNumber
  <1>2. m \in 0..n /\ m # 0 /\ m \notin T
    OBVIOUS
  <1>3. m - 1 \in 0..n /\ m - 1 < n /\ (m - 1) + 1 = m /\ ~(m <= m - 1)
    BY <1>2
  <1>4. m - 1 \in T
    BY <1>1, <1>3
  <1> QED
    BY <1>2, <1>3, <1>4

Defined(n, V, base, G) ==
    \E f \in [0..n -> V] : f[0] = base /\ \A k \in 1..n : f[k] = G[<<k, f[k - 1]>>]

LEMMA Recursion ==
    ASSUME NEW n \in Nat, NEW V, NEW base \in V, NEW G,
           \A k \in 1..n, v \in V : G[<<k, v>>] \in V
    PROVE  Defined(n, V, base, G)
  <1> DEFINE Up(m, f) == f[0] = base /\ \A k \in 1..m : f[k] = G[<<k, f[k - 1]>>]
             T == {m \in 0..n : \E f \in [0..m -> V] : Up(m, f)}
  <1>1. 0 \in T
    <2> DEFINE f == [k \in 0..0 |-> base]
    <2>1. f \in [0..0 -> V] /\ Up(0, f)
      OBVIOUS
    <2> HIDE DEF f
    <2>2. 0 \in 0..n
      OBVIOUS
    <2> QED
      BY <2>1, <2>2
  <1>2. ASSUME NEW m \in 0..n, m < n, m \in T PROVE m + 1 \in T
    <2>1. PICK f \in [0..m -> V] : Up(m, f)
      BY <1>2
    <2> DEFINE g == [k \in 0..m + 1 |-> IF k = m + 1 THEN G[<<k, f[m]>>] ELSE f[k]]
    <2>2. g \in [0..m + 1 -> V]
      BY <1>2
    <2>3. g[0] = base
      BY <2>1
    <2>4. ASSUME NEW k \in 1..m + 1 PROVE g[k] = G[<<k, g[k - 1]>>]
      <3>1. CASE k = m + 1
        BY <3>1
      <3>2. CASE k # m + 1
        BY <2>1, <3>2
      <3> QED
        BY <3>1, <3>2
    <2> HIDE DEF g
    <2>5. Up(m + 1, g)
      BY <2>3, <2>4
    <2> HIDE DEF Up
    <2> QED
      BY <1>2, <2>2, <2>5
  <1> HIDE DEF T
  <1>3. n \in T
    BY <1>1, <1>2, UpTo
  <1> QED
    BY <1>3 DEF T, Defined

\* f and g begin alike and go on alike, as far as n; they are alike so far.
GoOnAlike(n, f, g) ==
    /\ f[0] = g[0]
    /\ \A k \in 1..n : f[k - 1] = g[k - 1] => f[k] = g[k]
Alike(n, f, g) == \A k \in 0..n : f[k] = g[k]

LEMMA SameRecursion ==
    ASSUME NEW n \in Nat, NEW f, NEW g, GoOnAlike(n, f, g)
    PROVE  Alike(n, f, g)
  <1> USE DEF GoOnAlike, Alike
  <1> DEFINE T == {k \in 0..n : f[k] = g[k]}
  <1>1. 0 \in T
    OBVIOUS
  <1>2. \A k \in 0..n : k < n /\ k \in T => k + 1 \in T
    <2> SUFFICES ASSUME NEW k \in 0..n, k < n, f[k] = g[k] PROVE f[k + 1] = g[k + 1]
      OBVIOUS
    <2>1. k + 1 \in 1..n /\ (k + 1) - 1 = k
      OBVIOUS
    <2> QED
      BY <2>1
  <1> HIDE DEF T
  <1>3. \A k \in 0..n : k \in T
    BY <1>1, <1>2, UpTo
  <1> QED
    BY <1>3 DEF T

\* f is the function that FlattenSeq defines by recursion.
Flattening(seqs, f) ==
    f = [i \in 1..Len(seqs) |-> IF i = 1 THEN seqs[i] ELSE f[i - 1] \o seqs[i]]

LEMMA FlattenIs ==
    ASSUME NEW seqs
    PROVE  FlattenSeq(seqs) = IF Len(seqs) = 0 THEN seqs
                              ELSE (CHOOSE f : Flattening(seqs, f))[Len(seqs)]
  BY DEF FlattenSeq, Flattening

\* FlattenSeq joins its sequences one after the other.
LEMMA FlattenJoins ==
    ASSUME NEW S, NEW seqs \in Seq(Seq(S))
    PROVE  \E f \in [0..Len(seqs) -> Seq(S)] :
              /\ f[0] = <<>>
              /\ \A k \in 1..Len(seqs) : f[k] = f[k - 1] \o seqs[k]
              /\ FlattenSeq(seqs) = f[Len(seqs)]
  <1> DEFINE n == Len(seqs)
             G == [p \in (1..n) \X Seq(S) |-> p[2] \o seqs[p[1]]]
  <1>1. n \in Nat /\ \A k \in 1..n : seqs[k] \in Seq(S)
    OBVIOUS
  <1>2. \A k \in 1..n, v \in Seq(S) : G[<<k, v>>] = v \o seqs[k]
    OBVIOUS
  <1>3. \A k \in 1..n, v \in Seq(S) : v \o seqs[k] \in Seq(S)
    BY <1>1
  <1>4. <<>> \in Seq(S)
    OBVIOUS
  <1> HIDE DEF G, n
  <1>5. \A k \in 1..n, v \in Seq(S) : G[<<k, v>>] \in Seq(S)
    BY <1>2, <1>3
  <1>6. PICK f \in [0..n -> Seq(S)] :
            f[0] = <<>> /\ \A k \in 1..n : f[k] = G[<<k, f[k - 1]>>]
    <2> DEFINE V == Seq(S)
    <2>1. \A k \in 1..n, v \in V : G[<<k, v>>] \in V
      BY <1>5
    <2> HIDE DEF V
    <2>2. <<>> \in V
      BY <1>4 DEF V
    <2>3. n \in Nat
      BY <1>1
    <2>4. Defined(n, V, <<>>, G)
      BY <2>1, <2>2, <2>3, Recursion
    <2> QED
      BY <2>4 DEF V, Defined
  <1>7. \A k \in 1..n : k - 1 \in 0..n /\ f[k - 1] \in Seq(S)
    BY <1>1
  <1>8. \A k \in 1..n : f[k] = f[k - 1] \o seqs[k]
    BY <1>2, <1>6, <1>7
  <1>11. \A k \in 1..n : f[k] = IF k = 1 THEN seqs[k] ELSE f[k - 1] \o seqs[k]
    <2> SUFFICES ASSUME NEW k \in 1..n
                 PROVE  f[k] = IF k = 1 THEN seqs[k] ELSE f[k - 1] \o seqs[k]
      OBVIOUS
    <2>1. f[k] = f[k - 1] \o seqs[k]
      BY <1>8
    <2>2. CASE k = 1
      <3>1. k - 1 = 0
        BY <2>2
      <3>2. f[k] = <<>> \o seqs[k]
        BY <1>6, <2>1, <3>1
      <3> QED
        BY <1>1, <2>2, <3>2, ConcatEmptySeq
    <2>3. CASE k # 1
      BY <2>1, <2>3
    <2> QED
      BY <2>2, <2>3
  <1>9. CASE n = 0
    <2>1. seqs = <<>>
      BY <1>9 DEF n
    <2>2. FlattenSeq(seqs) = <<>>
      BY <1>9, <2>1, FlattenIs DEF n
    <2> QED
      BY <1>6, <1>8, <1>9, <2>2 DEF n
  <1>10. CASE n # 0
    <2> DEFINE g == [i \in 1..n |-> f[i]]
               h == CHOOSE x : Flattening(seqs, x)
    <2>1. Flattening(seqs, g)
      <3>1. ASSUME NEW i \in 1..n
            PROVE  g[i] = IF i = 1 THEN seqs[i] ELSE g[i - 1] \o seqs[i]
        <4>1. f[i] = IF i = 1 THEN seqs[i] ELSE f[i - 1] \o seqs[i]
          BY <1>11
        <4>2. i # 1 => i - 1 \in 1..n
          BY <1>1
        <4> QED
          BY <4>1, <4>2
      <3>2. g = [i \in 1..n |-> IF i = 1 THEN seqs[i] ELSE g[i - 1] \o seqs[i]]
        BY <3>1
      <3> HIDE DEF g
      <3> QED
        BY <3>2 DEF Flattening, n
    <2> HIDE DEF g
    <2>2. Flattening(seqs, h)
      BY <2>1, Zenon
    <2> HIDE DEF h
    <2> DEFINE h0 == [i \in 0..n |-> IF i = 0 THEN <<>> ELSE h[i]]
    <2>3. \A k \in 1..n : h[k] = IF k = 1 THEN seqs[k] ELSE h[k - 1] \o seqs[k]
      BY <2>2 DEF Flattening, n
    <2>4. ASSUME NEW k \in 1..n, f[k - 1] = h0[k - 1] PROVE f[k] = h0[k]
      <3>1. h0[k] = h[k] /\ (k # 1 => h0[k - 1] = h[k - 1])
        BY <1>1
      <3>2. f[k] = IF k = 1 THEN seqs[k] ELSE f[k - 1] \o seqs[k]
        BY <1>11
      <3>3. h[k] = IF k = 1 THEN seqs[k] ELSE h[k - 1] \o seqs[k]
        BY <2>3
      <3> HIDE DEF h0
      <3> QED
        BY <2>4, <3>1, <3>2, <3>3
    <2>5. f[0] = h0[0]
      BY <1>1, <1>6
    <2> HIDE DEF h0
    <2>6. \A k \in 0..n : f[k] = h0[k]
      <3>1. \A k \in 1..n : f[k - 1] = h0[k - 1] => f[k] = h0[k]
        BY <2>4
      <3>2. n \in Nat
        BY <1>1
      <3>3. GoOnAlike(n, f, h0)
        BY <2>5, <3>1 DEF GoOnAlike
      <3> HIDE DEF n
      <3>4. Alike(n, f, h0)
        BY <3>2, <3>3, SameRecursion
      <3> QED
        BY <3>4 DEF Alike
    <2>7. f[n] = h[n]
      BY <1>1, <1>10, <2>6 DEF h0
    <2>8. FlattenSeq(seqs) = h[n]
      BY <1>10, FlattenIs DEF h, n
    <2> QED
      BY <1>6, <1>8, <2>7, <2>8 DEF n
  <1> QED
    BY <1>9, <1>10

LEMMA FlattenType ==
    ASSUME NEW S, NEW seqs \in Seq(Seq(S))
    PROVE  FlattenSeq(seqs) \in Seq(S)
  <1>1. PICK f \in [0..Len(seqs) -> Seq(S)] : FlattenSeq(seqs) = f[Len(seqs)]
    BY FlattenJoins
  <1> QED
    BY <1>1

\* Of an empty sequence followed by sequences of one element each it makes the
\* sequence of these elements.
LEMMA FlattenSingles ==
    ASSUME NEW S, NEW s \in Seq(S), NEW seqs \in Seq(Seq(S)), Len(seqs) = Len(s) + 1,
           seqs[1] = <<>>, \A n \in 1..Len(s) : seqs[n + 1] = <<s[n]>>
    PROVE  FlattenSeq(seqs) = s
  <1>1. PICK f \in [0..Len(seqs) -> Seq(S)] :
            /\ f[0] = <<>>
            /\ \A k \in 1..Len(seqs) : f[k] = f[k - 1] \o seqs[k]
            /\ FlattenSeq(seqs) = f[Len(seqs)]
    BY FlattenJoins
  <1> DEFINE n == Len(s)
             T == {k \in 0..n : f[k + 1] = SubSeq(s, 1, k)}
  <1>2. n \in Nat /\ Len(seqs) = n + 1
    OBVIOUS
  <1>3. 0 \in T
    <2>1. f[1] = f[0] \o seqs[1]
      BY <1>1, <1>2
    <2>2. f[1] = <<>> \o <<>>
      BY <1>1, <2>1
    <2>3. SubSeq(s, 1, 0) = <<>> /\ <<>> \o <<>> = <<>>
      OBVIOUS
    <2> QED
      BY <1>2, <2>2, <2>3
  <1>4. ASSUME NEW k \in 0..n, k < n, k \in T PROVE k + 1 \in T
    <2> HIDE DEF T
    <2>5. k \in Nat /\ k < Len(s) /\ Len(s) \in Nat
      BY <1>2, <1>4
    <2>6. f[k + 1] = SubSeq(s, 1, k)
      BY <1>4 DEF T
    <2>1. f[k + 2] = f[k + 1] \o seqs[k + 2]
      <3>1. k + 2 \in 1..Len(seqs) /\ (k + 2) - 1 = k + 1
        BY <1>2, <2>5
      <3> QED
        BY <1>1, <3>1
    <2>2. seqs[k + 2] = <<s[k + 1]>>
      <3>1. k + 1 \in 1..Len(s) /\ (k + 1) + 1 = k + 2
        BY <2>5
      <3> QED
        BY <3>1
    <2>3. SubSeq(s, 1, k) \o <<s[k + 1]>> = SubSeq(s, 1, k + 1)
      <3>1. 1 \in 1..Len(s) /\ k + 1 \in 1..Len(s)
        <4>1. 1 <= Len(s) /\ 1 <= k + 1 /\ k + 1 <= Len(s) /\ k + 1 \in Nat
          BY <2>5
        <4> QED
          BY <2>5, <4>1
      <3>2. SubSeq(s, 1, k + 1) = SubSeq(s, 1, (k + 1) - 1) \o <<s[k + 1]>>
        BY <3>1, SubSeqRecursiveSecond
      <3>3. (k + 1) - 1 = k
        BY <2>5
      <3> QED
        BY <3>2, <3>3
    <2>4. f[k + 2] = SubSeq(s, 1, k + 1)
      BY <2>1, <2>2, <2>3, <2>6
    <2>7. k + 1 \in 0..n /\ (k + 1) + 1 = k + 2
      BY <2>5
    <2> QED
      BY <2>4, <2>7 DEF T
  <1>7. n \in Nat /\ n \in 0..n
    BY <1>2
  <1> HIDE DEF T, n
  <1>5. n \in T
    BY <1>3, <1>4, <1>7, UpTo
  <1>6. f[n + 1] = SubSeq(s, 1, n)
    BY <1>5 DEF T
  <1>8. f[n + 1] = SubSeq(s, 1, Len(s))
    BY <1>6 DEF n
  <1> QED
    BY <1>1, <1>2, <1>8, SubSeqFull DEF n


----------------------------------------------------------------------------
(* What feeds and documents yield                                          *)

LEMMA FirstOfType ==
    ASSUME NEW S, NEW s \in Seq(S), NEW limit \in Nat
    PROVE  FirstOf(s, limit) \in Seq(S)
  BY DEF FirstOf

\* What a function defined on the places of a sequence makes of it is as long.
LEMMA ImageType ==
    ASSUME NEW n \in Nat, NEW S, NEW f, f = [k \in 1..n |-> f[k]], \A k \in 1..n : f[k] \in S
    PROVE  f \in Seq(S) /\ Len(f) = n
  OBVIOUS

\* At each place that is kept an entry stays as it was.
LEMMA FlattenParts ==
    ASSUME NEW S, NEW n \in Nat, NEW seqs, seqs = [k \in 1..n |-> seqs[k]],
           \A k \in 1..n : seqs[k] \in Seq(S)
    PROVE  FlattenSeq(seqs) \in Seq(S)
  <1>1. seqs \in Seq(Seq(S))
    <2> DEFINE V == Seq(S)
    <2>1. \A k \in 1..n : seqs[k] \in V
      OBVIOUS
    <2> HIDE DEF V
    <2>2. seqs \in Seq(V)
      BY <2>1, ImageType
    <2> QED
      BY <2>2 DEF V
  <1> QED
    BY <1>1, FlattenType

\* A collector yields words and confidences, whether the feed is live, cut,
\* broken or replaced by the samples.
LEMMA CollectType ==
    ASSUME NEW config, NEW f \in Feeds
    PROVE  Collect(config, f.name, f.feed, f.up, f.limit) \in Seq([value : Word, confidence : Confidence])
  <1> DEFINE Row == [value : Word \cup {NoValue}, sure : BOOLEAN]
             Yield == [value : Word, confidence : Confidence]
             Valued(s) == FlattenSeq([n \in DOMAIN s |->
                              IF s[n].value # NoValue THEN <<s[n]>> ELSE <<>>])
             entries == CASE f.name = "otx" -> FirstOf(Valued(f.feed), f.limit)
                          [] f.name \in {"rss", "abuseipdb"} -> FirstOf(f.feed, f.limit)
                          [] OTHER -> Valued(FirstOf(f.feed, f.limit))
  <1>1. /\ f.name \in CollectorNames /\ f.feed \in Seq(Row) /\ f.limit \in Nat
        /\ Samples[f.name] \in Seq(Yield) /\ Advisory \in Word
    BY CatalogueAssumption
  <1>2. ASSUME NEW s \in Seq(Row) PROVE Valued(s) \in Seq(Row)
    <2> DEFINE parts == [n \in DOMAIN s |-> IF s[n].value # NoValue THEN <<s[n]>> ELSE <<>>]
    <2>1. DOMAIN s = 1..Len(s) /\ Len(s) \in Nat /\ \A n \in 1..Len(s) : s[n] \in Row
      BY <1>2, LenProperties, ElementOfSeq
    <2>2. \A n \in 1..Len(s) : parts[n] \in Seq(Row)
      <3> HIDE DEF Row
      <3>1. ASSUME NEW n \in 1..Len(s) PROVE parts[n] \in Seq(Row)
        <4>1. parts[n] = <<s[n]>> \/ parts[n] = <<>>
          BY <2>1
        <4>2. <<s[n]>> \in Seq(Row) /\ <<>> \in Seq(Row)
          BY <2>1
        <4> QED
          BY <4>1, <4>2
      <3> QED
        BY <3>1
    <2>3. parts = [n \in 1..Len(s) |-> parts[n]]
      BY <2>1
    <2> HIDE DEF parts, Row
    <2>4. FlattenSeq(parts) \in Seq(Row)
      BY <2>1, <2>2, <2>3, FlattenParts
    <2> QED
      BY <2>4 DEF parts
  <1> HIDE DEF Valued
  <1>3. entries \in Seq(Row)
    <2> HIDE DEF Row
    <2>1. FirstOf(f.feed, f.limit) \in Seq(Row)
      BY <1>1, FirstOfType
    <2>2. Valued(FirstOf(f.feed, f.limit)) \in Seq(Row)
      BY <1>2, <2>1
    <2>3. FirstOf(Valued(f.feed), f.limit) \in Seq(Row)
      BY <1>1, <1>2, FirstOfType
    <2> QED
      BY <2>1, <2>2, <2>3
  <1> HIDE DEF entries
  <1>4. \A e \in Row : Item(f.name, e) \in Yield
    <2>1. ConfidenceOf[f.name] \in Confidence /\ 4 \in Confidence
      BY <1>1 DEF ConfidenceOf, CollectorNames, Confidence
    <2> QED
      BY <1>1, <2>1 DEF Item
  <1>5. [n \in DOMAIN entries |-> Item(f.name, entries[n])] \in Seq(Yield)
    <2>1. DOMAIN entries = 1..Len(entries) /\ Len(entries) \in Nat
          /\ \A n \in 1..Len(entries) : entries[n] \in Row
      BY <1>3, LenProperties, ElementOfSeq
    <2> HIDE DEF Row, Yield
    <2>2. \A n \in 1..Len(entries) : Item(f.name, entries[n]) \in Yield
      BY <1>4, <2>1
    <2> QED
      BY <2>1, <2>2
  <1>6. Normalised(f.name, f.feed, f.limit) = [n \in DOMAIN entries |-> Item(f.name, entries[n])]
    BY DEF Normalised, entries, Valued
  <1>7. FirstOf(Samples[f.name], f.limit) \in Seq(Yield)
    <2> HIDE DEF Yield
    <2> QED
      BY <1>1, FirstOfType
  <1> QED
    BY <1>5, <1>6, <1>7 DEF Collect

\* What Distinct makes of one more candidate, and the function it defines.
Taken(found, w, limit) ==
    LET i == Classify(w) IN
    IF i = Unknown \/ i \in ToSet(found) \/ Len(found) >= limit
    THEN found ELSE Append(found, i)

Taking(c, limit, f) ==
    f = [n \in 0..Len(c) |-> IF n = 0 THEN <<>> ELSE Taken(f[n - 1], c[n], limit)]

LEMMA DistinctIs ==
    ASSUME NEW c, NEW limit
    PROVE  Distinct(c, limit) = (CHOOSE f : Taking(c, limit, f))[Len(c)]
  BY DEF Distinct, Taking, Taken

LEMMA TakenType ==
    ASSUME NEW w \in Word, NEW limit, NEW found \in Seq(Indicator)
    PROVE  Taken(found, w, limit) \in Seq(Indicator)
  <1>1. Classify(w) = Unknown \/ Classify(w) \in Indicator
    <2>1. /\ Refang[w] \in Word
          /\ \A v \in Word : /\ Format[v] \in Types \cup {"none"}
                             /\ Lower[v] \in Word /\ Upper[v] \in Word /\ Bare[v] \in Word
      BY WordAssumption
    <2>2. Normal(Refang[w]) \in {Lower[Refang[w]], Upper[Refang[w]], Bare[Refang[w]], Refang[w]}
      BY DEF Normal
    <2>3. Normal(Refang[w]) \in Word
      BY <2>1, <2>2
    <2> QED
      BY <2>1, <2>3 DEF Classify, Indicator
  <1>2. CASE Taken(found, w, limit) = found
    BY <1>2
  <1>3. CASE Classify(w) \in Indicator /\ Taken(found, w, limit) = Append(found, Classify(w))
    <2>1. Append(found, Classify(w)) \in Seq(Indicator)
      BY <1>3, AppendProperties
    <2> QED
      BY <1>3, <2>1
  <1> QED
    BY <1>1, <1>2, <1>3 DEF Taken

\* Distinct goes over the candidates one by one.
LEMMA DistinctSteps ==
    ASSUME NEW c \in Seq(Word), NEW limit
    PROVE  \E f \in [0..Len(c) -> Seq(Indicator)] :
              /\ f[0] = <<>>
              /\ \A n \in 1..Len(c) : f[n] = Taken(f[n - 1], c[n], limit)
              /\ Distinct(c, limit) = f[Len(c)]
  <1> DEFINE n == Len(c)
             V == Seq(Indicator)
             G == [p \in (1..n) \X V |-> Taken(p[2], c[p[1]], limit)]
             h == CHOOSE f : Taking(c, limit, f)
  <1>1. n \in Nat /\ \A k \in 1..n : c[k] \in Word
    BY LenProperties, ElementOfSeq
  <1>2. \A k \in 1..n, v \in V : G[<<k, v>>] = Taken(v, c[k], limit)
    OBVIOUS
  <1>3. \A k \in 1..n, v \in V : Taken(v, c[k], limit) \in V
    BY <1>1, TakenType
  <1>4. <<>> \in V
    OBVIOUS
  <1> HIDE DEF G, V, n
  <1>5. Defined(n, V, <<>>, G)
    <2>1. n \in Nat
      BY <1>1
    <2>2. \A k \in 1..n, v \in V : G[<<k, v>>] \in V
      BY <1>2, <1>3
    <2> QED
      BY <1>4, <2>1, <2>2, Recursion
  <1>6. PICK f \in [0..n -> V] : f[0] = <<>> /\ \A k \in 1..n : f[k] = G[<<k, f[k - 1]>>]
    BY <1>5 DEF Defined
  <1>7. \A k \in 1..n : f[k] = Taken(f[k - 1], c[k], limit)
    <2>1. \A k \in 1..n : f[k - 1] \in V
      BY <1>1
    <2> QED
      BY <1>2, <1>6, <2>1
  <1>8. Taking(c, limit, f)
    <2>1. f = [k \in 0..n |-> f[k]]
      OBVIOUS
    <2>2. ASSUME NEW k \in 0..n
          PROVE  f[k] = IF k = 0 THEN <<>> ELSE Taken(f[k - 1], c[k], limit)
      <3>1. k # 0 => k \in 1..n
        BY <1>1
      <3> QED
        BY <1>6, <1>7, <3>1
    <2>3. f = [k \in 0..n |-> IF k = 0 THEN <<>> ELSE Taken(f[k - 1], c[k], limit)]
      BY <2>1, <2>2
    <2> QED
      BY <2>3 DEF Taking, n
  <1>9. Taking(c, limit, h)
    BY <1>8, Zenon
  <1> HIDE DEF h
  <1>10. \A k \in 0..n : h[k] = IF k = 0 THEN <<>> ELSE Taken(h[k - 1], c[k], limit)
    BY <1>9 DEF Taking, n
  <1>11. \A k \in 0..n : f[k] = h[k]
    <2>1. f[0] = h[0] /\ n \in Nat
      <3>1. n \in Nat /\ 0 \in 0..n
        BY <1>1
      <3> QED
        BY <1>6, <1>10, <3>1
    <2>2. \A k \in 1..n : f[k - 1] = h[k - 1] => f[k] = h[k]
      <3>1. \A k \in 1..n : k \in 0..n /\ k # 0
        BY <1>1
      <3> QED
        BY <1>7, <1>10, <3>1
    <2> QED
      <3>1. GoOnAlike(n, f, h)
        BY <2>1, <2>2 DEF GoOnAlike
      <3> HIDE DEF n, h
      <3>2. Alike(n, f, h)
        BY <2>1, <3>1, SameRecursion
      <3> QED
        BY <3>2 DEF Alike
  <1>12. Distinct(c, limit) = f[n]
    BY <1>1, <1>11, DistinctIs DEF n, h
  <1> QED
    BY <1>6, <1>7, <1>12 DEF n, V

LEMMA DistinctType ==
    ASSUME NEW c \in Seq(Word), NEW limit
    PROVE  Distinct(c, limit) \in Seq(Indicator)
  <1> DEFINE V == Seq(Indicator)
  <1>1. PICK f \in [0..Len(c) -> V] : Distinct(c, limit) = f[Len(c)]
    BY DistinctSteps
  <1>2. Len(c) \in 0..Len(c)
    OBVIOUS
  <1> HIDE DEF V
  <1>3. Distinct(c, limit) \in V
    BY <1>1, <1>2
  <1> QED
    BY <1>3 DEF V

LEMMA CandidatesType ==
    ASSUME NEW text \in Seq(Word)
    PROVE  Candidates(text) \in Seq(Word)
  <1> DEFINE n == Len(text)
             Plausible(w) == Pattern[w] # 8 \/ Found[w] \notin FileNames
             By(p, w) == IF Pattern[w] = p /\ Plausible(w) THEN <<Found[w]>> ELSE <<>>
             one(p) == [k \in DOMAIN text |-> By(p, text[k])]
             all == [p \in 1..8 |-> FlattenSeq(one(p))]
  <1>1. n \in Nat /\ DOMAIN text = 1..n /\ \A k \in 1..n : text[k] \in Word
    BY LenProperties, ElementOfSeq
  <1>2. \A w \in Word : Found[w] \in Word
    BY WordAssumption
  <1>3. ASSUME NEW p, NEW w \in Word PROVE By(p, w) \in Seq(Word)
    <2>1. <<Found[w]>> \in Seq(Word) /\ <<>> \in Seq(Word)
      BY <1>2
    <2> QED
      BY <2>1
  <1> HIDE DEF By, n
  <1>4. ASSUME NEW p PROVE FlattenSeq(one(p)) \in Seq(Word)
    <2>1. one(p) = [k \in 1..n |-> one(p)[k]] /\ \A k \in 1..n : one(p)[k] \in Seq(Word)
      BY <1>1, <1>3
    <2> HIDE DEF one
    <2> QED
      BY <1>1, <2>1, FlattenParts
  <1> HIDE DEF one
  <1>5. all = [p \in 1..8 |-> all[p]] /\ \A p \in 1..8 : all[p] \in Seq(Word)
    BY <1>4
  <1> HIDE DEF all
  <1>6. FlattenSeq(all) \in Seq(Word)
    BY <1>5, FlattenParts
  <1> QED
    BY <1>6 DEF Candidates, all, one, By

LEMMA ExtractTextType ==
    ASSUME NEW text \in Seq(Word), NEW limit
    PROVE  ExtractText(text, limit) \in Seq(Indicator)
  <1> DEFINE n == Len(text)
             clean == [k \in DOMAIN text |-> Refang[text[k]]]
  <1>1. n \in Nat /\ DOMAIN text = 1..n /\ \A k \in 1..n : text[k] \in Word
    BY LenProperties, ElementOfSeq
  <1>2. \A w \in Word : Refang[w] \in Word
    BY WordAssumption
  <1>3. clean \in Seq(Word)
    <2>1. clean = [k \in 1..n |-> clean[k]] /\ \A k \in 1..n : clean[k] \in Word
      BY <1>1, <1>2
    <2> HIDE DEF clean
    <2> QED
      BY <1>1, <2>1, ImageType
  <1> HIDE DEF clean
  <1>4. Distinct(Candidates(clean), limit) \in Seq(Indicator)
    BY <1>3, CandidatesType, DistinctType
  <1> QED
    BY <1>4 DEF ExtractText, clean

LEMMA LinesType ==
    ASSUME NEW lines \in Seq(Seq(Word))
    PROVE  /\ Len(lines) \in Nat /\ DOMAIN lines = 1..Len(lines)
           /\ \A n \in 1..Len(lines) :
                 /\ lines[n] \in Seq(Word) /\ Len(lines[n]) \in Nat
                 /\ DOMAIN lines[n] = 1..Len(lines[n])
                 /\ \A m \in 1..Len(lines[n]) : lines[n][m] \in Word
  <1> DEFINE V == Seq(Word)
  <1>1. lines \in Seq(V)
    OBVIOUS
  <1> HIDE DEF V
  <1>2. /\ Len(lines) \in Nat /\ DOMAIN lines = 1..Len(lines)
        /\ \A n \in 1..Len(lines) : lines[n] \in V
    BY <1>1, LenProperties, ElementOfSeq
  <1>3. ASSUME NEW s \in V
        PROVE  /\ s \in Seq(Word) /\ Len(s) \in Nat /\ DOMAIN s = 1..Len(s)
               /\ \A m \in 1..Len(s) : s[m] \in Word
    BY LenProperties, ElementOfSeq DEF V
  <1> QED
    BY <1>2, <1>3

LEMMA ExtractCsvType ==
    ASSUME NEW rows \in Seq(Seq(Word)), NEW limit
    PROVE  ExtractCsv(rows, limit) \in Seq(Indicator)
  <1> DEFINE columns == IF rows = <<>> THEN {}
                        ELSE {n \in DOMAIN rows[1] : Lower[rows[1][n]] \in Headers}
             column == CHOOSE n \in columns : \A m \in columns : n <= m
             Cell(row) == IF Len(row) >= column THEN <<row[column]>> ELSE <<>>
             body == [n \in 1..Len(rows) - 1 |-> Cell(rows[n + 1])]
  <1>1. /\ Len(rows) \in Nat /\ DOMAIN rows = 1..Len(rows)
        /\ \A n \in 1..Len(rows) :
              /\ rows[n] \in Seq(Word) /\ Len(rows[n]) \in Nat
              /\ DOMAIN rows[n] = 1..Len(rows[n])
              /\ \A m \in 1..Len(rows[n]) : rows[n][m] \in Word
    BY LinesType
  <1>2. CASE columns = {}
    <2>1. FlattenSeq(rows) \in Seq(Word)
      BY FlattenType
    <2> QED
      BY <1>2, <2>1, ExtractTextType DEF ExtractCsv
  <1>3. CASE columns # {}
    <2>1. rows # <<>> /\ 1 \in 1..Len(rows)
      BY <1>1, <1>3
    <2>2. columns \subseteq Nat \ {0}
      BY <1>1, <2>1
    <2> HIDE DEF columns
    <2>3. column \in columns
      <3>1. \E n \in columns : \A m \in columns : n <= m
        BY <1>3, <2>2, LeastNumber
      <3> QED
        BY <3>1
    <2>4. column \in Nat /\ column # 0
      BY <2>2, <2>3
    <2> HIDE DEF column
    <2>5. Len(rows) - 1 \in Nat
      BY <1>1, <2>1
    <2>6. ASSUME NEW n \in 1..Len(rows) PROVE Cell(rows[n]) \in Seq(Word)
      <3>1. CASE Len(rows[n]) >= column
        <4>1. rows[n][column] \in Word
          BY <1>1, <2>4, <3>1
        <4> QED
          BY <3>1, <4>1
      <3>2. CASE ~(Len(rows[n]) >= column)
        BY <3>2
      <3> QED
        BY <3>1, <3>2
    <2>7. \A n \in 1..Len(rows) - 1 : n + 1 \in 1..Len(rows)
      BY <1>1
    <2> HIDE DEF Cell
    <2>8. body = [n \in 1..Len(rows) - 1 |-> body[n]]
          /\ \A n \in 1..Len(rows) - 1 : body[n] \in Seq(Word)
      BY <2>6, <2>7
    <2> HIDE DEF body
    <2>9. FlattenSeq(body) \in Seq(Word)
      BY <2>5, <2>8, FlattenParts
    <2>10. ExtractCsv(rows, limit) = ExtractText(FlattenSeq(body), limit)
      BY <1>3 DEF ExtractCsv, body, Cell, column, columns
    <2> QED
      BY <2>9, <2>10, ExtractTextType
  <1> QED
    BY <1>2, <1>3

\* What of object o is a candidate.
OfObject(o) == IF o.type \in {"vulnerability", "attack-pattern"} THEN o.ids
               ELSE [n \in DOMAIN o.literals |-> Read[o.literals[n]]]

LEMMA ExtractStixType ==
    ASSUME NEW objects, objects \in Seq(ToSet(objects)),
           \A o \in ToSet(objects) : o.ids \in Seq(Word) /\ o.literals \in Seq(Word),
           NEW limit
    PROVE  ExtractStix(objects, limit) \in Seq(Indicator)
  <1> DEFINE n == Len(objects)
             parts == [k \in DOMAIN objects |-> OfObject(objects[k])]
  <1>1. n \in Nat /\ DOMAIN objects = 1..n /\ \A k \in 1..n : objects[k] \in ToSet(objects)
    BY LenProperties, ElementOfSeq
  <1>2. ASSUME NEW o \in ToSet(objects) PROVE OfObject(o) \in Seq(Word)
    <2> DEFINE read == [k \in DOMAIN o.literals |-> Read[o.literals[k]]]
    <2>1. o.ids \in Seq(Word) /\ o.literals \in Seq(Word)
      OBVIOUS
    <2>2. /\ Len(o.literals) \in Nat /\ DOMAIN o.literals = 1..Len(o.literals)
          /\ \A k \in 1..Len(o.literals) : o.literals[k] \in Word
      BY <2>1, LenProperties, ElementOfSeq
    <2>3. \A w \in Word : Read[w] \in Word
      BY WordAssumption
    <2>4. read = [k \in 1..Len(o.literals) |-> read[k]]
          /\ \A k \in 1..Len(o.literals) : read[k] \in Word
      BY <2>2, <2>3
    <2> HIDE DEF read
    <2>5. read \in Seq(Word)
      BY <2>2, <2>4, ImageType
    <2> QED
      BY <2>1, <2>5 DEF OfObject, read
  <1>3. parts = [k \in 1..n |-> parts[k]] /\ \A k \in 1..n : parts[k] \in Seq(Word)
    BY <1>1, <1>2
  <1> HIDE DEF n
  <1>4. FlattenSeq(parts) \in Seq(Word)
    <2> HIDE DEF parts
    <2> QED
      BY <1>1, <1>3, FlattenParts
  <1>5. ExtractStix(objects, limit) = Distinct(FlattenSeq(parts), limit)
    BY DEF ExtractStix, OfObject
  <1> QED
    BY <1>4, <1>5, DistinctType

\* A document yields indicators, whatever it is taken for.
LEMMA ExtractType ==
    ASSUME NEW doc, IsDocument(doc), NEW fmt \in {"auto", "stix", "csv", "text"}, NEW limit
    PROVE  Extract(doc, fmt, limit) \in Seq(Indicator)
  <1>1. ExtractStix(doc.objects, limit) \in Seq(Indicator)
    BY ExtractStixType DEF IsDocument
  <1>2. ExtractCsv(doc.lines, limit) \in Seq(Indicator)
    BY ExtractCsvType DEF IsDocument
  <1>3. ExtractText(FlattenSeq(doc.lines), limit) \in Seq(Indicator)
    BY FlattenType, ExtractTextType DEF IsDocument
  <1>4. Sniff(doc) \in {"stix", "csv", "text"}
    BY DEF Sniff
  <1> QED
    BY <1>1, <1>2, <1>3, <1>4 DEF Extract

----------------------------------------------------------------------------
(* The engine                                                              *)

\* Rounding keeps the order of sums of points.
LEMMA RoundedMonotone ==
    ASSUME NEW a \in Nat, NEW b \in Nat, a <= b
    PROVE  Rounded(a) \in Nat /\ Rounded(a) <= Rounded(b)
  BY DEF Rounded, Unit

\* The most that signals can amount to without a fourth source and open ports.
LEMMA RoundedAtMost == ASSUME NEW a \in Nat, a <= 58600 PROVE Rounded(a) <= 84
  BY DEF Rounded, Unit

\* The sum of weighted signals, written out.
LEMMA TotalIs ==
    ASSUME NEW s
    PROVE  Total(Contribution(s)) =
             22 * s.source_reputation + 20 * s.detection_ratio
             + 14 * s.blacklist_presence + 12 * s.confidence + 10 * s.recency
             + 8 * s.frequency + 6 * s.geo_risk + 5 * s.port_risk
             + 3 * s.historical_activity
  BY DEF Total, Contribution, Weight

\* What the signals s of an indicator are, in 700ths.
Amounts(s, e, p, c, n, age) ==
    /\ s.source_reputation = IF p THEN 350 ELSE 175
    /\ s.detection_ratio = 10 * e.detected
    /\ s.blacklist_presence = IF p THEN 700 ELSE 0
    /\ s.confidence = 140 * c
    /\ s.recency = Decay[age]
    /\ s.frequency = Growth[Least(n, 20)]
    /\ s.geo_risk = IF e.country \in HighRiskGeos THEN 700 ELSE 0
    /\ s.port_risk = 0
    /\ s.historical_activity = Least(700, 14 * n)

LEMMA SignalsAre ==
    ASSUME NEW e, e.detected \in Nat, NEW p, NEW c \in Nat, NEW n \in Nat, NEW age
    PROVE  Amounts(SignalsFrom(e, p, c, n, age), e, p, c, n, age)
  <1>1. /\ Unit \div 4 = 175 /\ Unit \div 70 = 10 /\ Unit \div 5 = 140
        /\ Unit \div 50 = 14 /\ Unit = 700
    BY DEF Unit
  <1>2. SourceReputation(2) = 350 /\ SourceReputation(1) = 175
    BY <1>1 DEF SourceReputation, Least
  <1>3. SourceReputation(IF p THEN 2 ELSE 1) = IF p THEN 350 ELSE 175
    BY <1>2
  <1>4. /\ e.detected * 10 = 10 * e.detected /\ c * 140 = 140 * c /\ n * 14 = 14 * n
    OBVIOUS
  <1> QED
    BY <1>1, <1>3, <1>4 DEF Amounts, SignalsFrom, Saturation

\* The two signals that are tabulated: bounded, and more sightings give more.
LEMMA TablesAre ==
    ASSUME NEW age \in 0..MaxAge, NEW m \in Nat, NEW n \in Nat, m <= n
    PROVE  /\ Decay[age] \in Nat /\ Decay[age] <= 700
           /\ Growth[Least(m, 20)] \in Nat /\ Growth[Least(m, 20)] <= 700
           /\ Growth[Least(n, 20)] \in Nat /\ Growth[Least(n, 20)] <= 700
           /\ Growth[Least(m, 20)] <= Growth[Least(n, 20)]
  <1> DEFINE W == 0..700
             Places == 0..20
             x == Least(m, 20)
             y == Least(n, 20)
  <1>1. \A v \in W : v \in Nat /\ v <= 700
    OBVIOUS
  <1>2. Decay \in [0..MaxAge -> W] /\ Growth \in [Places -> W]
    <2>1. W = Signal /\ Places = 0..Saturation
      BY DEF Signal, Saturation, Unit
    <2> HIDE DEF W, Places
    <2> QED
      BY <2>1, ScoringAssumption
  <1>3. \A v, w \in Places : v <= w => Growth[v] <= Growth[w]
    BY ScoringAssumption DEF Saturation
  <1>4. x \in Places /\ y \in Places /\ x <= y
    BY DEF Least
  <1> HIDE DEF W, Places, x, y
  <1>5. Decay[age] \in W /\ Growth[x] \in W /\ Growth[y] \in W
    BY <1>2, <1>4
  <1>6. Growth[x] <= Growth[y]
    BY <1>4, <1>3
  <1>7. /\ Decay[age] \in Nat /\ Decay[age] <= 700
        /\ Growth[x] \in Nat /\ Growth[x] <= 700
        /\ Growth[y] \in Nat /\ Growth[y] <= 700
    BY <1>1, <1>5
  <1> QED
    BY <1>6, <1>7 DEF x, y

\* Sums of the parts that a score has grow with each of them.
LEMMA SumGrows ==
    ASSUME NEW a1 \in Nat, NEW a2 \in Nat, NEW a3 \in Nat,
           NEW a4 \in Nat, NEW a5 \in Nat, NEW a6 \in Nat,
           NEW a7 \in Nat, NEW a9 \in Nat,
           NEW b1 \in Nat, NEW b2 \in Nat, NEW b3 \in Nat, NEW b4 \in Nat,
           NEW b6 \in Nat, NEW b7 \in Nat, NEW b9 \in Nat,
           a1 <= b1, a2 <= b2, a3 <= b3, a4 <= b4, a6 <= b6, a7 <= b7, a9 <= b9,
           a1 <= 7700, a2 <= 13800, a3 <= 9800, a4 <= 8400, a5 <= 7000,
           a6 <= 5600, a7 <= 4200, a9 <= 2100
    PROVE  /\ a1 + a2 + a3 + a4 + a5 + a6 + a7 + 0 + a9 \in Nat
           /\ a1 + a2 + a3 + a4 + a5 + a6 + a7 + 0 + a9 <= 58600
           /\ b1 + b2 + b3 + b4 + a5 + b6 + b7 + 0 + b9 \in Nat
           /\ a1 + a2 + a3 + a4 + a5 + a6 + a7 + 0 + a9
                <= b1 + b2 + b3 + b4 + a5 + b6 + b7 + 0 + b9
  <1>1. a1 + a2 + a3 + a4 + a5 + a6 + a7 + 0 + a9 \in Nat
    OBVIOUS
  <1>2. b1 + b2 + b3 + b4 + a5 + b6 + b7 + 0 + b9 \in Nat
    OBVIOUS
  <1>3. a1 + a2 + a3 + a4 + a5 + a6 + a7 + 0 + a9
                <= b1 + b2 + b3 + b4 + a5 + b6 + b7 + 0 + b9
    OBVIOUS
  <1>4. a1 + a2 + a3 + a4 + a5 + a6 + a7 + 0 + a9 <= 58600
    OBVIOUS
  <1> QED
    BY <1>1, <1>2, <1>3, <1>4

\* f, d and n are no weaker evidence, confidence and number of sightings than
\* e, c and m.
NoWeaker(e, f, c, d, m, n) ==
    /\ e.detected \in 0..69 /\ f.detected \in 0..69
    /\ e.detected <= f.detected
    /\ e.country \in HighRiskGeos => f.country \in HighRiskGeos
    /\ c \in 0..5 /\ d \in 0..5 /\ c <= d
    /\ m \in Nat /\ n \in Nat /\ m <= n

\* More of any input, at the same age, never lowers the score; and it is at
\* most 84, whatever the inputs.
LEMMA ScoreGrows ==
    ASSUME NEW e, NEW f, NEW c, NEW d, NEW m, NEW n, NoWeaker(e, f, c, d, m, n),
           NEW p \in BOOLEAN, NEW q \in BOOLEAN, p => q, NEW age \in 0..MaxAge
    PROVE  /\ Score(SignalsFrom(e, p, c, m, age)) \in 0..84
           /\ Score(SignalsFrom(e, p, c, m, age)) <= Score(SignalsFrom(f, q, d, n, age))
  <1> USE DEF NoWeaker
  <1> SUFFICES ASSUME NEW s, s = SignalsFrom(e, p, c, m, age),
                      NEW t, t = SignalsFrom(f, q, d, n, age)
               PROVE  Score(s) \in 0..84 /\ Score(s) <= Score(t)
    OBVIOUS
  <1>1. Amounts(s, e, p, c, m, age) /\ Amounts(t, f, q, d, n, age)
    BY SignalsAre
  <1>2. Least(700, 14 * m) \in Nat /\ Least(700, 14 * m) <= 700 /\ Least(700, 14 * n) \in Nat
        /\ Least(700, 14 * n) <= 700
        /\ Least(700, 14 * m) <= Least(700, 14 * n)
    BY DEF Least
  <1>3. /\ s.source_reputation \in Nat /\ s.source_reputation <= 350 /\ t.source_reputation \in Nat /\ t.source_reputation <= 350
        /\ s.source_reputation <= t.source_reputation
        /\ s.blacklist_presence \in Nat /\ s.blacklist_presence <= 700 /\ t.blacklist_presence \in Nat /\ t.blacklist_presence <= 700
        /\ s.blacklist_presence <= t.blacklist_presence
    BY <1>1 DEF Amounts
  <1>4. /\ s.geo_risk \in Nat /\ s.geo_risk <= 700 /\ t.geo_risk \in Nat /\ t.geo_risk <= 700
        /\ s.geo_risk <= t.geo_risk
    BY <1>1 DEF Amounts
  <1>5. /\ s.detection_ratio \in Nat /\ s.detection_ratio <= 690 /\ t.detection_ratio \in Nat /\ t.detection_ratio <= 690
        /\ s.detection_ratio <= t.detection_ratio
    BY <1>1 DEF Amounts
  <1>6. /\ s.confidence \in Nat /\ s.confidence <= 700 /\ t.confidence \in Nat /\ t.confidence <= 700
         /\ s.confidence <= t.confidence
    BY <1>1 DEF Amounts
  <1>7. /\ s.frequency \in Nat /\ s.frequency <= 700 /\ t.frequency \in Nat /\ t.frequency <= 700 /\ s.frequency <= t.frequency
        /\ s.recency \in Nat /\ s.recency <= 700 /\ s.recency = t.recency
        /\ s.port_risk = 0 /\ t.port_risk = 0
        /\ s.historical_activity \in Nat /\ s.historical_activity <= 700 /\ t.historical_activity \in Nat /\ t.historical_activity <= 700
        /\ s.historical_activity <= t.historical_activity
    BY <1>1, <1>2, TablesAre DEF Amounts
  <1>8. /\ Total(Contribution(s)) \in Nat /\ Total(Contribution(s)) <= 58600 /\ Total(Contribution(t)) \in Nat
        /\ Total(Contribution(s)) <= Total(Contribution(t))
    <2>1. /\ 22 * s.source_reputation \in Nat /\ 22 * s.source_reputation <= 7700 /\ 22 * t.source_reputation \in Nat
          /\ 22 * s.source_reputation <= 22 * t.source_reputation
          /\ 14 * s.blacklist_presence \in Nat /\ 14 * s.blacklist_presence <= 9800 /\ 14 * t.blacklist_presence \in Nat
          /\ 14 * s.blacklist_presence <= 14 * t.blacklist_presence
      BY <1>3
    <2>2. /\ 20 * s.detection_ratio \in Nat /\ 20 * s.detection_ratio <= 13800 /\ 20 * t.detection_ratio \in Nat
          /\ 20 * s.detection_ratio <= 20 * t.detection_ratio
          /\ 12 * s.confidence \in Nat /\ 12 * s.confidence <= 8400 /\ 12 * t.confidence \in Nat
          /\ 12 * s.confidence <= 12 * t.confidence
      BY <1>5, <1>6
    <2>3. /\ 10 * s.recency \in Nat /\ 10 * s.recency <= 7000 /\ 10 * s.recency = 10 * t.recency
          /\ 8 * s.frequency \in Nat /\ 8 * s.frequency <= 5600 /\ 8 * t.frequency \in Nat
          /\ 8 * s.frequency <= 8 * t.frequency
          /\ 3 * s.historical_activity \in Nat /\ 3 * s.historical_activity <= 2100 /\ 3 * t.historical_activity \in Nat
          /\ 3 * s.historical_activity <= 3 * t.historical_activity
      BY <1>7
    <2>4. /\ 6 * s.geo_risk \in Nat /\ 6 * s.geo_risk <= 4200 /\ 6 * t.geo_risk \in Nat
          /\ 6 * s.geo_risk <= 6 * t.geo_risk
          /\ 5 * s.port_risk = 0 /\ 5 * t.port_risk = 0
      BY <1>4, <1>7
    <2> DEFINE Sum(u) == 22 * u.source_reputation + 20 * u.detection_ratio
                           + 14 * u.blacklist_presence + 12 * u.confidence
                           + 10 * u.recency + 8 * u.frequency + 6 * u.geo_risk
                           + 0 + 3 * u.historical_activity
    <2>6. Sum(s) \in Nat /\ Sum(s) <= 58600 /\ Sum(t) \in Nat /\ Sum(s) <= Sum(t)
      BY <2>1, <2>2, <2>3, <2>4, SumGrows
    <2>7. Total(Contribution(s)) = Sum(s) /\ Total(Contribution(t)) = Sum(t)
      BY <2>4, TotalIs
    <2> QED
      BY <2>6, <2>7
  <1>9. Rounded(Total(Contribution(s))) \in Nat
         /\ Rounded(Total(Contribution(s))) <= Rounded(Total(Contribution(t)))
    BY <1>8, RoundedMonotone
  <1>10. Rounded(Total(Contribution(s))) <= 84
    BY <1>8, RoundedAtMost
  <1> QED
    BY <1>9, <1>10 DEF Score

----------------------------------------------------------------------------
(* What an indicator amounts to                                            *)

\* What is known of an indicator at an upsert, with or without enrichment.
Evidence(i, enriched) == IF enriched THEN Facets(i) ELSE NoEnrichment

\* Indicator i is written as the classifier writes it, and would be recognised
\* again; refang finds nothing in its value, unless its type is loose.
Stable(i) ==
    /\ Format[i.value] = i.type /\ Normal(i.value) = i.value
    /\ i.type \notin Loose => Refang[i.value] = i.value

\* A string is classified as an indicator or as unknown; names are lower-cased
\* and hosts are what they look like.
LEMMA ClassifyAre ==
    ASSUME NEW raw \in Word, Classify(raw) # Unknown
    PROVE  LET i == Classify(raw) IN
           /\ i \in Indicator /\ Stable(i)
           /\ i.type \in Hosts => HostType(i.value) = i.type
           /\ i.type \in {"domain-name", "ipv4-addr"} => Lower[i.value] = i.value
  <1> DEFINE w == Refang[raw]
             v == Normal(w)
  <1>1. Refang \in [Word -> Word] /\ Format \in [Word -> Types \cup {"none"}]
        /\ \A x \in Word : Lower[x] \in Word /\ Upper[x] \in Word /\ Bare[x] \in Word
    BY WordAssumption
  <1>2. w \in Word
    BY <1>1
  <1>3. Format[w] \in Types /\ Format[w] # "none" /\ Classify(raw) = [type |-> Format[w], value |-> v]
    BY <1>1, <1>2 DEF Classify, Types, Hashes, Hosts
  <1>4. v \in {Lower[w], Upper[w], Bare[w], w}
    BY DEF Normal
  <1>5. v \in Word
    BY <1>1, <1>2, <1>4
  <1>6. /\ Format[v] = Format[w] /\ Normal(v) = v
        /\ Format[w] = "ipv4-addr" => Lower[Bare[w]] = Bare[w]
    BY <1>2, <1>3, SpellingAssumption
  <1>7. Format[w] \notin Loose => Refang[v] = v
    BY <1>3, SpellingAssumption
  <1>8. Format[w] = "domain-name" => Lower[v] = v
    <2>1. Format[v] = "domain-name" => Normal(v) = Lower[v]
      BY DEF Normal, Hashes
    <2> QED
      BY <1>6, <2>1
  <1>9. Format[w] = "ipv4-addr" => v = Bare[w]
    BY DEF Normal, Hashes
  <1> HIDE DEF w, v
  <1>10. Format[w] \in Hosts => HostType(v) = Format[w]
    BY <1>6 DEF HostType, Hosts
  <1> QED
    BY <1>3, <1>5, <1>6, <1>7, <1>8, <1>9, <1>10 DEF Indicator, Stable

\* Reputation counts at most 69 detections; no enrichment, none.
LEMMA EvidenceAre ==
    ASSUME NEW i \in Indicator, NEW enriched \in BOOLEAN
    PROVE  /\ Evidence(i, enriched).detected \in 0..69
           /\ NoEnrichment.detected = 0 /\ NoEnrichment.country \notin HighRiskGeos
  <1>1. Detected \in [Word -> 0..69] /\ HostName \in [Word -> Word]
    BY EnrichmentAssumption, WordAssumption
  <1>2. i.value \in Word /\ HostOf(i) \in Word
    BY <1>1 DEF Indicator, HostOf
  <1>3. Detected[i.value] \in 0..69 /\ Detected[HostOf(i)] \in 0..69
    BY <1>1, <1>2
  <1>4. Facets(i).detected \in {0, Detected[i.value], Detected[HostOf(i)]}
    BY DEF Facets, NoEnrichment
  <1>5. NoEnrichment.detected = 0 /\ NoEnrichment.country \notin HighRiskGeos
    BY ScoringAssumption DEF NoEnrichment
  <1> QED
    BY <1>3, <1>4, <1>5 DEF Evidence

\* A look-up, whatever it answers, has no say in the score.
LEMMA EnrichIsEvidence ==
    ASSUME NEW i, NEW answer, NEW p, NEW c, NEW n, NEW age
    PROVE  SignalsFrom(Enrich(cfg, i, answer), p, c, n, age)
             = SignalsFrom(Facets(i), p, c, n, age)
  <1>1. /\ Enrich(cfg, i, answer).detected = Facets(i).detected
        /\ Enrich(cfg, i, answer).country = Facets(i).country
    BY DEF Enrich, Facets, NoEnrichment
  <1> QED
    BY <1>1 DEF SignalsFrom

----------------------------------------------------------------------------
(* The invariant of the rows                                               *)

\* The row r of indicator i explains its score: it is that of the evidence,
\* of the last submission and of the sightings up to it.
Explained(i, r, day) ==
    /\ i \in Indicator /\ Stable(i)
    /\ i.type \in Hosts => HostType(i.value) = i.type
    /\ i.type \in {"domain-name", "ipv4-addr"} => Lower[i.value] = i.value
    /\ r.sightings \in Nat /\ r.confidence \in Confidence
    /\ r.by.reputable \in BOOLEAN /\ r.by.enriched \in BOOLEAN
    /\ r.by.confidence \in Confidence
    /\ r.first \in Nat /\ r.by.day \in Nat /\ r.first <= r.by.day /\ r.by.day <= day
    /\ r.score = Score(SignalsFrom(Evidence(i, r.by.enriched), r.by.reputable,
                                   r.by.confidence, r.sightings, r.by.day - r.first))
    /\ r.level = Level(r.score)

\* What is still to come is well-formed.
PendingOK ==
    /\ cfg \in Configs
    /\ today \in 0..MaxAge
    /\ batch \in Seq(Posting)

RowsOK == \A i \in DOMAIN iocs : Explained(i, iocs[i], today)

Inv == PendingOK /\ RowsOK

\* No row is rated critical.
LEMMA ExplainedBelow85 ==
    ASSUME NEW i, NEW r, NEW day \in 0..MaxAge, Explained(i, r, day)
    PROVE  r.score \in 0..84 /\ r.level # "critical"
  <1> DEFINE e == Evidence(i, r.by.enriched)
             age == r.by.day - r.first
  <1>1. e.detected \in 0..69
    BY EvidenceAre DEF Explained
  <1>2. age \in 0..MaxAge
    BY ScoringAssumption DEF Explained
  <1>3. /\ r.by.reputable \in BOOLEAN /\ r.by.confidence \in 0..5 /\ r.sightings \in Nat
        /\ r.score = Score(SignalsFrom(e, r.by.reputable, r.by.confidence, r.sightings, age))
    BY DEF Explained, Confidence
  <1> HIDE DEF e, age
  <1>4. r.score \in 0..84
    <2>1. NoWeaker(e, e, r.by.confidence, r.by.confidence, r.sightings, r.sightings)
      BY <1>1, <1>3 DEF NoWeaker
    <2> QED
      BY <1>2, <1>3, <2>1, ScoreGrows
  <1>5. r.level = Level(r.score)
    BY DEF Explained
  <1> QED
    BY <1>4, <1>5 DEF Level

\* One upsert: every row stays explained, no other row changes, and that of
\* the indicator is that of one more sighting.
LEMMA UpsertExplains ==
    ASSUME Inv, NEW raw \in Word, NEW source, NEW confidence \in Confidence,
           NEW enrich \in BOOLEAN, NEW answer, NEW hook,
           Upsert(raw, source, confidence, enrich, answer, hook)
    PROVE  LET i == Classify(raw)
               r == iocs'[i] IN
           /\ i \in Indicator /\ DOMAIN iocs' = DOMAIN iocs \cup {i}
           /\ \A j \in DOMAIN iocs : j # i => iocs'[j] = iocs[j]
           /\ Explained(i, r, today)
           /\ r.by.day = today
           /\ i \in DOMAIN iocs => /\ r.first = iocs[i].first
                                  /\ r.sightings = iocs[i].sightings + 1
  <1> DEFINE i == Classify(raw)
             seen == Sighted(i)
             first == FirstSeen(i)
             p == source \in ReputableSources
             enrichment == IF enrich THEN Enrich(cfg, i, answer) ELSE NoEnrichment
             r == Scored(i, enrichment, source, confidence, enrich)
  <1>1. /\ i \in Indicator /\ Stable(i)
        /\ i.type \in Hosts => HostType(i.value) = i.type
        /\ i.type \in {"domain-name", "ipv4-addr"} => Lower[i.value] = i.value
    BY ClassifyAre DEF Upsert
  <1>2. iocs' = [j \in DOMAIN iocs \cup {i} |-> IF j # i THEN iocs[j] ELSE r]
    BY DEF Upsert
  <1>3. /\ seen \in Nat /\ first \in Nat /\ first <= today /\ today \in Nat
        /\ r.confidence \in Confidence
    BY DEF Inv, RowsOK, PendingOK, Explained, Sighted, FirstSeen, Scored
  <1>4. SignalsFrom(enrichment, p, confidence, seen, today - first)
          = SignalsFrom(Evidence(i, enrich), p, confidence, seen, today - first)
    BY EnrichIsEvidence DEF Evidence
  <1>5. /\ r.sightings = seen /\ r.first = first
        /\ r.by.reputable = p /\ r.by.confidence = confidence
        /\ r.by.enriched = enrich /\ r.by.day = today
        /\ r.score = Score(SignalsFrom(enrichment, p, confidence, seen, today - first))
        /\ r.level = Level(r.score)
    BY DEF Scored
  <1>6. p \in BOOLEAN
    OBVIOUS
  <1>7. i \in DOMAIN iocs => first = iocs[i].first /\ seen = iocs[i].sightings + 1
    BY DEF Sighted, FirstSeen
  <1> HIDE DEF i, seen, first, p, enrichment, r
  <1>8. today <= today
    BY <1>3
  <1>9. Explained(i, r, today)
    BY <1>1, <1>3, <1>4, <1>5, <1>6, <1>8 DEF Explained
  <1>10. iocs'[i] = r /\ DOMAIN iocs' = DOMAIN iocs \cup {i}
         /\ \A j \in DOMAIN iocs : j # i => iocs'[j] = iocs[j]
    BY <1>2
  <1> QED
    BY <1>1, <1>5, <1>7, <1>9, <1>10 DEF i

\* An upsert is one of a well-formed submission, and leaves what is to come.
LEMMA UpsertKeepsRows ==
    ASSUME Inv, NEW raw \in Word, NEW source, NEW confidence \in Confidence,
           NEW enrich \in BOOLEAN, NEW answer, NEW hook,
           Upsert(raw, source, confidence, enrich, answer, hook), today' = today
    PROVE  RowsOK'
  <1> DEFINE i == Classify(raw)
  <1>1. /\ DOMAIN iocs' = DOMAIN iocs \cup {i} /\ Explained(i, iocs'[i], today)
        /\ \A j \in DOMAIN iocs : j # i => iocs'[j] = iocs[j]
    BY UpsertExplains
  <1> HIDE DEF i
  <1>2. \A j \in DOMAIN iocs : Explained(j, iocs[j], today)
    BY DEF Inv, RowsOK
  <1>3. \A j \in DOMAIN iocs' : Explained(j, iocs'[j], today)
    BY <1>1, <1>2
  <1> QED
    BY <1>3 DEF RowsOK

LEMMA InvInit == Init => Inv
  <1> SUFFICES ASSUME Init PROVE Inv
    OBVIOUS
  <1>1. DOMAIN iocs = {} /\ today = 0 /\ batch = <<>> /\ cfg \in Configs
    BY DEF Init
  <1> QED
    BY <1>1, ScoringAssumption DEF Inv, RowsOK, PendingOK

LEMMA InvStep == Inv /\ [Next]_vars => Inv'
  <1> SUFFICES ASSUME Inv, [Next]_vars PROVE Inv'
    OBVIOUS
  <1> USE DEF Inv
  <1>1. ASSUME NEW s \in Submissions, NEW answer, NEW hook, Submit(s, answer, hook)
        PROVE  Inv'
    <2>1. s \in Posting
      BY CatalogueAssumption
    <2>2. RowsOK'
      BY <1>1, <2>1, UpsertKeepsRows DEF Submit, Posting
    <2> QED
      BY <1>1, <2>2 DEF Submit, PendingOK
  <1>2. ASSUME NEW i \in DOMAIN iocs, NEW answer, NEW hook, Rerun(i, answer, hook)
        PROVE  Inv'
    <2>1. i.value \in Word /\ iocs[i].confidence \in Confidence
      BY DEF RowsOK, Explained, Indicator
    <2>2. RowsOK'
      BY <1>2, <2>1, UpsertKeepsRows DEF Rerun
    <2> QED
      BY <1>2, <2>2 DEF Rerun, PendingOK
  <1>3. ASSUME NEW m \in Imports, Import(m) PROVE Inv'
    <2> DEFINE found == Extract(m.doc, m.fmt, m.limit)
    <2>1. /\ found \in Seq(Indicator)
          /\ m.confidence \in Confidence /\ m.source \in Sources /\ m.enrich \in BOOLEAN
      BY CatalogueAssumption, ExtractType
    <2>2. batch' = [n \in DOMAIN found |-> [raw |-> found[n].value, source |-> m.source,
                                            confidence |-> m.confidence, enrich |-> m.enrich]]
      BY <1>3 DEF Import
    <2> HIDE DEF found
    <2>3. PICK k \in Nat : found \in [1..k -> Indicator]
      BY <2>1
    <2>4. batch' \in [1..k -> Posting]
      BY <2>1, <2>2, <2>3 DEF Posting, Indicator
    <2>5. batch' \in Seq(Posting)
      BY <2>4
    <2> QED
      BY <1>3, <2>5 DEF Import, PendingOK, RowsOK
  <1>4. ASSUME NEW f \in Feeds, RunCollector(f) PROVE Inv'
    <2> DEFINE items == Collect(cfg, f.name, f.feed, f.up, f.limit)
               Entry == [value : Word, confidence : Confidence]
    <2>1. f.name \in Sources /\ f.enrich \in BOOLEAN
      BY CatalogueAssumption
    <2>2. batch' = [n \in DOMAIN items |-> [raw |-> items[n].value, source |-> f.name,
                                            confidence |-> items[n].confidence, enrich |-> f.enrich]]
      BY <1>4 DEF RunCollector
    <2>3. items \in Seq(Entry)
      BY CollectType
    <2>4. \A x \in Entry : x.value \in Word /\ x.confidence \in Confidence
      OBVIOUS
    <2> HIDE DEF items, Entry
    <2>5. PICK k \in Nat : items \in [1..k -> Entry]
      BY <2>3
    <2>6. batch' \in [1..k -> Posting]
      BY <2>1, <2>2, <2>4, <2>5 DEF Posting
    <2>7. batch' \in Seq(Posting)
      BY <2>6
    <2> QED
      BY <1>4, <2>7 DEF RunCollector, PendingOK, RowsOK
  <1>5. ASSUME NEW answer, NEW hook, IngestNext(answer, hook) PROVE Inv'
    <2>1. batch \in Seq(Posting) /\ batch # <<>>
      BY <1>5 DEF IngestNext, PendingOK
    <2>2. Head(batch) \in Posting /\ Tail(batch) \in Seq(Posting)
      BY <2>1
    <2>3. PendingOK'
      BY <1>5, <2>2 DEF IngestNext, PendingOK
    <2>4. CASE UNCHANGED iocs
      BY <1>5, <2>3, <2>4 DEF IngestNext, RowsOK
    <2>5. CASE Upsert(Head(batch).raw, Head(batch).source, Head(batch).confidence,
                      Head(batch).enrich, answer, hook)
      <3>1. RowsOK'
        BY <1>5, <2>2, <2>5, UpsertKeepsRows DEF IngestNext, Posting
      <3> QED
        BY <2>3, <3>1
    <2> QED
      BY <1>5, <2>4, <2>5 DEF IngestNext
  <1>6. ASSUME NEW k \in Relations, Relate(k) PROVE Inv'
    BY <1>6 DEF Relate, PendingOK, RowsOK
  <1>7. ASSUME DayPasses PROVE Inv'
    <2>1. today' = today + 1 /\ today' \in 0..MaxAge /\ today \in Nat
      BY <1>7, ScoringAssumption DEF DayPasses, PendingOK
    <2>2. \A i \in DOMAIN iocs : Explained(i, iocs[i], today')
      <3> SUFFICES ASSUME NEW i \in DOMAIN iocs PROVE Explained(i, iocs[i], today')
        OBVIOUS
      <3>1. Explained(i, iocs[i], today)
        BY DEF RowsOK
      <3>2. iocs[i].by.day <= today'
        BY <2>1, <3>1 DEF Explained
      <3> QED
        BY <3>1, <3>2 DEF Explained
    <2> QED
      BY <1>7, <2>1, <2>2 DEF DayPasses, PendingOK, RowsOK
  <1>8. CASE UNCHANGED vars
    BY <1>8 DEF vars, PendingOK, RowsOK
  <1> QED
    BY <1>1, <1>2, <1>3, <1>4, <1>5, <1>6, <1>7, <1>8 DEF Next

\* Every row is, at any time, that of an explained score (see Explained): what
\* upsert stores is a function of the last submission and the sightings.
THEOREM RowsExplained == Spec => []Inv
  BY InvInit, InvStep, PTL DEF Spec

\* No run of requests, and no choice of feeds, weights' tables or days, rates
\* an indicator critical (NoneIsCritical).
THEOREM NoneRatedCritical == Spec => []NoneIsCritical
  <1>1. Inv => NoneIsCritical
    <2> SUFFICES ASSUME Inv, NEW i \in DOMAIN iocs
                 PROVE  iocs[i].level # "critical" /\ iocs[i].score <= 84
      BY DEF NoneIsCritical
    <2>1. Explained(i, iocs[i], today) /\ today \in 0..MaxAge
      BY DEF Inv, RowsOK, PendingOK
    <2>2. iocs[i].score \in 0..84 /\ iocs[i].level # "critical"
      BY <2>1, ExplainedBelow85
    <2> QED
      BY <2>2
  <1> QED
    BY <1>1, RowsExplained, PTL

----------------------------------------------------------------------------
(* A score falls for a reason                                              *)

\* One more sighting on the same day, by a source of no less standing, with no
\* less confidence and enrichment, does not lower the score.
LEMMA NoReasonNoFall ==
    ASSUME Inv, NEW i \in DOMAIN iocs, Explained(i, iocs'[i], today),
           iocs'[i].first = iocs[i].first,
           iocs'[i].sightings = iocs[i].sightings + 1,
           iocs[i].by.reputable => iocs'[i].by.reputable,
           iocs[i].by.confidence <= iocs'[i].by.confidence,
           iocs[i].by.enriched => iocs'[i].by.enriched,
           iocs'[i].by.day = iocs[i].by.day
    PROVE  iocs[i].score <= iocs'[i].score
  <1> DEFINE r == iocs[i]
             u == iocs'[i]
             e == Evidence(i, r.by.enriched)
             f == Evidence(i, u.by.enriched)
             age == r.by.day - r.first
  <1>1. Explained(i, r, today) /\ Explained(i, u, today) /\ today \in 0..MaxAge
    BY DEF Inv, RowsOK, PendingOK
  <1>2. age \in 0..MaxAge /\ u.by.day - u.first = age
    BY <1>1, ScoringAssumption DEF Explained
  <1>3. e.detected \in 0..69 /\ f.detected \in 0..69
    BY <1>1, EvidenceAre DEF Explained
  <1>4. e.detected <= f.detected /\ (e.country \in HighRiskGeos => f.country \in HighRiskGeos)
    <2>1. CASE r.by.enriched
      <3>1. e = f
        BY <2>1 DEF Evidence
      <3> HIDE DEF e, f
      <3> QED
        BY <1>3, <3>1
    <2>2. CASE ~r.by.enriched
      <3>1. e = NoEnrichment
        BY <2>2 DEF Evidence
      <3>2. NoEnrichment.detected = 0 /\ NoEnrichment.country \notin HighRiskGeos
        BY <1>1, EvidenceAre DEF Explained
      <3> HIDE DEF e, f
      <3> QED
        BY <1>3, <3>1, <3>2
    <2> QED
      BY <2>1, <2>2
  <1>5. /\ r.by.reputable \in BOOLEAN /\ u.by.reputable \in BOOLEAN
        /\ r.by.confidence \in 0..5 /\ u.by.confidence \in 0..5
        /\ r.sightings \in Nat /\ u.sightings \in Nat /\ r.sightings <= u.sightings
    BY <1>1 DEF Explained, Confidence
  <1>6. /\ r.score = Score(SignalsFrom(e, r.by.reputable, r.by.confidence, r.sightings, age))
        /\ u.score = Score(SignalsFrom(f, u.by.reputable, u.by.confidence, u.sightings, age))
    BY <1>1, <1>2 DEF Explained
  <1>7. /\ r.by.reputable => u.by.reputable
        /\ r.by.confidence <= u.by.confidence
    OBVIOUS
  <1> HIDE DEF r, u, e, f, age
  <1>8. PICK p \in BOOLEAN, q \in BOOLEAN : p = r.by.reputable /\ q = u.by.reputable
    BY <1>5
  <1>9. p => q
    BY <1>7, <1>8
  <1>10. Score(SignalsFrom(e, p, r.by.confidence, r.sightings, age))
           <= Score(SignalsFrom(f, q, u.by.confidence, u.sightings, age))
    <2>1. NoWeaker(e, f, r.by.confidence, u.by.confidence, r.sightings, u.sightings)
      BY <1>3, <1>4, <1>5, <1>7 DEF NoWeaker
    <2> QED
      BY <1>2, <1>9, <2>1, ScoreGrows
  <1>11. r.score <= u.score
    BY <1>6, <1>8, <1>10
  <1> QED
    BY <1>11 DEF r, u

\* A step that lowers a score has one of the reasons of ScoreFallsForAReason.
FallsForAReason ==
    \A i \in DOMAIN iocs : iocs'[i].score < iocs[i].score =>
        LET was == iocs[i].by
            is == iocs'[i].by IN
        \/ was.reputable /\ ~is.reputable
        \/ is.confidence < was.confidence
        \/ was.enriched /\ ~is.enriched
        \/ is.day > was.day

LEMMA UpsertFalls ==
    ASSUME Inv, NEW raw \in Word, NEW source, NEW confidence \in Confidence,
           NEW enrich \in BOOLEAN, NEW answer, NEW hook,
           Upsert(raw, source, confidence, enrich, answer, hook)
    PROVE  FallsForAReason
  <1> DEFINE i == Classify(raw)
  <1>1. /\ \A j \in DOMAIN iocs : j # i => iocs'[j] = iocs[j]
        /\ Explained(i, iocs'[i], today) /\ iocs'[i].by.day = today
        /\ i \in DOMAIN iocs => /\ iocs'[i].first = iocs[i].first
                               /\ iocs'[i].sightings = iocs[i].sightings + 1
    BY UpsertExplains
  <1> HIDE DEF i
  <1>2. SUFFICES ASSUME NEW j \in DOMAIN iocs, iocs'[j].score < iocs[j].score,
                        ~(iocs[j].by.reputable /\ ~iocs'[j].by.reputable),
                        ~(iocs'[j].by.confidence < iocs[j].by.confidence),
                        ~(iocs[j].by.enriched /\ ~iocs'[j].by.enriched),
                        ~(iocs'[j].by.day > iocs[j].by.day)
                 PROVE  FALSE
    BY DEF FallsForAReason
  <1>3. Explained(j, iocs[j], today) /\ today \in 0..MaxAge
    BY DEF Inv, RowsOK, PendingOK
  <1>4. iocs[j].score \in 0..84
    BY <1>3, ExplainedBelow85
  <1>5. j = i
    <2>1. CASE iocs'[j] = iocs[j]
      BY <1>2, <1>4, <2>1
    <2> QED
      BY <1>1, <2>1
  <1>6. Explained(j, iocs'[j], today) /\ iocs'[j].by.day = today
    BY <1>1, <1>5
  <1>7. iocs'[j].score \in 0..84
    BY <1>3, <1>6, ExplainedBelow85
  <1>8. /\ iocs[j].by.confidence <= iocs'[j].by.confidence
        /\ iocs'[j].by.day = iocs[j].by.day
    BY <1>2, <1>3, <1>6 DEF Explained, Confidence
  <1>9. iocs[j].score <= iocs'[j].score
    BY <1>1, <1>2, <1>5, <1>6, <1>8, NoReasonNoFall
  <1>10. iocs'[j].score < iocs[j].score
    BY <1>2
  <1>11. iocs[j].score \in Nat /\ iocs'[j].score \in Nat
    BY <1>4, <1>7
  <1> QED
    BY <1>9, <1>10, <1>11

LEMMA StepFalls == Inv /\ [Next]_vars => FallsForAReason \/ UNCHANGED vars
  <1> SUFFICES ASSUME Inv, [Next]_vars, iocs' # iocs PROVE FallsForAReason
    <2>1. iocs' = iocs /\ Inv => FallsForAReason
      <3> SUFFICES ASSUME iocs' = iocs, Inv, NEW i \in DOMAIN iocs,
                          iocs'[i].score < iocs[i].score
                   PROVE  FALSE
        BY DEF FallsForAReason
      <3>1. Explained(i, iocs[i], today) /\ today \in 0..MaxAge
        BY DEF Inv, RowsOK, PendingOK
      <3>2. iocs[i].score \in 0..84
        BY <3>1, ExplainedBelow85
      <3> QED
        BY <3>2
    <2> QED
      BY <2>1
  <1>1. ASSUME NEW s \in Submissions, NEW answer, NEW hook, Submit(s, answer, hook)
        PROVE  FallsForAReason
    <2>1. s \in Posting
      BY CatalogueAssumption
    <2> QED
      BY <1>1, <2>1, UpsertFalls DEF Submit, Posting
  <1>2. ASSUME NEW i \in DOMAIN iocs, NEW answer, NEW hook, Rerun(i, answer, hook)
        PROVE  FallsForAReason
    <2>1. i.value \in Word /\ iocs[i].confidence \in Confidence
      BY DEF Inv, RowsOK, Explained, Indicator
    <2> QED
      BY <1>2, <2>1, UpsertFalls DEF Rerun
  <1>3. ASSUME NEW answer, NEW hook, IngestNext(answer, hook) PROVE FallsForAReason
    <2>1. Head(batch) \in Posting
      BY <1>3 DEF IngestNext, Inv, PendingOK
    <2> QED
      BY <1>3, <2>1, UpsertFalls DEF IngestNext, Posting
  <1> QED
    BY <1>1, <1>2, <1>3 DEF Next, Import, RunCollector, Relate, DayPasses, vars

\* The score of an indicator falls only for one of the four reasons, whatever
\* the resolvers answer and whatever is submitted (ScoreFallsForAReason).
THEOREM ScoresFallForAReason == Spec => ScoreFallsForAReason
  <1>1. Inv /\ [Next]_vars => [FallsForAReason]_vars
    BY StepFalls
  <1>2. [FallsForAReason]_vars <=>
          [\A i \in DOMAIN iocs : iocs'[i].score < iocs[i].score =>
              LET was == iocs[i].by
                  is == iocs'[i].by IN
              \/ was.reputable /\ ~is.reputable
              \/ is.confidence < was.confidence
              \/ was.enriched /\ ~is.enriched
              \/ is.day > was.day]_vars
    BY DEF FallsForAReason
  <1> QED
    BY <1>1, <1>2, RowsExplained, PTL DEF Spec, ScoreFallsForAReason

----------------------------------------------------------------------------
(* Where requests go                                                       *)

\* The addresses that a look-up gives are public ones.
LEMMA ResolvedArePublic ==
    ASSUME NEW h, NEW answer
    PROVE  Resolved(cfg, h, answer) \subseteq Global \ Flagged
  BY DEF Resolved, ResolvePublic, IpIsPublic

\* The part of ContactsAreAllowed about what is looked up, fetched and posted to.
Outgoing ==
    /\ ~cfg.live => contacted \cup posted = {}
    /\ posted \subseteq Global \ Flagged
    /\ \A c \in contacted :
          IF c[1] = "feed" THEN c[2] \in RequiresKey => c[2] \in cfg.keyed
          ELSE cfg.allowed = {} \/ Inside[c[2]] \cap cfg.allowed # {}

\* The part about what look-ups put into the graph.
DnsPublic ==
    \A k \in DOMAIN edges : k.rel = "resolves-to" /\ edges[k].source = "dns" =>
        k.dst.value \in Global \ Flagged

\* The links an upsert adds: to the host of a URL, and to public addresses.
LEMMA CorrelatedAre ==
    ASSUME NEW i, NEW resolved, resolved \subseteq Global \ Flagged, NEW source,
           DnsPublic, edges' = Correlated(edges, i, resolved, source)
    PROVE  /\ DnsPublic'
           /\ DOMAIN edges \subseteq DOMAIN edges'
           /\ i.type = "url" =>
                 Edge(i, HostRef(HostName[i.value]), "communicates-with") \in DOMAIN edges'
  <1> DEFINE hosts == IF i.type = "url"
                      THEN {Edge(i, HostRef(HostName[i.value]), "communicates-with")} ELSE {}
             found == {Edge(i, HostRef(a), "resolves-to") : a \in resolved}
             E == UpsertEdges(edges, hosts, 9, source)
  <1>1. edges' = UpsertEdges(E, found, 8, "dns")
    BY DEF Correlated
  <1>2. \A k \in hosts : k.rel = "communicates-with"
    BY DEF Edge
  <1>3. \A k \in found : k.dst.value \in Global \ Flagged
    BY DEF Edge, HostRef
  <1>4. i.type = "url" =>
            Edge(i, HostRef(HostName[i.value]), "communicates-with") \in hosts
    OBVIOUS
  <1>5. /\ DOMAIN E = DOMAIN edges \cup hosts
        /\ \A k \in DOMAIN edges : E[k].source = edges[k].source
    BY DEF UpsertEdges
  <1> HIDE DEF hosts, found, E
  <1>6. /\ DOMAIN edges' = DOMAIN E \cup found
        /\ \A k \in DOMAIN E : edges'[k].source = E[k].source
    BY <1>1 DEF UpsertEdges
  <1>7. ASSUME NEW k \in DOMAIN edges', k.rel = "resolves-to", edges'[k].source = "dns"
        PROVE  k.dst.value \in Global \ Flagged
    <2>1. CASE k \in found
      BY <1>3, <2>1
    <2>2. CASE k \in DOMAIN edges
      BY <1>5, <1>6, <1>7, <2>2 DEF DnsPublic
    <2>3. CASE k \in hosts
      BY <1>2, <1>7, <2>3
    <2> QED
      BY <1>5, <1>6, <2>1, <2>2, <2>3
  <1> QED
    BY <1>4, <1>5, <1>6, <1>7 DEF DnsPublic

LEMMA UpsertGoesOut ==
    ASSUME Outgoing, DnsPublic, NEW raw, NEW source, NEW confidence,
           NEW enrich \in BOOLEAN, NEW answer, NEW hook,
           Upsert(raw, source, confidence, enrich, answer, hook), cfg' = cfg
    PROVE  /\ Outgoing' /\ DnsPublic'
           /\ DOMAIN edges \subseteq DOMAIN edges'
           /\ Classify(raw).type = "url" =>
                 Edge(Classify(raw), HostRef(HostName[Classify(raw).value]),
                      "communicates-with") \in DOMAIN edges'
  <1> DEFINE i == Classify(raw)
             enrichment == IF enrich THEN Enrich(cfg, i, answer) ELSE NoEnrichment
             asked == IF enrich /\ HasHost(i) /\ AsksResolver(cfg, HostOf(i))
                      THEN {<<"host", HostOf(i)>>} ELSE {}
             hooked == IF cfg.live /\ Admits(cfg, Webhook.scheme, Webhook.host)
                       THEN {<<"host", Webhook.host>>} ELSE {}
  <1>1. /\ edges' = Correlated(edges, i, enrichment.resolved, source)
        /\ contacted' = contacted \cup asked \cup hooked
        /\ posted' = IF cfg.live /\ Validates(cfg, Webhook.scheme, Webhook.host, hook)
                     THEN posted \cup hook.ips ELSE posted
    BY DEF Upsert
  <1>2. enrichment.resolved \subseteq Global \ Flagged
    <2>1. Resolved(cfg, HostOf(i), answer) \subseteq Global \ Flagged
      BY ResolvedArePublic
    <2>2. Enrich(cfg, i, answer).resolved \in {Resolved(cfg, HostOf(i), answer), {}}
      BY DEF Enrich, Facets, NoEnrichment
    <2>3. NoEnrichment.resolved = {}
      BY DEF NoEnrichment
    <2> QED
      BY <2>1, <2>2, <2>3
  <1>3. \A c \in asked \cup hooked :
            /\ cfg.live
            /\ c[1] = "host" /\ (cfg.allowed = {} \/ Inside[c[2]] \cap cfg.allowed # {})
    BY DEF AsksResolver, Admits, HostAllowed
  <1>4. Validates(cfg, Webhook.scheme, Webhook.host, hook) =>
            hook.ips \subseteq Global \ Flagged
    BY DEF Validates, IpIsPublic
  <1>5. Outgoing'
    <2> HIDE DEF asked, hooked
    <2>1. posted' \subseteq Global \ Flagged
      BY <1>1, <1>4 DEF Outgoing
    <2>2. ~cfg.live => contacted' \cup posted' = {}
      BY <1>1, <1>3 DEF Outgoing
    <2>3. ASSUME NEW c \in contacted'
          PROVE  IF c[1] = "feed" THEN c[2] \in RequiresKey => c[2] \in cfg.keyed
                 ELSE cfg.allowed = {} \/ Inside[c[2]] \cap cfg.allowed # {}
      BY <1>1, <1>3 DEF Outgoing
    <2> QED
      BY <2>1, <2>2, <2>3 DEF Outgoing
  <1> QED
    BY <1>1, <1>2, <1>5, CorrelatedAre

LEMMA GoesOutInit == Init => Outgoing /\ DnsPublic
  BY DEF Init, Outgoing, DnsPublic

LEMMA GoesOutStep == Inv /\ Outgoing /\ DnsPublic /\ [Next]_vars => Outgoing' /\ DnsPublic'
  <1> SUFFICES ASSUME Inv, Outgoing, DnsPublic, [Next]_vars PROVE Outgoing' /\ DnsPublic'
    OBVIOUS
  <1>1. ASSUME NEW s \in Submissions, NEW answer, NEW hook, Submit(s, answer, hook)
        PROVE  Outgoing' /\ DnsPublic'
    BY <1>1, UpsertGoesOut, CatalogueAssumption DEF Submit, Posting
  <1>2. ASSUME NEW i \in DOMAIN iocs, NEW answer, NEW hook, Rerun(i, answer, hook)
        PROVE  Outgoing' /\ DnsPublic'
    BY <1>2, UpsertGoesOut DEF Rerun
  <1>3. ASSUME NEW m \in Imports, Import(m) PROVE Outgoing' /\ DnsPublic'
    BY <1>3 DEF Import, Outgoing, DnsPublic
  <1>4. ASSUME NEW f \in Feeds, RunCollector(f) PROVE Outgoing' /\ DnsPublic'
    <2> DEFINE fetched == IF IsLive(cfg, f.name) THEN {<<"feed", f.name>>} ELSE {}
    <2>1. /\ contacted' = contacted \cup fetched
          /\ UNCHANGED <<cfg, edges, posted>>
      BY <1>4 DEF RunCollector
    <2>2. \A c \in fetched : /\ cfg.live /\ c[1] = "feed"
                             /\ c[2] \in RequiresKey => c[2] \in cfg.keyed
      BY DEF IsLive
    <2> HIDE DEF fetched
    <2>3. Outgoing'
      BY <2>1, <2>2 DEF Outgoing
    <2> QED
      BY <2>1, <2>3 DEF DnsPublic
  <1>5. ASSUME NEW answer, NEW hook, IngestNext(answer, hook) PROVE Outgoing' /\ DnsPublic'
    <2>0. Head(batch) \in Posting
      BY <1>5 DEF IngestNext, Inv, PendingOK
    <2>1. Head(batch).enrich \in BOOLEAN
      BY <2>0 DEF Posting
    <2>2. CASE UNCHANGED <<edges, contacted, posted>>
      BY <1>5, <2>2 DEF IngestNext, Outgoing, DnsPublic
    <2> QED
      BY <1>5, <2>1, <2>2, UpsertGoesOut DEF IngestNext
  <1>6. ASSUME NEW k \in Relations, Relate(k) PROVE Outgoing' /\ DnsPublic'
    <2>1. edges' = UpsertEdges(edges, {k}, 5, "manual") /\ UNCHANGED <<cfg, contacted, posted>>
      BY <1>6 DEF Relate
    <2>2. /\ DOMAIN edges' = DOMAIN edges \cup {k}
          /\ \A j \in DOMAIN edges : edges'[j].source = edges[j].source
      BY <2>1 DEF UpsertEdges
    <2>3. k \notin DOMAIN edges => edges'[k].source = "manual"
      BY <2>1 DEF UpsertEdges
    <2> QED
      BY <2>1, <2>2, <2>3 DEF Outgoing, DnsPublic
  <1>7. CASE DayPasses
    BY <1>7 DEF DayPasses, Outgoing, DnsPublic
  <1>8. CASE UNCHANGED vars
    BY <1>8 DEF vars, Outgoing, DnsPublic
  <1> QED
    BY <1>1, <1>2, <1>3, <1>4, <1>5, <1>6, <1>7, <1>8 DEF Next

\* Whatever the resolvers answer, nothing leaves the machine while collectors
\* are off, only what the policy allows is contacted, and no internal address
\* is posted to or enters the graph by a look-up (ContactsAreAllowed).
THEOREM ContactsAllowed == Spec => []ContactsAreAllowed
  <1>1. Outgoing /\ DnsPublic => ContactsAreAllowed
    BY DEF Outgoing, DnsPublic, ContactsAreAllowed
  <1>2. Spec => [](Outgoing /\ DnsPublic)
    BY GoesOutInit, GoesOutStep, RowsExplained, PTL DEF Spec
  <1> QED
    BY <1>1, <1>2, PTL

----------------------------------------------------------------------------
(* URLs and their hosts                                                    *)

\* Every URL has its edge, whether or not its host is a row.
LinksOK ==
    \A u \in DOMAIN iocs : u.type = "url" =>
        Edge(u, HostRef(HostName[u.value]), "communicates-with") \in DOMAIN edges

LEMMA UpsertLinks ==
    ASSUME LinksOK, Outgoing, DnsPublic, NEW raw, NEW source, NEW confidence,
           NEW enrich \in BOOLEAN, NEW answer, NEW hook,
           Upsert(raw, source, confidence, enrich, answer, hook), cfg' = cfg
    PROVE  LinksOK'
  <1> DEFINE i == Classify(raw)
             link(u) == Edge(u, HostRef(HostName[u.value]), "communicates-with")
  <1>1. DOMAIN edges \subseteq DOMAIN edges' /\ (i.type = "url" => link(i) \in DOMAIN edges')
    BY UpsertGoesOut
  <1>2. DOMAIN iocs' = DOMAIN iocs \cup {i}
    BY DEF Upsert
  <1>3. \A u \in DOMAIN iocs : u.type = "url" => link(u) \in DOMAIN edges
    BY DEF LinksOK
  <1>4. \A u \in DOMAIN iocs' : u.type = "url" => link(u) \in DOMAIN edges'
    <2> HIDE DEF i, link
    <2> QED
      BY <1>1, <1>2, <1>3
  <1> QED
    BY <1>4 DEF LinksOK

LEMMA LinksStep == Inv /\ Outgoing /\ DnsPublic /\ LinksOK /\ [Next]_vars => LinksOK'
  <1> SUFFICES ASSUME Inv, Outgoing, DnsPublic, LinksOK, [Next]_vars PROVE LinksOK'
    OBVIOUS
  <1>1. ASSUME NEW s \in Submissions, NEW answer, NEW hook, Submit(s, answer, hook)
        PROVE  LinksOK'
    BY <1>1, UpsertLinks, CatalogueAssumption DEF Submit, Posting
  <1>2. ASSUME NEW i \in DOMAIN iocs, NEW answer, NEW hook, Rerun(i, answer, hook)
        PROVE  LinksOK'
    BY <1>2, UpsertLinks DEF Rerun
  <1>3. ASSUME NEW answer, NEW hook, IngestNext(answer, hook) PROVE LinksOK'
    <2>0. Head(batch) \in Posting
      BY <1>3 DEF IngestNext, Inv, PendingOK
    <2>1. Head(batch).enrich \in BOOLEAN
      BY <2>0 DEF Posting
    <2>2. CASE UNCHANGED <<iocs, edges>>
      BY <2>2 DEF LinksOK
    <2> QED
      BY <1>3, <2>1, <2>2, UpsertLinks DEF IngestNext
  <1>4. ASSUME NEW k \in Relations, Relate(k) PROVE LinksOK'
    <2>1. DOMAIN edges \subseteq DOMAIN edges' /\ iocs' = iocs
      BY <1>4 DEF Relate, UpsertEdges
    <2> QED
      BY <2>1 DEF LinksOK
  <1>5. CASE UNCHANGED <<iocs, edges>>
    BY <1>5 DEF LinksOK
  <1> QED
    BY <1>1, <1>2, <1>3, <1>4, <1>5 DEF Next, Import, RunCollector, DayPasses, vars

\* In whichever order they come and however the host is spelled, a URL and the
\* row of its host are linked (UrlsMeetTheirHosts).
THEOREM UrlsMeet == Spec => []UrlsMeetTheirHosts
  <1>1. Inv /\ LinksOK => UrlsMeetTheirHosts
    <2> SUFFICES ASSUME Inv, LinksOK, NEW u \in DOMAIN iocs, NEW i \in DOMAIN iocs,
                        u.type = "url", i.type \in Hosts,
                        Lower[i.value] = HostName[u.value],
                        i.type = "ipv6-addr" => i.value = Lower[i.value]
                 PROVE  Edge(u, i, "communicates-with") \in DOMAIN edges
      BY DEF UrlsMeetTheirHosts
    <2>1. /\ i \in Indicator /\ HostType(i.value) = i.type
          /\ i.type \in {"domain-name", "ipv4-addr"} => Lower[i.value] = i.value
      BY DEF Inv, RowsOK, Explained
    <2>2. HostName[u.value] = i.value
      BY <2>1 DEF Hosts
    <2>3. HostRef(i.value) = i
      BY <2>1 DEF HostRef, Indicator
    <2> QED
      BY <2>2, <2>3 DEF LinksOK
  <1>2. Init => LinksOK
    BY DEF Init, LinksOK
  <1>3. Spec => []LinksOK
    BY <1>2, GoesOutInit, GoesOutStep, LinksStep, RowsExplained, PTL DEF Spec
  <1> QED
    BY <1>1, <1>3, RowsExplained, PTL

----------------------------------------------------------------------------
(* Types                                                                   *)

\* The parts of TypeOK that Inv does not give, and that the tables are finite.
RowsTyped ==
    /\ IsFiniteSet(DOMAIN iocs)
    /\ iocs = [i \in DOMAIN iocs |-> iocs[i]]
    /\ \A i \in DOMAIN iocs : iocs[i] \in IocRow

EdgeRow == [confidence : {5, 8, 9}, source : Sources \cup {"dns", "manual"}]

EdgesTyped(E) ==
    /\ IsFiniteSet(DOMAIN E)
    /\ E = [k \in DOMAIN E |-> E[k]]
    /\ \A k \in DOMAIN E : E[k] \in EdgeRow /\ k = Edge(k.src, k.dst, k.rel)

ContactsTyped ==
    /\ \A c \in contacted : c \in {"host"} \X Word \/ c \in {"feed"} \X CollectorNames
    /\ posted \subseteq Word

Typed == RowsTyped /\ EdgesTyped(edges) /\ ContactsTyped /\ requests \in 0..MaxRequests

\* The row an upsert leaves has the type of a row.
LEMMA ScoredType ==
    ASSUME Inv, RowsTyped, NEW i, NEW enrichment, NEW source \in Sources,
           NEW confidence \in Confidence, NEW enrich \in BOOLEAN,
           Explained(i, Scored(i, enrichment, source, confidence, enrich), today)
    PROVE  Scored(i, enrichment, source, confidence, enrich) \in IocRow
  <1> DEFINE r == Scored(i, enrichment, source, confidence, enrich)
  <1>1. today \in 0..MaxAge /\ MaxAge \in Nat
    BY ScoringAssumption DEF Inv, PendingOK
  <1>2. r.score \in 0..84
    BY <1>1, ExplainedBelow85
  <1>3. i \in DOMAIN iocs => /\ iocs[i].source \in Sources /\ iocs[i].confidence \in Confidence
                            /\ iocs[i].first \in 0..MaxAge /\ iocs[i].sightings \in Nat \ {0}
    BY DEF RowsTyped, IocRow
  <1>4. Sighted(i) \in Nat \ {0} /\ FirstSeen(i) \in 0..MaxAge
    BY <1>1, <1>3 DEF Sighted, FirstSeen
  <1>5. \A x \in Nat : Level(x) \in {"critical", "high", "medium", "low", "clean"}
    BY DEF Level
  <1> DEFINE source1 == IF i \in DOMAIN iocs THEN iocs[i].source ELSE source
             confidence1 == IF i \in DOMAIN iocs THEN iocs[i].confidence ELSE confidence
             by == [reputable |-> source \in ReputableSources, confidence |-> confidence,
                    enriched |-> enrich, day |-> today]
  <1>6. /\ source1 \in Sources /\ confidence1 \in Confidence
        /\ by \in [reputable : BOOLEAN, confidence : Confidence, enriched : BOOLEAN, day : 0..MaxAge]
    BY <1>1, <1>3
  <1>7. r = [source |-> source1, confidence |-> confidence1, sightings |-> Sighted(i),
             first |-> FirstSeen(i), score |-> r.score, level |-> Level(r.score), by |-> by]
    BY DEF Scored
  <1>8. r.score \in 0..100 /\ Level(r.score) \in {"critical", "high", "medium", "low", "clean"}
    BY <1>2, <1>5
  <1> HIDE DEF r, source1, confidence1, by
  <1>9. r \in IocRow
    BY <1>4, <1>6, <1>7, <1>8 DEF IocRow
  <1> QED
    BY <1>9 DEF r

\* New edges, of one kind.
LEMMA UpsertEdgesType ==
    ASSUME NEW E, EdgesTyped(E), NEW keys, IsFiniteSet(keys),
           \A k \in keys : k = Edge(k.src, k.dst, k.rel),
           NEW confidence \in {5, 8, 9}, NEW source \in Sources \cup {"dns", "manual"}
    PROVE  EdgesTyped(UpsertEdges(E, keys, confidence, source))
  <1> DEFINE F == UpsertEdges(E, keys, confidence, source)
             row(k) == [confidence |-> confidence,
                        source |-> IF k \in DOMAIN E THEN E[k].source ELSE source]
  <1>1. F = [k \in DOMAIN E \cup keys |-> IF k \notin keys THEN E[k] ELSE row(k)]
    BY DEF UpsertEdges
  <1>2. ASSUME NEW k PROVE row(k) \in EdgeRow
    BY DEF EdgesTyped, EdgeRow
  <1> HIDE DEF row, F
  <1>3. DOMAIN F = DOMAIN E \cup keys /\ F = [k \in DOMAIN F |-> F[k]]
    BY <1>1
  <1>4. IsFiniteSet(DOMAIN F)
    <2>1. IsFiniteSet(DOMAIN E)
      BY DEF EdgesTyped
    <2>2. IsFiniteSet(DOMAIN E \cup keys)
      BY <2>1, FS_Union
    <2> QED
      BY <1>3, <2>2
  <1>5. \A k \in DOMAIN F : F[k] \in EdgeRow /\ k = Edge(k.src, k.dst, k.rel)
    BY <1>1, <1>2, <1>3 DEF EdgesTyped
  <1>6. EdgesTyped(F)
    BY <1>3, <1>4, <1>5 DEF EdgesTyped
  <1> QED
    BY <1>6 DEF F

LEMMA CorrelatedType ==
    ASSUME EdgesTyped(edges), NEW i, NEW resolved, IsFiniteSet(resolved), NEW source \in Sources
    PROVE  EdgesTyped(Correlated(edges, i, resolved, source))
  <1> DEFINE hosts == IF i.type = "url"
                      THEN {Edge(i, HostRef(HostName[i.value]), "communicates-with")} ELSE {}
             op(a) == Edge(i, HostRef(a), "resolves-to")
             found == {op(a) : a \in resolved}
  <1>1. IsFiniteSet(hosts)
    BY FS_EmptySet, FS_Singleton
  <1>2. IsFiniteSet(found)
    <2> DEFINE f == [a \in resolved |-> op(a)]
    <2> HIDE DEF op
    <2>1. f \in Surjection(resolved, found)
      BY DEF Surjection
    <2> QED
      BY <2>1, FS_Surjection
  <1>3. (\A k \in hosts : k = Edge(k.src, k.dst, k.rel)) /\ (\A k \in found : k = Edge(k.src, k.dst, k.rel))
    BY DEF Edge
  <1>4. Correlated(edges, i, resolved, source)
          = UpsertEdges(UpsertEdges(edges, hosts, 9, source), found, 8, "dns")
    BY DEF Correlated
  <1> HIDE DEF hosts, found
  <1>5. EdgesTyped(UpsertEdges(edges, hosts, 9, source))
    BY <1>1, <1>3, UpsertEdgesType
  <1>6. EdgesTyped(UpsertEdges(UpsertEdges(edges, hosts, 9, source), found, 8, "dns"))
    BY <1>2, <1>3, <1>5, UpsertEdgesType
  <1> QED
    BY <1>4, <1>6

LEMMA UpsertTypes ==
    ASSUME Inv, Typed, NEW raw \in Word, NEW source \in Sources, NEW confidence \in Confidence,
           NEW enrich \in BOOLEAN, NEW answer \in Answers, NEW hook \in Answers,
           Upsert(raw, source, confidence, enrich, answer, hook)
    PROVE  RowsTyped' /\ EdgesTyped(edges)' /\ ContactsTyped'
  <1> DEFINE i == Classify(raw)
             enrichment == IF enrich THEN Enrich(cfg, i, answer) ELSE NoEnrichment
             asked == IF enrich /\ HasHost(i) /\ AsksResolver(cfg, HostOf(i))
                      THEN {<<"host", HostOf(i)>>} ELSE {}
             hooked == IF cfg.live /\ Admits(cfg, Webhook.scheme, Webhook.host)
                       THEN {<<"host", Webhook.host>>} ELSE {}
             r == Scored(i, enrichment, source, confidence, enrich)
  <1>1. /\ iocs' = [j \in DOMAIN iocs \cup {i} |-> IF j # i THEN iocs[j] ELSE r]
        /\ edges' = Correlated(edges, i, enrichment.resolved, source)
        /\ contacted' = contacted \cup asked \cup hooked
        /\ posted' = IF cfg.live /\ Validates(cfg, Webhook.scheme, Webhook.host, hook)
                     THEN posted \cup hook.ips ELSE posted
    BY DEF Upsert
  <1>2. i \in Indicator
    BY ClassifyAre DEF Upsert
  <1>3. RowsTyped'
    <2>1. Explained(i, iocs'[i], today)
      BY UpsertExplains
    <2>2. iocs'[i] = r
      BY <1>1
    <2>3. r \in IocRow
      BY <2>1, <2>2, ScoredType DEF Typed
    <2>4. IsFiniteSet(DOMAIN iocs \cup {i}) /\ DOMAIN iocs' = DOMAIN iocs \cup {i}
      BY <1>1, FS_AddElement DEF Typed, RowsTyped
    <2> HIDE DEF i, r
    <2>5. iocs' = [j \in DOMAIN iocs' |-> iocs'[j]]
      BY <1>1
    <2>6. \A j \in DOMAIN iocs' : iocs'[j] \in IocRow
      BY <1>1, <2>3 DEF Typed, RowsTyped
    <2> QED
      BY <2>4, <2>5, <2>6 DEF RowsTyped
  <1>4. EdgesTyped(edges)'
    <2>1. IsFiniteSet(Resolved(cfg, HostOf(i), answer))
      <3>1. IsFiniteSet(answer.ips)
        BY CatalogueAssumption
      <3>2. Resolved(cfg, HostOf(i), answer) \in SUBSET answer.ips
        BY DEF Resolved, ResolvePublic
      <3> QED
        BY <3>1, <3>2, FS_Subset
    <2>2. Enrich(cfg, i, answer).resolved \in {Resolved(cfg, HostOf(i), answer), {}}
      BY DEF Enrich, Facets, NoEnrichment
    <2>3. NoEnrichment.resolved = {}
      BY DEF NoEnrichment
    <2>4. IsFiniteSet(enrichment.resolved)
      BY <2>1, <2>2, <2>3, FS_EmptySet
    <2> HIDE DEF enrichment, i
    <2>5. EdgesTyped(Correlated(edges, i, enrichment.resolved, source))
      BY <2>4, CorrelatedType DEF Typed
    <2> QED
      BY <1>1, <2>5 DEF EdgesTyped
  <1>5. ContactsTyped'
    <2>1. HostOf(i) \in Word /\ Webhook.host \in Word
      BY <1>2, WordAssumption, CatalogueAssumption DEF HostOf, Indicator
    <2>2. \A c \in asked \cup hooked : c \in {"host"} \X Word
      BY <2>1
    <2>3. Validates(cfg, Webhook.scheme, Webhook.host, hook) => hook.ips \subseteq Word
      BY EnrichmentAssumption DEF Validates, IpIsPublic
    <2> HIDE DEF asked, hooked
    <2> QED
      BY <1>1, <2>2, <2>3 DEF Typed, ContactsTyped
  <1> QED
    BY <1>3, <1>4, <1>5

LEMMA TypedInit == Init => Typed
  <1> SUFFICES ASSUME Init PROVE Typed
    OBVIOUS
  <1>1. DOMAIN iocs = {} /\ DOMAIN edges = {} /\ contacted = {} /\ posted = {} /\ requests = 0
    BY DEF Init
  <1>2. iocs = [i \in DOMAIN iocs |-> iocs[i]] /\ edges = [k \in DOMAIN edges |-> edges[k]]
    BY DEF Init
  <1>3. MaxRequests \in Nat /\ IsFiniteSet({})
    BY CatalogueAssumption, FS_EmptySet
  <1> QED
    BY <1>1, <1>2, <1>3 DEF Typed, RowsTyped, EdgesTyped, ContactsTyped

LEMMA TypedStep == Inv /\ Typed /\ [Next]_vars => Typed'
  <1> SUFFICES ASSUME Inv, Typed, [Next]_vars PROVE Typed'
    OBVIOUS
  <1>0. ASSUME Idle PROVE requests + 1 \in 0..MaxRequests
    BY <1>0, CatalogueAssumption DEF Idle, Typed
  <1>1. ASSUME NEW s \in Submissions, NEW answer \in Answers, NEW hook \in Answers,
               Submit(s, answer, hook)
        PROVE  Typed'
    <2>1. s \in Posting
      BY CatalogueAssumption
    <2>2. RowsTyped' /\ EdgesTyped(edges)' /\ ContactsTyped'
      BY <1>1, <2>1, UpsertTypes DEF Submit, Posting
    <2> QED
      BY <1>0, <1>1, <2>2 DEF Submit, Typed
  <1>2. ASSUME NEW i \in DOMAIN iocs, NEW answer \in Answers, NEW hook \in Answers,
               Rerun(i, answer, hook)
        PROVE  Typed'
    <2>1. i.value \in Word
      BY DEF Inv, RowsOK, Explained, Indicator
    <2>2. iocs[i].source \in Sources /\ iocs[i].confidence \in Confidence
      BY DEF Typed, RowsTyped, IocRow
    <2>3. RowsTyped' /\ EdgesTyped(edges)' /\ ContactsTyped'
      BY <1>2, <2>1, <2>2, UpsertTypes DEF Rerun
    <2> QED
      BY <1>0, <1>2, <2>3 DEF Rerun, Typed
  <1>3. ASSUME NEW m \in Imports, Import(m) PROVE Typed'
    BY <1>0, <1>3 DEF Import, Typed, RowsTyped, EdgesTyped, ContactsTyped
  <1>4. ASSUME NEW f \in Feeds, RunCollector(f) PROVE Typed'
    <2>1. f.name \in CollectorNames
      BY CatalogueAssumption
    <2>2. ContactsTyped'
      BY <1>4, <2>1 DEF RunCollector, Typed, ContactsTyped
    <2> QED
      BY <1>0, <1>4, <2>2 DEF RunCollector, Typed, RowsTyped, EdgesTyped
  <1>5. ASSUME NEW answer \in Answers, NEW hook \in Answers, IngestNext(answer, hook) PROVE Typed'
    <2>1. Head(batch) \in Posting
      BY <1>5 DEF IngestNext, Inv, PendingOK
    <2>2. CASE UNCHANGED <<iocs, edges, contacted, posted>>
      BY <1>5, <2>2 DEF IngestNext, Typed, RowsTyped, EdgesTyped, ContactsTyped
    <2>3. CASE Upsert(Head(batch).raw, Head(batch).source, Head(batch).confidence,
                      Head(batch).enrich, answer, hook)
      <3>1. RowsTyped' /\ EdgesTyped(edges)' /\ ContactsTyped'
        BY <2>1, <2>3, UpsertTypes DEF Posting
      <3> QED
        BY <1>5, <3>1 DEF IngestNext, Typed
    <2> QED
      BY <1>5, <2>2, <2>3 DEF IngestNext
  <1>6. ASSUME NEW k \in Relations, Relate(k) PROVE Typed'
    <2>1. k = Edge(k.src, k.dst, k.rel) /\ IsFiniteSet({k})
      BY CatalogueAssumption, FS_Singleton
    <2>2. EdgesTyped(UpsertEdges(edges, {k}, 5, "manual"))
      BY <2>1, UpsertEdgesType DEF Typed
    <2>3. EdgesTyped(edges)'
      BY <1>6, <2>2 DEF Relate, EdgesTyped
    <2> QED
      BY <1>0, <1>6, <2>3 DEF Relate, Typed, RowsTyped, ContactsTyped
  <1>7. CASE DayPasses \/ UNCHANGED vars
    BY <1>7 DEF DayPasses, vars, Typed, RowsTyped, EdgesTyped, ContactsTyped
  <1> QED
    BY <1>1, <1>2, <1>3, <1>4, <1>5, <1>6, <1>7 DEF Next

\* Every variable keeps its type: rows and edges that the tables can hold, and
\* in the batch only what may be ingested, whatever a document or a feed yields.
THEOREM CatalogueTyped == Spec => []TypeOK
  <1>1. Inv /\ Typed => TypeOK
    <2> SUFFICES ASSUME Inv, Typed PROVE TypeOK
      OBVIOUS
    <2>1. iocs \in [DOMAIN iocs -> IocRow] /\ DOMAIN iocs \subseteq Indicator
      BY DEF Typed, RowsTyped, Inv, RowsOK, Explained
    <2>2. /\ edges \in [DOMAIN edges -> EdgeRow]
          /\ \A k \in DOMAIN edges : k = Edge(k.src, k.dst, k.rel)
      BY DEF Typed, EdgesTyped
    <2> QED
      BY <2>1, <2>2 DEF TypeOK, Typed, ContactsTyped, Inv, PendingOK, EdgeRow
  <1>2. Spec => []Typed
    BY TypedInit, TypedStep, RowsExplained, PTL DEF Spec
  <1> QED
    BY <1>1, <1>2, RowsExplained, PTL

----------------------------------------------------------------------------
(* The graph                                                               *)

\* r is the function that Reach defines by recursion, path that of Paths.
Reaching(K, ref, depth, r) ==
    r = [d \in 0..depth |->
            IF d = 0 THEN {ref} ELSE LET near == r[d - 1] IN near \cup Adjacent(K, near)]

PathsOn(K, P) ==
    LET On(p) == {Append(p, k.dst) : k \in {e \in K : e.src = Last(p)}} IN
    UNION {On(p) : p \in P}

Pathing(K, from, n, path) ==
    path = [m \in 1..n |-> IF m = 1 THEN {<<from>>} ELSE PathsOn(K, path[m - 1])]

LEMMA ReachIs ==
    ASSUME NEW K, NEW ref, NEW depth
    PROVE  Reach(K, ref, depth) = (CHOOSE r : Reaching(K, ref, depth, r))[depth]
  BY DEF Reach, Reaching

LEMMA PathsAre ==
    ASSUME NEW K, NEW from, NEW n
    PROVE  Paths(K, from, n) = (CHOOSE path : Pathing(K, from, n, path))[n]
  BY DEF Paths, Pathing, PathsOn

\* What is within a depth is given by a recursive function.
ReachStepwise(K, ref, depth) ==
    \E r : /\ r[0] = {ref}
           /\ \A d \in 1..depth : r[d] = r[d - 1] \cup Adjacent(K, r[d - 1])
           /\ Reach(K, ref, depth) = r[depth]

LEMMA ReachFunction ==
    ASSUME NEW K, NEW ref, NEW depth \in Nat
    PROVE  ReachStepwise(K, ref, depth)
  <1> DEFINE V == SUBSET (Nodes(K) \cup {ref})
             G == [p \in (1..depth) \X V |-> p[2] \cup Adjacent(K, p[2])]
             r == CHOOSE x : Reaching(K, ref, depth, x)
  <1>1. \A d \in 1..depth, v \in V : G[<<d, v>>] = v \cup Adjacent(K, v)
    OBVIOUS
  <1>2. \A v \in V : v \cup Adjacent(K, v) \in V
    BY DEF Adjacent, Nodes
  <1>3. {ref} \in V
    OBVIOUS
  <1> HIDE DEF V, G
  <1>4. Defined(depth, V, {ref}, G)
    BY <1>1, <1>2, <1>3, Recursion
  <1>5. PICK f \in [0..depth -> V] : f[0] = {ref} /\ \A d \in 1..depth : f[d] = G[<<d, f[d - 1]>>]
    BY <1>4 DEF Defined
  <1>6. Reaching(K, ref, depth, f)
    <2>1. ASSUME NEW d \in 0..depth
          PROVE  f[d] = IF d = 0 THEN {ref} ELSE f[d - 1] \cup Adjacent(K, f[d - 1])
      <3>1. CASE d = 0
        BY <1>5, <3>1
      <3>2. CASE d # 0
        <4>1. d \in 1..depth /\ d - 1 \in 0..depth
          BY <3>2
        <4> QED
          BY <1>1, <1>5, <3>2, <4>1
      <3> QED
        BY <3>1, <3>2
    <2> QED
      BY <2>1 DEF Reaching
  <1>7. Reaching(K, ref, depth, r)
    BY <1>6, Zenon
  <1> HIDE DEF r
  <1>8. \A d \in 0..depth : r[d] = IF d = 0 THEN {ref} ELSE r[d - 1] \cup Adjacent(K, r[d - 1])
    BY <1>7 DEF Reaching
  <1>9. r[0] = {ref} /\ \A d \in 1..depth : r[d] = r[d - 1] \cup Adjacent(K, r[d - 1])
    <2>1. 0 \in 0..depth /\ \A d \in 1..depth : d \in 0..depth /\ d # 0
      OBVIOUS
    <2> QED
      BY <1>8, <2>1
  <1> QED
    BY <1>9, ReachIs DEF r, ReachStepwise

\* One step more reaches what is adjacent to what was reached before.
LEMMA ReachStep ==
    ASSUME NEW K, NEW ref, NEW depth \in Nat
    PROVE  /\ Reach(K, ref, 0) = {ref}
           /\ Reach(K, ref, depth + 1) = Reach(K, ref, depth) \cup Adjacent(K, Reach(K, ref, depth))
  <1>1. Reach(K, ref, 0) = {ref}
    <2>1. 0 \in Nat
      OBVIOUS
    <2>2. ReachStepwise(K, ref, 0)
      BY <2>1, ReachFunction
    <2> QED
      BY <2>2 DEF ReachStepwise
  <1>2. PICK r : /\ r[0] = {ref}
                 /\ \A d \in 1..depth : r[d] = r[d - 1] \cup Adjacent(K, r[d - 1])
                 /\ Reach(K, ref, depth) = r[depth]
    <2>1. ReachStepwise(K, ref, depth)
      BY ReachFunction
    <2> QED
      BY <2>1 DEF ReachStepwise
  <1>3. PICK s : /\ s[0] = {ref}
                 /\ \A d \in 1..depth + 1 : s[d] = s[d - 1] \cup Adjacent(K, s[d - 1])
                 /\ Reach(K, ref, depth + 1) = s[depth + 1]
    <2>1. ReachStepwise(K, ref, depth + 1)
      BY ReachFunction
    <2> QED
      BY <2>1 DEF ReachStepwise
  <1>4. \A d \in 0..depth : r[d] = s[d]
    <2>1. \A d \in 1..depth : r[d - 1] = s[d - 1] => r[d] = s[d]
      <3>1. \A d \in 1..depth : s[d] = s[d - 1] \cup Adjacent(K, s[d - 1])
        BY <1>3
      <3> QED
        BY <1>2, <3>1
    <2>2. r[0] = s[0]
      BY <1>2, <1>3
    <2> QED
      <3>1. GoOnAlike(depth, r, s)
        BY <2>1, <2>2 DEF GoOnAlike
      <3>2. Alike(depth, r, s)
        BY <3>1, SameRecursion
      <3> QED
        BY <3>2 DEF Alike
  <1>5. s[depth + 1] = s[depth] \cup Adjacent(K, s[depth])
    <2>1. depth + 1 \in 1..depth + 1 /\ (depth + 1) - 1 = depth
      OBVIOUS
    <2> QED
      BY <1>3, <2>1
  <1>6. r[depth] = s[depth]
    BY <1>4
  <1> QED
    BY <1>1, <1>2, <1>3, <1>5, <1>6

LEMMA ReachGrows ==
    ASSUME NEW K, NEW ref, NEW a \in Nat, NEW b \in Nat, a <= b
    PROVE  Reach(K, ref, a) \subseteq Reach(K, ref, b)
  <1> DEFINE T == {d \in 0..b - a : Reach(K, ref, a) \subseteq Reach(K, ref, a + d)}
  <1>1. 0 \in T
    OBVIOUS
  <1>2. \A d \in 0..b - a : d < b - a /\ d \in T => d + 1 \in T
    <2> SUFFICES ASSUME NEW d \in 0..b - a, d < b - a, d \in T PROVE d + 1 \in T
      OBVIOUS
    <2>1. a + d \in Nat /\ (a + d) + 1 = a + (d + 1) /\ d + 1 \in 0..b - a
      OBVIOUS
    <2>2. Reach(K, ref, a + d) \subseteq Reach(K, ref, (a + d) + 1)
      BY <2>1, ReachStep
    <2> QED
      BY <2>1, <2>2
  <1>3. b - a \in Nat /\ b - a \in 0..b - a /\ a + (b - a) = b
    OBVIOUS
  <1> HIDE DEF T
  <1>4. b - a \in T
    BY <1>1, <1>2, <1>3, UpTo
  <1> QED
    BY <1>3, <1>4 DEF T

\* Paths of one node, and of one more.
LEMMA PathFunction ==
    ASSUME NEW K, NEW from, NEW n \in Nat
    PROVE  \E f : /\ f[1] = {<<from>>}
                  /\ \A m \in 1..n : f[m + 1] = PathsOn(K, f[m])
                  /\ Paths(K, from, n + 1) = f[n + 1]
  <1> DEFINE N == Nodes(K) \cup {from}
             V == SUBSET Seq(N)
             G == [p \in (1..n) \X V |-> PathsOn(K, p[2])]
             path == CHOOSE x : Pathing(K, from, n + 1, x)
  <1>1. \A m \in 1..n, v \in V : G[<<m, v>>] = PathsOn(K, v)
    OBVIOUS
  <1>2. ASSUME NEW v \in V PROVE PathsOn(K, v) \in V
    <2>1. ASSUME NEW p \in v, NEW k \in K PROVE Append(p, k.dst) \in Seq(N)
      <3>1. p \in Seq(N) /\ k.dst \in N
        BY <1>2 DEF Nodes
      <3> HIDE DEF N
      <3> QED
        BY <3>1, AppendProperties
    <2> HIDE DEF N
    <2> QED
      BY <2>1 DEF PathsOn
  <1>3. {<<from>>} \in V
    OBVIOUS
  <1> HIDE DEF V, G
  <1>4. Defined(n, V, {<<from>>}, G)
    BY <1>1, <1>2, <1>3, Recursion
  <1>5. PICK g \in [0..n -> V] : g[0] = {<<from>>} /\ \A m \in 1..n : g[m] = G[<<m, g[m - 1]>>]
    BY <1>4 DEF Defined
  <1>6. \A m \in 1..n : g[m] = PathsOn(K, g[m - 1])
    <2>1. \A m \in 1..n : m - 1 \in 0..n
      OBVIOUS
    <2> QED
      BY <1>1, <1>5, <2>1
  <1> DEFINE f == [m \in 1..n + 1 |-> g[m - 1]]
  <1>7. Pathing(K, from, n + 1, f)
    <2>1. ASSUME NEW m \in 1..n + 1
          PROVE  f[m] = IF m = 1 THEN {<<from>>} ELSE PathsOn(K, f[m - 1])
      <3>1. CASE m = 1
        BY <1>5, <3>1
      <3>2. CASE m # 1
        <4>1. m - 1 \in 1..n /\ m - 1 \in 1..n + 1
          BY <3>2
        <4>2. g[m - 1] = PathsOn(K, g[(m - 1) - 1])
          BY <1>6, <4>1
        <4> QED
          BY <3>2, <4>1, <4>2
      <3> QED
        BY <3>1, <3>2
    <2>2. f = [m \in 1..n + 1 |-> f[m]]
      OBVIOUS
    <2> HIDE DEF f
    <2> QED
      BY <2>1, <2>2 DEF Pathing
  <1>8. Pathing(K, from, n + 1, path)
    <2> HIDE DEF f
    <2> QED
      BY <1>7, Zenon
  <1> HIDE DEF path, f
  <1>9. \A m \in 1..n + 1 : path[m] = IF m = 1 THEN {<<from>>} ELSE PathsOn(K, path[m - 1])
    BY <1>8 DEF Pathing
  <1>10. path[1] = {<<from>>}
    BY <1>9
  <1>11. \A m \in 1..n : path[m + 1] = PathsOn(K, path[m])
    <2>1. \A m \in 1..n : m + 1 \in 1..n + 1 /\ m + 1 # 1 /\ (m + 1) - 1 = m
      OBVIOUS
    <2> QED
      BY <1>9, <2>1
  <1>12. Paths(K, from, n + 1) = path[n + 1]
    BY PathsAre DEF path
  <1> QED
    BY <1>10, <1>11, <1>12

\* A path of n nodes has n nodes, none further away than n - 1 hops.
LEMMA PathsStayNear ==
    ASSUME NEW K, NEW from, NEW n \in Nat, NEW p \in Paths(K, from, n + 1)
    PROVE  /\ p \in Seq(Reach(K, from, n)) /\ Len(p) = n + 1
           /\ ToSet(p) \subseteq Nodes(K) \cup {from}
  <1> DEFINE N == Nodes(K) \cup {from}
             Near(m, q) == /\ q \in Seq(Reach(K, from, m) \cap N) /\ Len(q) = m + 1
  <1>1. PICK f : /\ f[1] = {<<from>>}
                 /\ \A m \in 1..n : f[m + 1] = PathsOn(K, f[m])
                 /\ Paths(K, from, n + 1) = f[n + 1]
    BY PathFunction
  <1> DEFINE T == {m \in 0..n : \A q \in f[m + 1] : Near(m, q)}
  <1>2. 0 \in T
    <2>1. from \in Reach(K, from, 0) \cap N
      BY ReachStep
    <2>2. Near(0, <<from>>)
      <3> HIDE DEF N
      <3> QED
        BY <2>1
    <2>3. 0 + 1 = 1 /\ 0 \in 0..n
      OBVIOUS
    <2> HIDE DEF Near
    <2> QED
      BY <1>1, <2>2, <2>3
  <1>3. ASSUME NEW m \in 0..n, m < n, m \in T PROVE m + 1 \in T
    <2> SUFFICES ASSUME NEW q \in f[m + 2] PROVE Near(m + 1, q)
      <3>1. (m + 1) + 1 = m + 2 /\ m + 1 \in 0..n
        BY <1>3
      <3> HIDE DEF Near
      <3> QED
        BY <3>1
    <2>1. f[m + 2] = PathsOn(K, f[m + 1])
      <3>1. m + 1 \in 1..n /\ (m + 1) + 1 = m + 2
        BY <1>3
      <3> QED
        BY <1>1, <3>1
    <2>2. PICK o \in f[m + 1], k \in K : k.src = Last(o) /\ q = Append(o, k.dst)
      BY <2>1 DEF PathsOn
    <2>3. o \in Seq(Reach(K, from, m) \cap N) /\ Len(o) = m + 1
      BY <1>3, <2>2
    <2>4. Last(o) \in Reach(K, from, m)
      <3>1. m + 1 \in 1..Len(o)
        BY <2>3
      <3>2. o[m + 1] \in Reach(K, from, m) \cap N
        BY <2>3, <3>1, ElementOfSeq
      <3> QED
        BY <2>3, <3>2 DEF Last
    <2>5. k.dst \in Reach(K, from, m + 1) \cap N
      <3>1. k.dst \in Adjacent(K, Reach(K, from, m))
        BY <2>2, <2>4 DEF Adjacent
      <3> QED
        BY <1>3, <3>1, ReachStep DEF Nodes
    <2>6. Reach(K, from, m) \cap N \subseteq Reach(K, from, m + 1) \cap N
      BY ReachStep
    <2> DEFINE S == Reach(K, from, m + 1) \cap N
    <2>7. o \in Seq(S)
      <3> HIDE DEF N
      <3> QED
        BY <2>3, <2>6, SeqMonotonic
    <2>8. q \in Seq(S) /\ Len(q) = Len(o) + 1
      <3> HIDE DEF S
      <3>1. k.dst \in S
        BY <2>5 DEF S
      <3> QED
        BY <2>2, <2>7, <3>1, AppendProperties
    <2> QED
      BY <2>3, <2>8
  <1>4. \A m \in 0..n : m < n /\ m \in T => m + 1 \in T
    BY <1>3
  <1> HIDE DEF T
  <1>5. n \in T
    BY <1>2, <1>4, UpTo
  <1>6. p \in Seq(Reach(K, from, n) \cap N) /\ Len(p) = n + 1
    BY <1>1, <1>5 DEF T
  <1>7. ToSet(p) \subseteq Reach(K, from, n) \cap N
    <2> HIDE DEF N
    <2> QED
      BY <1>6, LenProperties, ElementOfSeq DEF ToSet
  <1>8. p \in Seq(Reach(K, from, n))
    BY <1>6, SeqMonotonic
  <1> QED
    BY <1>6, <1>7, <1>8

\* The graph can be read in three ways, to the same effect (GraphViewsAgree).
LEMMA ViewsOfGraph ==
    ASSUME NEW K, IsFiniteSet(K), NEW ref \in Nodes(K)
    PROVE  /\ Neighbors(EdgesTouching(K, ref), ref) = Neighbors(K, ref)
           /\ {n.ref : n \in Neighbors(K, ref)} \cup {ref} = Pivot(K, ref, 1).nodes
           /\ \A to \in Nodes(K), depth \in 1..4 : \A p \in AttackChains(K, ref, to) :
                 Len(p) <= depth + 1 => ToSet(p) \subseteq Pivot(K, ref, depth).nodes
  <1>1. Neighbors(EdgesTouching(K, ref), ref) = Neighbors(K, ref)
    BY DEF Neighbors, EdgesTouching
  <1>2. ASSUME NEW depth \in Nat
        PROVE  Pivot(K, ref, depth).nodes = Nodes(K) \cap (Reach(K, ref, depth) \cup {ref})
    BY DEF Pivot, RelatedWithin
  <1>3. {n.ref : n \in Neighbors(K, ref)} \cup {ref} = Pivot(K, ref, 1).nodes
    <2>1. Reach(K, ref, 1) = {ref} \cup Adjacent(K, {ref})
      <3>1. 0 \in Nat /\ 0 + 1 = 1
        OBVIOUS
      <3>2. /\ Reach(K, ref, 0) = {ref}
            /\ Reach(K, ref, 0 + 1) = Reach(K, ref, 0) \cup Adjacent(K, Reach(K, ref, 0))
        BY <3>1, ReachStep, Zenon
      <3> QED
        BY <3>1, <3>2
    <2>2. {n.ref : n \in Neighbors(K, ref)} = Adjacent(K, {ref})
      <3> DEFINE out(k) == [ref |-> k.dst, direction |-> "out", rel |-> k.rel]
                 in(k) == [ref |-> k.src, direction |-> "in", rel |-> k.rel]
      <3>1. \A n \in Neighbors(K, ref) : n.ref \in Adjacent(K, {ref})
        BY DEF Neighbors, Adjacent
      <3>2. ASSUME NEW k \in K PROVE out(k).ref = k.dst /\ in(k).ref = k.src
        OBVIOUS
      <3>3. ASSUME NEW k \in K
            PROVE  /\ k.src = ref => out(k) \in Neighbors(K, ref)
                   /\ k.dst = ref => in(k) \in Neighbors(K, ref)
        BY DEF Neighbors
      <3> HIDE DEF out, in
      <3>4. ASSUME NEW x \in Adjacent(K, {ref}) PROVE \E n \in Neighbors(K, ref) : n.ref = x
        <4>1. PICK k \in K : (k.src = ref /\ x = k.dst) \/ (k.dst = ref /\ x = k.src)
          BY DEF Adjacent
        <4> QED
          BY <3>2, <3>3, <4>1
      <3> QED
        BY <3>1, <3>4
    <2>3. Adjacent(K, {ref}) \subseteq Nodes(K)
      BY DEF Adjacent, Nodes
    <2>4. Pivot(K, ref, 1).nodes = Nodes(K) \cap (Reach(K, ref, 1) \cup {ref})
      BY <1>2
    <2> QED
      BY <2>1, <2>2, <2>3, <2>4
  <1>4. ASSUME NEW to \in Nodes(K), NEW depth \in 1..4, NEW p \in AttackChains(K, ref, to),
               Len(p) <= depth + 1
        PROVE  ToSet(p) \subseteq Pivot(K, ref, depth).nodes
    <2> DEFINE To(n) == {q \in Paths(K, ref, n) : Last(q) = to}
               lengths == {n \in 1..Cardinality(Nodes(K)) : To(n) # {}}
    <2>1. lengths # {} /\ p \in To(Min(lengths))
      BY DEF AttackChains
    <2>2. lengths \subseteq Nat \ {0}
      <3>1. IsFiniteSet(Nodes(K))
        <4> DEFINE f == [k \in K |-> k.src]
                   g == [k \in K |-> k.dst]
        <4>1. f \in Surjection(K, {k.src : k \in K}) /\ g \in Surjection(K, {k.dst : k \in K})
          BY DEF Surjection
        <4> HIDE DEF f, g
        <4>2. IsFiniteSet({k.src : k \in K}) /\ IsFiniteSet({k.dst : k \in K})
          BY <4>1, FS_Surjection
        <4> QED
          BY <4>2, FS_Union DEF Nodes
      <3>2. Cardinality(Nodes(K)) \in Nat
        BY <3>1, FS_CardinalityType
      <3> QED
        BY <3>2
    <2> HIDE DEF lengths
    <2>3. Min(lengths) \in lengths
      <3>1. \E n \in lengths : \A m \in lengths : n <= m
        BY <2>1, <2>2, LeastNumber
      <3> QED
        BY <3>1 DEF Min
    <2>4. PICK n \in Nat : Min(lengths) = n + 1
      <3> DEFINE m == Min(lengths)
      <3>2. m \in Nat \ {0}
        BY <2>2, <2>3
      <3> HIDE DEF m
      <3>1. m - 1 \in Nat /\ m = (m - 1) + 1
        BY <3>2
      <3> USE DEF m
      <3> QED
        BY <3>1
    <2>5. p \in Paths(K, ref, n + 1)
      BY <2>1, <2>4
    <2>6. /\ p \in Seq(Reach(K, ref, n)) /\ Len(p) = n + 1
          /\ ToSet(p) \subseteq Nodes(K) \cup {ref}
      BY <2>5, PathsStayNear
    <2>7. Reach(K, ref, n) \subseteq Reach(K, ref, depth)
      <3>1. n <= depth /\ depth \in Nat
        BY <1>4, <2>6
      <3> QED
        BY <3>1, ReachGrows
    <2>8. ToSet(p) \subseteq Reach(K, ref, n)
      BY <2>6, LenProperties, ElementOfSeq DEF ToSet
    <2> QED
      BY <1>2, <2>6, <2>7, <2>8
  <1> QED
    BY <1>1, <1>3, <1>4

\* However the graph came about, its three views agree (GraphViewsAgree).
THEOREM ViewsAgree == Spec => []GraphViewsAgree
  <1>1. Typed => GraphViewsAgree
    BY ViewsOfGraph DEF GraphViewsAgree, Typed, EdgesTyped
  <1>2. Spec => []Typed
    BY TypedInit, TypedStep, RowsExplained, PTL DEF Spec
  <1> QED
    BY <1>1, <1>2, PTL

----------------------------------------------------------------------------
(* What is exported                                                        *)

\* The lists of one row more, and the function that Listings defines.
Prolonged(R, L) ==
    LET Highest(S) == {i \in S : \A j \in S : iocs[j].score <= iocs[i].score} IN
    UNION {{Append(s, i) : i \in Highest(R \ ToSet(s))} : s \in L}

Listing(R, m, lists) ==
    lists = [n \in 0..m |-> IF n = 0 THEN {<<>>} ELSE Prolonged(R, lists[n - 1])]

\* The rows of score min and above.
RowsFrom(min) == {i \in DOMAIN iocs : iocs[i].score >= min}

LEMMA ListingsAre ==
    ASSUME NEW min, NEW limit
    PROVE  LET m == Least(limit, Cardinality(RowsFrom(min))) IN
           Listings(min, limit) = (CHOOSE lists : Listing(RowsFrom(min), m, lists))[m]
  BY DEF Listings, Listing, Prolonged, RowsFrom

\* A sequence of n of the rows R, none of them twice.
Picks(R, n, s) ==
    /\ s \in Seq(R) /\ Len(s) = n
    /\ \A a, b \in 1..n : s[a] = s[b] => a = b

LEMMA ProlongedPicks ==
    ASSUME NEW R, NEW n \in Nat, NEW L, \A s \in L : Picks(R, n, s), NEW t \in Prolonged(R, L)
    PROVE  Picks(R, n + 1, t)
  <1>1. PICK s \in L : \E j \in R \ ToSet(s) : t = Append(s, j)
    BY DEF Prolonged
  <1>6. PICK i \in R \ ToSet(s) : t = Append(s, i)
    BY <1>1
  <1>2. s \in Seq(R) /\ Len(s) = n /\ \A a, b \in 1..n : s[a] = s[b] => a = b
    BY DEF Picks
  <1>3. /\ t \in Seq(R) /\ Len(t) = n + 1 /\ t[n + 1] = i
        /\ \A a \in 1..n : t[a] = s[a]
    BY <1>2, <1>6, AppendProperties
  <1>4. \A a \in 1..n : s[a] # i
    BY <1>2, <1>6, LenProperties DEF ToSet
  <1>5. ASSUME NEW a \in 1..n + 1, NEW b \in 1..n + 1, t[a] = t[b] PROVE a = b
    <2>1. CASE a = n + 1 /\ b = n + 1
      BY <2>1
    <2>2. CASE a # n + 1 /\ b # n + 1
      <3>1. a \in 1..n /\ b \in 1..n
        BY <2>2
      <3> QED
        BY <1>2, <1>3, <1>5, <3>1
    <2>3. CASE a = n + 1 /\ b # n + 1
      <3>1. b \in 1..n
        BY <2>3
      <3> QED
        BY <1>3, <1>4, <1>5, <2>3, <3>1
    <2>4. CASE a # n + 1 /\ b = n + 1
      <3>1. a \in 1..n
        BY <2>4
      <3> QED
        BY <1>3, <1>4, <1>5, <2>4, <3>1
    <2> QED
      BY <2>1, <2>2, <2>3, <2>4
  <1> QED
    BY <1>3, <1>5 DEF Picks

\* A listing is of rows of the score asked for, none twice, and no longer than
\* asked for.
LEMMA ListingsPick ==
    ASSUME IsFiniteSet(DOMAIN iocs), NEW min, NEW limit \in Nat, NEW list \in Listings(min, limit)
    PROVE  \E n \in 0..limit : Picks(RowsFrom(min), n, list)
  <1> DEFINE R == RowsFrom(min)
             m == Least(limit, Cardinality(R))
             V == SUBSET Seq(R)
             G == [p \in (1..m) \X V |-> Prolonged(R, p[2])]
             lists == CHOOSE l : Listing(R, m, l)
  <1>1. m \in 0..limit
    <2>1. R \in SUBSET DOMAIN iocs
      BY DEF RowsFrom
    <2>2. IsFiniteSet(R)
      BY <2>1, FS_Subset
    <2>3. Cardinality(R) \in Nat
      BY <2>2, FS_CardinalityType
    <2> QED
      BY <2>3 DEF Least
  <1> HIDE DEF m, R
  <1>2. \A n \in 1..m, v \in V : G[<<n, v>>] = Prolonged(R, v)
    OBVIOUS
  <1>3. ASSUME NEW v \in V PROVE Prolonged(R, v) \in V
    <2>1. ASSUME NEW s \in v, NEW i \in R PROVE Append(s, i) \in Seq(R)
      BY AppendProperties
    <2> QED
      BY <2>1 DEF Prolonged
  <1>4. {<<>>} \in V
    OBVIOUS
  <1> HIDE DEF V, G
  <1>5. Defined(m, V, {<<>>}, G)
    <2>1. m \in Nat /\ \A n \in 1..m, v \in V : G[<<n, v>>] \in V
      BY <1>1, <1>2, <1>3
    <2> QED
      BY <1>4, <2>1, Recursion
  <1>6. PICK f \in [0..m -> V] : f[0] = {<<>>} /\ \A n \in 1..m : f[n] = G[<<n, f[n - 1]>>]
    BY <1>5 DEF Defined
  <1>7. Listing(R, m, f)
    <2>1. ASSUME NEW n \in 0..m
          PROVE  f[n] = IF n = 0 THEN {<<>>} ELSE Prolonged(R, f[n - 1])
      <3>1. CASE n = 0
        BY <1>6, <3>1
      <3>2. CASE n # 0
        <4>1. n \in 1..m /\ n - 1 \in 0..m
          BY <1>1, <3>2
        <4> QED
          BY <1>2, <1>6, <3>2, <4>1
      <3> QED
        BY <3>1, <3>2
    <2> QED
      BY <2>1 DEF Listing
  <1>8. Listing(R, m, lists)
    BY <1>7, Zenon
  <1> HIDE DEF lists
  <1>9. \A n \in 0..m : lists[n] = IF n = 0 THEN {<<>>} ELSE Prolonged(R, lists[n - 1])
    BY <1>8 DEF Listing
  <1> DEFINE T == {n \in 0..m : \A s \in lists[n] : Picks(R, n, s)}
  <1>10. 0 \in T
    <2>1. Picks(R, 0, <<>>)
      BY DEF Picks
    <2> QED
      BY <1>1, <1>9, <2>1
  <1>11. ASSUME NEW n \in 0..m, n < m, n \in T PROVE n + 1 \in T
    <2>1. n + 1 \in 0..m /\ n + 1 # 0 /\ (n + 1) - 1 = n /\ n \in Nat
      BY <1>1, <1>11
    <2>2. lists[n + 1] = Prolonged(R, lists[n])
      BY <1>9, <2>1
    <2>3. \A s \in lists[n] : Picks(R, n, s)
      BY <1>11
    <2>4. \A t \in Prolonged(R, lists[n]) : Picks(R, n + 1, t)
      BY <2>1, <2>3, ProlongedPicks
    <2> QED
      BY <2>1, <2>2, <2>4
  <1>12. \A n \in 0..m : n < m /\ n \in T => n + 1 \in T
    BY <1>11
  <1> HIDE DEF T
  <1>13. m \in T
    <2>1. m \in Nat /\ m \in 0..m
      BY <1>1
    <2> QED
      BY <1>10, <1>12, <2>1, UpTo
  <1>14. list \in lists[m]
    BY ListingsAre DEF lists, R, m
  <1> QED
    BY <1>1, <1>13, <1>14 DEF T, R

\* Candidates that are recognised as the indicators of a list, none of which
\* comes twice, give that list.
LEMMA DistinctReturns ==
    ASSUME NEW list \in Seq(Indicator), NEW limit \in Nat, Len(list) <= limit,
           \A a, b \in 1..Len(list) : list[a] = list[b] => a = b,
           NEW c \in Seq(Word), Len(c) = Len(list),
           \A n \in 1..Len(list) : Classify(c[n]) = list[n]
    PROVE  Distinct(c, limit) = list
  <1> DEFINE V == Seq(Indicator)
             m == Len(list)
  <1>1. PICK f \in [0..Len(c) -> V] :
            /\ f[0] = <<>>
            /\ \A n \in 1..Len(c) : f[n] = Taken(f[n - 1], c[n], limit)
            /\ Distinct(c, limit) = f[Len(c)]
    BY DistinctSteps
  <1>2. m \in Nat /\ Len(c) = m
    BY LenProperties
  <1> DEFINE T == {n \in 0..m : f[n] = SubSeq(list, 1, n)}
  <1>3. 0 \in T
    BY <1>1, <1>2, SubSeqEmpty
  <1>4. ASSUME NEW n \in 0..m, n < m, n \in T PROVE n + 1 \in T
    <2> DEFINE found == SubSeq(list, 1, n)
               i == list[n + 1]
    <2>1. n + 1 \in 1..m /\ (n + 1) - 1 = n /\ 1 \in Int /\ n \in Nat
      BY <1>2, <1>4
    <2>2. f[n + 1] = Taken(found, c[n + 1], limit)
      BY <1>1, <1>2, <1>4, <2>1
    <2>3. Classify(c[n + 1]) = i /\ i \in Indicator
      BY <2>1, ElementOfSeq
    <2>4. i # Unknown
      BY <2>3 DEF Indicator, Unknown, Types, Hashes, Hosts
    <2>5. /\ found \in Seq(Indicator) /\ Len(found) = n
          /\ \A k \in 1..n : found[k] = list[k]
      BY <1>2, <2>1
    <2>6. i \notin ToSet(found)
      <3>1. \A k \in 1..n : k \in 1..m /\ k # n + 1
        BY <1>2, <2>1
      <3>2. \A k \in 1..n : list[k] # i
        BY <2>1, <3>1
      <3>3. DOMAIN found = 1..n
        BY <2>5, LenProperties
      <3> HIDE DEF found, i
      <3> QED
        BY <2>5, <3>2, <3>3 DEF ToSet
    <2>7. ~(Len(found) >= limit)
      BY <1>2, <2>1, <2>5
    <2>8. f[n + 1] = Append(found, i)
      <3> HIDE DEF found, i
      <3> QED
        BY <2>2, <2>3, <2>4, <2>6, <2>7 DEF Taken
    <2>9. Append(found, i) = SubSeq(list, 1, n + 1)
      <3>1. 1 \in 1..Len(list) /\ n + 1 \in 1..Len(list)
        BY <1>2, <2>1
      <3>2. SubSeq(list, 1, n + 1) = SubSeq(list, 1, (n + 1) - 1) \o <<list[n + 1]>>
        BY <3>1, SubSeqRecursiveSecond
      <3>3. Append(found, i) = found \o <<i>>
        BY <2>3, <2>5, AppendIsConcat
      <3> QED
        BY <2>1, <3>2, <3>3
    <2>10. n + 1 \in 0..m
      BY <2>1
    <2> HIDE DEF found, i
    <2> QED
      BY <2>8, <2>9, <2>10
  <1>5. \A n \in 0..m : n < m /\ n \in T => n + 1 \in T
    BY <1>4
  <1>9. m \in Nat /\ m \in 0..m
    BY <1>2
  <1> HIDE DEF T, m
  <1>6. m \in T
    BY <1>3, <1>5, <1>9, UpTo
  <1>7. f[m] = SubSeq(list, 1, m)
    BY <1>6 DEF T
  <1>8. SubSeq(list, 1, m) = list
    BY SubSeqFull DEF m
  <1> QED
    BY <1>1, <1>2, <1>7, <1>8

\* A value comes back from the literal that import reads.
Returns(i) ==
    /\ Read[Literal[i.value]] = i.value
    /\ i.type \in Loose => Refang[i.value] = i.value

\* What of the object of an indicator is a candidate: its value.
LEMMA ObjectYields ==
    ASSUME NEW i \in Indicator, Read[Literal[i.value]] = i.value
    PROVE  OfObject(StixObject(i)) = <<i.value>>
  <1>1. CASE i.type \in {"cve", "attack-pattern"}
    BY <1>1 DEF OfObject, StixObject
  <1>2. CASE i.type \notin {"cve", "attack-pattern"}
    <2> DEFINE lit == Literal[i.value]
               read == [k \in DOMAIN <<lit>> |-> Read[<<lit>>[k]]]
    <2>1. StixObject(i).type = "indicator" /\ StixObject(i).literals = <<lit>>
      BY <1>2 DEF StixObject, StixLiteral
    <2>2. OfObject(StixObject(i)) = read
      BY <2>1 DEF OfObject
    <2>3. i.value \in Word
      BY DEF Indicator
    <2>4. read = [k \in 1..1 |-> read[k]] /\ read[1] = i.value
      OBVIOUS
    <2>5. \A k \in 1..1 : read[k] \in Word
      BY <2>3, <2>4
    <2> HIDE DEF read
    <2>6. read \in Seq(Word) /\ Len(read) = 1
      BY <2>4, <2>5, ImageType
    <2>7. <<i.value>> \in Seq(Word) /\ Len(<<i.value>>) = 1 /\ <<i.value>>[1] = i.value
      BY <2>3
    <2>8. \A k \in 1..Len(read) : read[k] = <<i.value>>[k]
      BY <2>4, <2>6, <2>7
    <2>9. read = <<i.value>>
      BY <2>6, <2>7, <2>8, SeqEqual
    <2> QED
      BY <2>2, <2>9
  <1> QED
    BY <1>1, <1>2

Identity == [type |-> "identity", id |-> <<"identity">>, ids |-> <<>>, literals |-> <<>>]

LEMMA IdentityYields == OfObject(Identity) = <<>>
  <1> DEFINE read == [k \in DOMAIN Identity.literals |-> Read[Identity.literals[k]]]
  <1>1. OfObject(Identity) = read
    BY DEF OfObject, Identity
  <1>2. DOMAIN Identity.literals = 1..0
    BY DEF Identity
  <1>3. read = [k \in 1..0 |-> read[k]] /\ \A k \in 1..0 : read[k] \in Word
    BY <1>2
  <1> HIDE DEF read
  <1>4. read \in Seq(Word) /\ Len(read) = 0
    BY <1>3, ImageType
  <1>5. read = <<>>
    BY <1>4, EmptySeq
  <1> QED
    BY <1>1, <1>5

\* The objects of a bundle: that of the producer, then those of the list.
LEMMA BundleObjects ==
    ASSUME NEW list \in Seq(Indicator)
    PROVE  LET objects == StixBundle(list).objects IN
           /\ objects # <<>> /\ Len(objects) = Len(list) + 1 /\ DOMAIN objects = 1..Len(list) + 1
           /\ objects[1] = Identity
           /\ \A n \in 1..Len(list) : objects[n + 1] = StixObject(list[n])
  <1> DEFINE m == Len(list)
             rest == [n \in DOMAIN list |-> StixObject(list[n])]
             S == {Identity} \cup {StixObject(list[n]) : n \in 1..m}
             objects == StixBundle(list).objects
  <1>1. m \in Nat /\ DOMAIN list = 1..m
    BY LenProperties
  <1> HIDE DEF m
  <1>2. rest = [n \in 1..m |-> rest[n]] /\ \A n \in 1..m : rest[n] \in S /\ rest[n] = StixObject(list[n])
    BY <1>1
  <1>3. objects = <<Identity>> \o rest
    BY DEF StixBundle, Identity
  <1> HIDE DEF rest, objects
  <1>4. Identity \in S
    OBVIOUS
  <1> HIDE DEF S
  <1>5. rest \in Seq(S) /\ Len(rest) = m
    BY <1>1, <1>2, ImageType
  <1>6. <<Identity>> \in Seq(S) /\ Len(<<Identity>>) = 1 /\ <<Identity>>[1] = Identity
    BY <1>4
  <1>7. /\ objects \in Seq(S) /\ Len(objects) = m + 1
        /\ \A n \in 1..m + 1 : objects[n] = IF n <= 1 THEN <<Identity>>[n] ELSE rest[n - 1]
    <2>1. /\ <<Identity>> \o rest \in Seq(S)
          /\ Len(<<Identity>> \o rest) = 1 + m
          /\ \A n \in 1..1 + m : (<<Identity>> \o rest)[n] =
                 IF n <= 1 THEN <<Identity>>[n] ELSE rest[n - 1]
      BY <1>5, <1>6, ConcatProperties
    <2>2. 1 + m = m + 1
      BY <1>1
    <2> QED
      BY <1>3, <2>1, <2>2
  <1>8. objects # <<>> /\ DOMAIN objects = 1..m + 1 /\ objects[1] = Identity
    BY <1>1, <1>6, <1>7, LenProperties, EmptySeq
  <1>9. ASSUME NEW n \in 1..m PROVE objects[n + 1] = StixObject(list[n])
    <2>1. n + 1 \in 1..m + 1 /\ ~(n + 1 <= 1) /\ (n + 1) - 1 = n
      BY <1>1
    <2> QED
      BY <1>2, <1>7, <2>1
  <1> QED
    BY <1>7, <1>8, <1>9 DEF m, objects

\* A bundle, imported, yields the indicators it was made from, in order.
LEMMA BundleReturns ==
    ASSUME NEW list \in Seq(Indicator), NEW limit \in Nat, Len(list) <= limit,
           \A a, b \in 1..Len(list) : list[a] = list[b] => a = b,
           \A n \in 1..Len(list) : Stable(list[n]) /\ Returns(list[n])
    PROVE  Extract(StixBundle(list), "auto", limit) = list
  <1> DEFINE m == Len(list)
             objects == StixBundle(list).objects
             parts == [k \in DOMAIN objects |-> OfObject(objects[k])]
             values == [n \in 1..m |-> list[n].value]
  <1>1. m \in Nat /\ \A n \in 1..m : list[n] \in Indicator /\ list[n].value \in Word
    <2>1. \A n \in 1..m : list[n] \in Indicator
      BY LenProperties, ElementOfSeq
    <2> QED
      BY <2>1, LenProperties DEF Indicator
  <1>2. /\ objects # <<>> /\ DOMAIN objects = 1..m + 1 /\ objects[1] = Identity
        /\ \A n \in 1..m : objects[n + 1] = StixObject(list[n])
    BY BundleObjects
  <1> HIDE DEF m, objects
  <1>3. values \in Seq(Word) /\ Len(values) = m /\ \A n \in 1..m : values[n] = list[n].value
    <2>1. values = [n \in 1..m |-> values[n]] /\ \A n \in 1..m : values[n] \in Word
      BY <1>1
    <2>2. \A n \in 1..m : values[n] = list[n].value
      OBVIOUS
    <2> HIDE DEF values
    <2> QED
      BY <1>1, <2>1, <2>2, ImageType
  <1>4. parts[1] = <<>> /\ \A n \in 1..m : parts[n + 1] = <<values[n]>>
    <2>1. 1 \in 1..m + 1 /\ \A n \in 1..m : n + 1 \in 1..m + 1
      BY <1>1
    <2>2. ASSUME NEW n \in 1..m PROVE OfObject(StixObject(list[n])) = <<values[n]>>
      BY <1>1, <1>3, ObjectYields DEF Returns, m
    <2> HIDE DEF values
    <2> QED
      BY <1>2, <2>1, <2>2, IdentityYields
  <1>5. parts \in Seq(Seq(Word)) /\ Len(parts) = m + 1
    <2> DEFINE V == Seq(Word)
    <2>1. ASSUME NEW k \in 1..m + 1 PROVE parts[k] \in V
      <3>1. CASE k = 1
        <4>1. <<>> \in V
          OBVIOUS
        <4> HIDE DEF parts, V
        <4> QED
          BY <1>4, <3>1, <4>1
      <3>2. CASE k # 1
        <4>1. k - 1 \in 1..m /\ (k - 1) + 1 = k
          BY <1>1, <3>2
        <4>2. parts[k] = <<values[k - 1]>> /\ values[k - 1] \in Word
          BY <1>1, <1>3, <1>4, <4>1
        <4> HIDE DEF parts, values
        <4> QED
          BY <4>2
      <3> QED
        BY <3>1, <3>2
    <2>2. parts = [k \in 1..m + 1 |-> parts[k]] /\ m + 1 \in Nat
      BY <1>1, <1>2
    <2> HIDE DEF parts, V
    <2>3. parts \in Seq(V) /\ Len(parts) = m + 1
      BY <2>1, <2>2, ImageType
    <2> QED
      BY <2>3 DEF V
  <1> HIDE DEF parts, values
  <1>6. FlattenSeq(parts) = values
    BY <1>3, <1>4, <1>5, FlattenSingles
  <1>7. ASSUME NEW n \in 1..m PROVE Classify(values[n]) = list[n]
    <2> DEFINE i == list[n]
    <2>1. i \in Indicator /\ Stable(i) /\ Returns(i) /\ values[n] = i.value
      BY <1>1, <1>3 DEF m
    <2> HIDE DEF i
    <2>2. Refang[i.value] = i.value /\ Format[i.value] = i.type /\ Normal(i.value) = i.value
      BY <2>1 DEF Stable, Returns
    <2>3. i.type # "none" /\ i = [type |-> i.type, value |-> i.value]
      BY <2>1 DEF Indicator, Types, Hashes, Hosts
    <2>4. Classify(i.value) = i
      BY <2>2, <2>3 DEF Classify
    <2> QED
      BY <2>1, <2>4 DEF i
  <1>8. Distinct(values, limit) = list
    BY <1>3, <1>7, DistinctReturns DEF m
  <1>9. Extract(StixBundle(list), "auto", limit) = ExtractStix(objects, limit)
    BY <1>2 DEF Extract, Sniff, objects
  <1>10. ExtractStix(objects, limit) = Distinct(FlattenSeq(parts), limit)
    BY DEF ExtractStix, OfObject, parts
  <1> QED
    BY <1>6, <1>8, <1>9, <1>10

\* The attribute of an indicator tells it from all others.
LEMMA AttributeTells ==
    ASSUME NEW i \in Indicator, NEW j \in Indicator,
           i.type \in Hosts => HostType(i.value) = i.type,
           j.type \in Hosts => HostType(j.value) = j.type,
           MispType(i) = MispType(j), i.value = j.value
    PROVE  i = j
  <1>1. i.type \in Types /\ j.type \in Types
    BY DEF Indicator
  <1>2. i.type = j.type
    <2>1. CASE MispType(i) = "ip-dst"
      BY <1>1, <2>1 DEF MispType, Hosts, Types, Hashes
    <2>2. CASE MispType(i) # "ip-dst"
      BY <1>1, <2>2 DEF MispType, Hosts, Types, Hashes
    <2> QED
      BY <2>1, <2>2
  <1>3. i = [type |-> i.type, value |-> i.value] /\ j = [type |-> j.type, value |-> j.value]
    BY DEF Indicator
  <1> QED
    BY <1>2, <1>3

\* An event has an attribute or a tag for each indicator of its list.
LEMMA EventCounts ==
    ASSUME NEW list \in Seq(Indicator), NEW score, NEW level,
           \A a, b \in 1..Len(list) : list[a] = list[b] => a = b,
           \A i \in ToSet(list) : i.type \in Hosts => HostType(i.value) = i.type
    PROVE  LET event == MispEvent(list, score, level) IN
           Cardinality(event.attributes) + Cardinality(event.tags) = Len(list)
  <1> DEFINE m == Len(list)
             S == ToSet(list)
             A == {j \in S : j.type # "attack-pattern"}
             B == {j \in S : j.type = "attack-pattern"}
             attribute(i) == [type |-> MispType(i), value |-> i.value,
                              to_ids |-> MispType(i) \in MispDetectable /\ score[i] >= ToIdsMinScore]
             attributes == {attribute(i) : i \in A}
             tags == {i.value : i \in B}
  <1>1. /\ m \in Nat /\ list \in [1..m -> Indicator] /\ DOMAIN list = 1..m
        /\ S = {list[n] : n \in 1..m} /\ S \subseteq Indicator
    BY LenProperties, ElementOfSeq DEF ToSet
  <1>2. list \in Surjection(1..m, S) /\ list \in Injection(1..m, S)
    BY <1>1 DEF Surjection, Injection, IsInjective
  <1>3. IsFiniteSet(1..m) /\ Cardinality(1..m) = m
    BY <1>1, FS_Interval
  <1>4. IsFiniteSet(S) /\ Cardinality(S) = m
    BY <1>2, <1>3, FS_Surjection
  <1> HIDE DEF S
  <1>5. IsFiniteSet(A) /\ IsFiniteSet(B)
    <2>1. A \in SUBSET S /\ B \in SUBSET S
      OBVIOUS
    <2> QED
      BY <1>4, <2>1, FS_Subset
  <1>6. Cardinality(A) + Cardinality(B) = m
    <2>1. A \cup B = S /\ A \cap B = {}
      OBVIOUS
    <2>2. Cardinality(S) = Cardinality(A) + Cardinality(B) - Cardinality(A \cap B)
      BY <1>5, <2>1, FS_Union
    <2>3. Cardinality(A \cap B) = 0 /\ Cardinality(A) \in Nat /\ Cardinality(B) \in Nat
      BY <1>5, <2>1, FS_EmptySet, FS_CardinalityType
    <2> QED
      BY <1>4, <2>2, <2>3
  <1>7. Cardinality(attributes) = Cardinality(A)
    <2> DEFINE f == [i \in A |-> attribute(i)]
    <2>1. \A i \in A : attribute(i).type = MispType(i) /\ attribute(i).value = i.value
      OBVIOUS
    <2> HIDE DEF attribute
    <2>2. f \in Surjection(A, attributes)
      BY DEF Surjection
    <2>3. ASSUME NEW i \in A, NEW j \in A, f[i] = f[j] PROVE i = j
      <3>1. MispType(i) = MispType(j) /\ i.value = j.value
        BY <2>1, <2>3
      <3>2. i \in Indicator /\ j \in Indicator
        BY <1>1
      <3>3. /\ i.type \in Hosts => HostType(i.value) = i.type
            /\ j.type \in Hosts => HostType(j.value) = j.type
        BY DEF S
      <3> QED
        BY <3>1, <3>2, <3>3, AttributeTells
    <2>4. f \in Injection(A, attributes)
      BY <2>2, <2>3 DEF Injection, IsInjective, Surjection
    <2> HIDE DEF f, A
    <2> QED
      BY <1>5, <2>2, <2>4, FS_Surjection
  <1>8. Cardinality(tags) = Cardinality(B)
    <2> DEFINE f == [i \in B |-> i.value]
    <2>1. f \in Surjection(B, tags)
      BY DEF Surjection
    <2>2. ASSUME NEW i \in B, NEW j \in B, f[i] = f[j] PROVE i = j
      <3>1. i \in Indicator /\ j \in Indicator /\ i.type = j.type /\ i.value = j.value
        BY <1>1, <2>2
      <3> QED
        BY <3>1 DEF Indicator
    <2>3. f \in Injection(B, tags)
      BY <2>1, <2>2 DEF Injection, IsInjective, Surjection
    <2> HIDE DEF f, B
    <2> QED
      BY <1>5, <2>1, <2>3, FS_Surjection
  <1>9. MispEvent(list, score, level).attributes = attributes
        /\ MispEvent(list, score, level).tags = tags
    BY DEF MispEvent, S
  <1> HIDE DEF attributes, tags, A, B
  <1> QED
    BY <1>6, <1>7, <1>8, <1>9

\* Of indicators whose score suffices, those of a detectable type are fit for
\* detection.
LEMMA EventDetects ==
    ASSUME NEW list, NEW score, NEW level, \A i \in ToSet(list) : score[i] >= ToIdsMinScore,
           NEW a \in MispEvent(list, score, level).attributes
    PROVE  a.to_ids <=> a.type \in MispDetectable
  <1>1. PICK i \in ToSet(list) :
            a = [type |-> MispType(i), value |-> i.value,
                 to_ids |-> MispType(i) \in MispDetectable /\ score[i] >= ToIdsMinScore]
    BY DEF MispEvent
  <1>2. score[i] >= ToIdsMinScore
    OBVIOUS
  <1>3. a.type = MispType(i)
    BY <1>1
  <1>4. a.to_ids = (MispType(i) \in MispDetectable /\ score[i] >= ToIdsMinScore)
    BY <1>1
  <1> QED
    BY <1>2, <1>3, <1>4

\* Whatever has been stored, a STIX export comes back as it went out, and a
\* MISP event leaves nothing out (ExportsComeBack).
THEOREM ExportsReturn == Spec => []ExportsComeBack
  <1>1. Inv /\ Typed => ExportsComeBack
    <2> SUFFICES ASSUME Inv, Typed,
                        NEW min \in {0, ToIdsMinScore}, NEW limit \in {1, MaxIndicators},
                        NEW list \in Listings(min, limit)
                 PROVE  LET score == [i \in DOMAIN iocs |-> iocs[i].score]
                            event == MispEvent(list, score, [i \in DOMAIN iocs |-> iocs[i].level]) IN
                        /\ (\A i \in ToSet(list) : Returns(i))
                           => Extract(StixBundle(list), "auto", MaxIndicators) = list
                        /\ Cardinality(event.attributes) + Cardinality(event.tags) = Len(list)
                        /\ min = ToIdsMinScore => \A a \in event.attributes :
                              a.to_ids <=> a.type \in MispDetectable
      BY DEF ExportsComeBack, Returns
    <2> DEFINE score == [i \in DOMAIN iocs |-> iocs[i].score]
               level == [i \in DOMAIN iocs |-> iocs[i].level]
               event == MispEvent(list, score, level)
    <2>1. PICK n \in 0..limit : Picks(RowsFrom(min), n, list)
      <3>1. limit \in Nat /\ IsFiniteSet(DOMAIN iocs)
        BY DEF MaxIndicators, Typed, RowsTyped
      <3> QED
        BY <3>1, ListingsPick
    <2>2. /\ list \in Seq(RowsFrom(min)) /\ Len(list) = n
          /\ \A a, b \in 1..n : list[a] = list[b] => a = b
      BY <2>1 DEF Picks
    <2>3. \A i \in RowsFrom(min) : /\ i \in DOMAIN iocs /\ i \in Indicator /\ Stable(i)
                                   /\ i.type \in Hosts => HostType(i.value) = i.type
                                   /\ iocs[i].score >= min
      BY DEF RowsFrom, Inv, RowsOK, Explained
    <2>4. list \in Seq(Indicator)
      BY <2>2, <2>3, SeqMonotonic
    <2>5. \A k \in 1..n : list[k] \in RowsFrom(min)
      BY <2>2, ElementOfSeq
    <2>6. \A i \in ToSet(list) : i \in RowsFrom(min)
      BY <2>2, <2>5, LenProperties DEF ToSet
    <2>7. ASSUME \A i \in ToSet(list) : Returns(i)
          PROVE  Extract(StixBundle(list), "auto", MaxIndicators) = list
      <3>1. \A k \in 1..n : Stable(list[k]) /\ Returns(list[k])
        BY <2>2, <2>3, <2>5, <2>7, LenProperties DEF ToSet
      <3>2. MaxIndicators \in Nat /\ n <= MaxIndicators
        BY DEF MaxIndicators
      <3> QED
        BY <2>2, <2>4, <3>1, <3>2, BundleReturns
    <2>8. Cardinality(event.attributes) + Cardinality(event.tags) = Len(list)
      <3> HIDE DEF score, level
      <3> QED
        BY <2>2, <2>3, <2>4, <2>6, EventCounts
    <2>9. ASSUME min = ToIdsMinScore, NEW a \in event.attributes
          PROVE  a.to_ids <=> a.type \in MispDetectable
      <3>1. \A i \in ToSet(list) : score[i] >= ToIdsMinScore
        BY <2>3, <2>6, <2>9
      <3> HIDE DEF score, level
      <3> QED
        BY <2>9, <3>1, EventDetects
    <2> QED
      BY <2>7, <2>8, <2>9
  <1>2. Spec => []Typed
    BY TypedInit, TypedStep, RowsExplained, PTL DEF Spec
  <1> QED
    BY <1>1, <1>2, RowsExplained, PTL

----------------------------------------------------------------------------
(* Enriching anew                                                          *)

\* The value of an indicator is read as that indicator, unless refang still
\* finds something in it.
LEMMA ReadAgain ==
    ASSUME NEW i \in Indicator, Stable(i), i.type \in Loose => Refang[i.value] = i.value
    PROVE  Classify(i.value) = i
  <1>1. Refang[i.value] = i.value /\ Format[i.value] = i.type /\ Normal(i.value) = i.value
    BY DEF Stable
  <1>2. i.type # "none" /\ i = [type |-> i.type, value |-> i.value]
    BY DEF Indicator, Types, Hashes, Hosts
  <1> QED
    BY <1>1, <1>2 DEF Classify

\* What RerunKeepsItsRow asks of one step.
KeepsItsRow ==
    \A i \in DOMAIN iocs, answer, hook \in Answers :
        Rerun(i, answer, hook) /\ (i.type \in Loose => Refang[i.value] = i.value) =>
        LET was == iocs[i]
            is == iocs'[i] IN
        /\ DOMAIN iocs' = DOMAIN iocs
        /\ \A j \in DOMAIN iocs \ {i} : iocs'[j] = iocs[j]
        /\ is.sightings = was.sightings + 1
        /\ /\ was.by.day = today /\ was.by.confidence = was.confidence
           /\ was.by.reputable <=> was.source \in ReputableSources
           => was.score <= is.score

LEMMA RerunKeeps == Inv => KeepsItsRow
  <1> SUFFICES ASSUME Inv, NEW i \in DOMAIN iocs, NEW answer \in Answers, NEW hook \in Answers,
                      Rerun(i, answer, hook), i.type \in Loose => Refang[i.value] = i.value
               PROVE  /\ DOMAIN iocs' = DOMAIN iocs
                      /\ \A j \in DOMAIN iocs \ {i} : iocs'[j] = iocs[j]
                      /\ iocs'[i].sightings = iocs[i].sightings + 1
                      /\ /\ iocs[i].by.day = today /\ iocs[i].by.confidence = iocs[i].confidence
                         /\ iocs[i].by.reputable <=> iocs[i].source \in ReputableSources
                         => iocs[i].score <= iocs'[i].score
    BY DEF KeepsItsRow
  <1>1. Explained(i, iocs[i], today)
    BY DEF Inv, RowsOK
  <1>2. i \in Indicator /\ i.value \in Word /\ iocs[i].confidence \in Confidence
    BY <1>1 DEF Explained, Indicator
  <1>3. Classify(i.value) = i
    BY <1>1, <1>2, ReadAgain DEF Explained
  <1>4. Upsert(i.value, iocs[i].source, iocs[i].confidence, TRUE, answer, hook)
    BY DEF Rerun
  <1>5. /\ DOMAIN iocs' = DOMAIN iocs \cup {i}
        /\ \A j \in DOMAIN iocs : j # i => iocs'[j] = iocs[j]
        /\ Explained(i, iocs'[i], today) /\ iocs'[i].by.day = today
        /\ iocs'[i].first = iocs[i].first
        /\ iocs'[i].sightings = iocs[i].sightings + 1
    BY <1>2, <1>3, <1>4, UpsertExplains
  <1>6. /\ iocs'[i].by.reputable = (iocs[i].source \in ReputableSources)
        /\ iocs'[i].by.confidence = iocs[i].confidence
        /\ iocs'[i].by.enriched = TRUE
    BY <1>3, <1>4 DEF Upsert, Scored
  <1>7. ASSUME iocs[i].by.day = today, iocs[i].by.confidence = iocs[i].confidence,
               iocs[i].by.reputable <=> iocs[i].source \in ReputableSources
        PROVE  iocs[i].score <= iocs'[i].score
    <2>1. /\ iocs[i].by.reputable => iocs'[i].by.reputable
          /\ iocs[i].by.enriched => iocs'[i].by.enriched
      BY <1>6, <1>7
    <2>2. iocs[i].by.confidence <= iocs'[i].by.confidence
      BY <1>2, <1>6, <1>7 DEF Confidence
    <2> QED
      BY <1>5, <1>7, <2>1, <2>2, NoReasonNoFall
  <1> QED
    BY <1>5, <1>7

\* Enriching an indicator anew is one more sighting of it and changes no other
\* row, whatever the resolvers answer, and has no reason to lower its score
\* when nothing but the enrichment is new (RerunKeepsItsRow).
THEOREM RerunStaysOnRow == Spec => RerunKeepsItsRow
  <1>1. Inv => [KeepsItsRow]_vars
    BY RerunKeeps
  <1>2. [KeepsItsRow]_vars <=>
          [\A i \in DOMAIN iocs, answer, hook \in Answers :
              Rerun(i, answer, hook) /\ (i.type \in Loose => Refang[i.value] = i.value) =>
              LET was == iocs[i]
                  is == iocs'[i] IN
              /\ DOMAIN iocs' = DOMAIN iocs
              /\ \A j \in DOMAIN iocs \ {i} : iocs'[j] = iocs[j]
              /\ is.sightings = was.sightings + 1
              /\ /\ was.by.day = today /\ was.by.confidence = was.confidence
                 /\ was.by.reputable <=> was.source \in ReputableSources
                 => was.score <= is.score]_vars
    BY DEF KeepsItsRow
  <1> QED
    BY <1>1, <1>2, RowsExplained, PTL DEF RerunKeepsItsRow
==============================================================================
