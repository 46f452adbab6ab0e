------------------------- MODULE RateLimiterProofs -------------------------
(***************************************************************************)
(* Theorems about RateLimiter, for any set of callers and proxies, any     *)
(* headers, any limit and window, and without end of time but MaxTime.     *)
(***************************************************************************)
EXTENDS RateLimiter, SequenceTheorems, TLAPS

(***************************************************************************)
(* A bucket is what is left of the log of its caller once hits that are    *)
(* out of the window have been forgotten.  Everything follows from that.   *)
(***************************************************************************)
Sorted(l, t) ==
    /\ \A i \in 1..Len(l) : l[i] <= t
    /\ \A i, j \in 1..Len(l) : i <= j => l[i] <= l[j]

Suffix(h, l, t) ==
    /\ Len(h) <= Len(l)
    /\ \A i \in 1..Len(h) : h[i] = l[i + (Len(l) - Len(h))]
    /\ \A j \in 1..(Len(l) - Len(h)) : t - l[j] > Window

Spaced(l) == \A i, j \in 1..Len(l) : j >= i + Limit => l[j] - l[i] > Window

\* A promise is kept when the oldest hit is gone by then.
Kept(h, d) == d # 0 => h = <<>> \/ h[1] + Window < d

\* What relates the log l of a caller, its bucket h, the time a it was last
\* heard and the time d it waits for, at time t.
Fits(l, h, a, d, t) ==
    /\ Sorted(l, t)
    /\ Suffix(h, l, t)
    /\ Len(h) <= Limit
    /\ Spaced(l)
    /\ a <= t
    /\ h # <<>> => h[Len(h)] <= a
    /\ Limit > 0 => Kept(h, d)

CallerInv(c) == Fits(log[c], hits[c], heard[c], due[c], now)

RateInv ==
    /\ TypeOK
    /\ lastSweep <= now
    /\ \A c \in Caller : CallerInv(c)
    /\ MemoryIsBounded

----------------------------------------------------------------------------
(* Callers                                                                 *)

\* The limiter counts a request for the address it really came from, whatever
\* chain of trusted proxies it took and whatever the caller wrote.
LEMMA ClientIsCaller ==
    ASSUME NEW c \in Caller, NEW forged \in Forged, NEW path \in Paths
    PROVE  Client(c, forged, path) = c
<1>1. CASE path = <<>>
  BY <1>1, RateAssumption DEF Client, ClientIp, PeerOf, Trusts
<1>2. CASE path # <<>>
  <2> DEFINE n == Len(forged)
             tail == SubSeq(path, 1, Len(path) - 1)
             f == HeaderOf(c, forged, path)
             strangers == {i \in DOMAIN f : ~Trusts(f[i])}
  <2>1. forged \in Seq(Address) /\ path \in Seq(Proxy) /\ c \notin Proxy
    BY RateAssumption
  <2>2. Len(path) \in Nat \ {0}
    BY <1>2, <2>1
  <2>3. tail \in Seq(Proxy) /\ Len(tail) = Len(path) - 1
    <3>1. \A i \in 1..(Len(path) - 1) : path[i] \in Proxy
      BY <2>1, <2>2, ElementOfSeq
    <3> DEFINE m == Len(path) - 1
    <3>2. m \in Int /\ m >= 0 /\ m - 1 + 1 = m /\ 1 \in Int
      BY <2>2
    <3> HIDE DEF m
    <3>3. \A i \in 1..m : path[i] \in Proxy
      BY <3>1 DEF m
    <3>4. /\ SubSeq(path, 1, m) \in Seq(Proxy)
          /\ Len(SubSeq(path, 1, m)) = IF 1 <= m THEN m - 1 + 1 ELSE 0
      BY <3>2, <3>3, SubSeqProperties
    <3>5. Len(SubSeq(path, 1, m)) = m
      BY <3>2, <3>4
    <3> QED BY <3>4, <3>5 DEF m
  <2>4. f = forged \o <<c>> \o tail
    BY <1>2 DEF HeaderOf
  <2>5. c \in Address /\ Proxy \subseteq Address
    BY DEF Address
  <2>6. tail \in Seq(Address)
    BY <2>3, <2>5
  <2>7. <<c>> \in Seq(Address)
    BY <2>5
  <2> HIDE DEF f, tail, n
  <2>8a. forged \o <<c>> = Append(forged, c) /\ Append(forged, c) \in Seq(Address)
    BY <2>1, <2>5, AppendIsConcat, AppendProperties
  <2>8b. /\ n \in Nat /\ Len(tail) \in Nat
         /\ Len(Append(forged, c)) = n + 1 /\ Append(forged, c)[n + 1] = c
    BY <2>1, <2>5, <2>6, AppendProperties, LenProperties DEF n
  <2>8c. /\ f \in Seq(Address) /\ Len(f) = n + 1 + Len(tail)
         /\ \A i \in 1..(n + 1 + Len(tail)) :
               f[i] = IF i <= n + 1 THEN Append(forged, c)[i]
                                    ELSE tail[i - (n + 1)]
    <3> DEFINE s1 == Append(forged, c)
    <3>1. f = s1 \o tail /\ s1 \in Seq(Address)
      BY <2>4, <2>8a
    <3> HIDE DEF s1
    <3>2. /\ f \in Seq(Address) /\ Len(f) = Len(s1) + Len(tail)
          /\ \A i \in 1..(Len(s1) + Len(tail)) :
                f[i] = IF i <= Len(s1) THEN s1[i] ELSE tail[i - Len(s1)]
      BY <3>1, <2>6, ConcatProperties
    <3>3. Len(s1) = n + 1
      BY <2>8b DEF s1
    <3> QED BY <3>2, <3>3 DEF s1
  <2>8. DOMAIN f = 1..(n + 1 + Len(tail)) /\ n \in Nat /\ Len(tail) \in Nat
    BY <2>8b, <2>8c, LenProperties
  <2>9. f[n + 1] = c
    BY <2>8b, <2>8c
  <2>10. \A i \in DOMAIN f : i > n + 1 => f[i] \in Proxy
    <3> SUFFICES ASSUME NEW i \in DOMAIN f, i > n + 1 PROVE f[i] \in Proxy
      OBVIOUS
    <3>1. f[i] = tail[i - (n + 1)]
      BY <2>8, <2>8b, <2>8c
    <3>2. i - (n + 1) \in 1..Len(tail)
      BY <2>8
    <3> QED BY <3>1, <3>2, <2>3
  <2>11. n + 1 \in strangers /\ \A j \in strangers : j <= n + 1 /\ j \in Nat
    BY <2>1, <2>8, <2>9, <2>10 DEF Trusts
  <2> HIDE DEF strangers
  <2>12. \A i \in strangers : (\A j \in strangers : j <= i) => i = n + 1
    BY <2>8b, <2>11
  <2>13. (CHOOSE i \in strangers : \A j \in strangers : j <= i) = n + 1
    BY <2>11, <2>12
  <2>14. Trusts(PeerOf(c, path))
    BY <1>2, <2>1, <2>2 DEF PeerOf, Trusts
  <2> QED BY <2>9, <2>11, <2>13, <2>14 DEF Client, ClientIp, strangers, f
<1> QED BY <1>1, <1>2

----------------------------------------------------------------------------
(* Buckets                                                                 *)

LEMMA PoppedIsSuffix ==
    ASSUME NEW h \in Seq(Nat), NEW l \in Seq(Nat), now \in Nat,
           Suffix(h, l, now), NEW b \in Popped(h)
    PROVE  /\ b \in Seq(Nat) /\ Len(b) <= Len(h)
           /\ Suffix(b, l, now)
           /\ b # <<>> => now - b[1] <= Window
           /\ b # <<>> => b[Len(b)] = h[Len(h)] /\ h # <<>>
           /\ b = h \/ (Len(b) < Len(h) /\ now - h[1] > Window)
<1>1. PICK k \in 0..Len(h) :
        /\ \A i \in 1..k : now - h[i] > Window
        /\ k < Len(h) => now - h[k + 1] <= Window
        /\ b = SubSeq(h, k + 1, Len(h))
  BY DEF Popped
<1>2. b \in Seq(Nat) /\ Len(b) = Len(h) - k
  <2>1. Len(h) \in Nat /\ k + 1 \in Nat \ {0} /\ k <= Len(h)
    OBVIOUS
  <2>2. b \in Seq(Nat)
    BY <1>1, <2>1
  <2>3. Len(b) = IF k + 1 <= Len(h) THEN Len(h) - (k + 1) + 1 ELSE 0
    BY <1>1, <2>1
  <2> QED BY <2>1, <2>2, <2>3
<1>3. \A i \in 1..Len(b) : b[i] = h[i + k]
  BY <1>1
<1>4. Len(h) \in Nat /\ Len(l) \in Nat /\ k \in Nat /\ Len(b) \in Nat
  BY <1>1, <1>2
<1>5. Suffix(b, l, now)
  <2>1. ASSUME NEW i \in 1..Len(b) PROVE b[i] = l[i + (Len(l) - Len(b))]
    <3>1. i + k \in 1..Len(h) /\ (i + k) + (Len(l) - Len(h)) = i + (Len(l) - Len(b))
      BY <1>2, <1>4
    <3>2. h[i + k] = l[(i + k) + (Len(l) - Len(h))]
      BY <3>1 DEF Suffix
    <3>3. QED
      BY <1>3, <3>1, <3>2
  <2>2. ASSUME NEW j \in 1..(Len(l) - Len(b)) PROVE now - l[j] > Window
    <3>1. CASE j <= Len(l) - Len(h)
      BY <3>1, <1>4 DEF Suffix
    <3>2. CASE j > Len(l) - Len(h)
      <4> DEFINE i == j - (Len(l) - Len(h))
      <4>1. i \in 1..k /\ i + (Len(l) - Len(h)) = j
        BY <3>2, <1>2, <1>4 DEF Suffix
      <4>2. h[i] = l[j]
        BY <4>1, <1>1, <1>4 DEF Suffix
      <4> QED BY <4>1, <4>2, <1>1
    <3> QED BY <3>1, <3>2, <1>4
  <2> QED BY <2>1, <2>2, <1>2, <1>4 DEF Suffix
<1>6. b # <<>> => now - b[1] <= Window
  <2> SUFFICES ASSUME b # <<>> PROVE now - b[1] <= Window
    OBVIOUS
  <2>1. Len(b) > 0
    BY <1>2, <1>4, EmptySeq
  <2>2. k < Len(h) /\ 1 \in 1..Len(b) /\ 1 + k = k + 1
    BY <2>1, <1>2, <1>4
  <2>3. b[1] = h[1 + k]
    BY <2>2, <1>3
  <2> QED BY <2>2, <2>3, <1>1
<1>7. b # <<>> => b[Len(b)] = h[Len(h)] /\ h # <<>>
  <2> SUFFICES ASSUME b # <<>> PROVE b[Len(b)] = h[Len(h)] /\ h # <<>>
    OBVIOUS
  <2>1. Len(b) > 0
    BY <1>2, <1>4, EmptySeq
  <2>2. Len(h) > 0 /\ Len(b) \in 1..Len(b) /\ Len(b) + k = Len(h)
    BY <2>1, <1>2, <1>4
  <2>3. b[Len(b)] = h[Len(b) + k]
    BY <2>2, <1>3
  <2>4. h # <<>>
    BY <2>2, EmptySeq
  <2> QED BY <2>2, <2>3, <2>4
<1>8. b = h \/ (Len(b) < Len(h) /\ now - h[1] > Window)
  <2>1. CASE k = 0
    <3>1. Len(b) = Len(h) /\ \A i \in 1..Len(h) : b[i] = h[i]
      BY <2>1, <1>2, <1>3, <1>4
    <3> QED BY <3>1, <1>2, SeqEqual
  <2>2. CASE k # 0
    BY <2>2, <1>1, <1>2, <1>4
  <2> QED BY <2>1, <2>2
<1> QED BY <1>2, <1>4, <1>5, <1>6, <1>7, <1>8

LEMMA AppendIsSuffix ==
    ASSUME NEW h \in Seq(Nat), NEW l \in Seq(Nat), now \in Nat,
           Suffix(h, l, now), Sorted(l, now)
    PROVE  /\ Suffix(Append(h, now), Append(l, now), now)
           /\ Sorted(Append(l, now), now)
<1> DEFINE h2 == Append(h, now)
           l2 == Append(l, now)
<1>1. /\ Len(h) \in Nat /\ Len(l) \in Nat
      /\ Len(h2) = Len(h) + 1 /\ Len(l2) = Len(l) + 1
      /\ \A i \in 1..Len(h) : h2[i] = h[i]
      /\ \A i \in 1..Len(l) : l2[i] = l[i]
      /\ h2[Len(h) + 1] = now /\ l2[Len(l) + 1] = now
  OBVIOUS
<1> HIDE DEF h2, l2
<1>2. ASSUME NEW i \in 1..Len(h2) PROVE h2[i] = l2[i + (Len(l2) - Len(h2))]
  <2>1. CASE i = Len(h) + 1
    BY <2>1, <1>1 DEF Suffix
  <2>2. CASE i # Len(h) + 1
    <3>1. /\ i \in 1..Len(h) /\ Len(l2) - Len(h2) = Len(l) - Len(h)
          /\ i + (Len(l) - Len(h)) \in 1..Len(l)
      BY <2>2, <1>1 DEF Suffix
    <3>2. h[i] = l[i + (Len(l) - Len(h))]
      BY <3>1 DEF Suffix
    <3> QED BY <3>1, <3>2, <1>1
  <2> QED BY <2>1, <2>2
<1>3. ASSUME NEW j \in 1..(Len(l2) - Len(h2)) PROVE now - l2[j] > Window
  <2>1. j \in 1..(Len(l) - Len(h)) /\ j \in 1..Len(l)
    BY <1>1 DEF Suffix
  <2>2. now - l[j] > Window
    BY <2>1 DEF Suffix
  <2> QED BY <2>1, <2>2, <1>1
<1>4. Suffix(h2, l2, now)
  BY <1>1, <1>2, <1>3 DEF Suffix
<1>5. \A i \in 1..Len(l) : l[i] \in Nat
  OBVIOUS
<1>6. Sorted(l2, now)
  <2>1. ASSUME NEW i \in 1..Len(l2) PROVE l2[i] <= now /\ l2[i] \in Nat
    <3>1. CASE i = Len(l) + 1
      BY <3>1, <1>1
    <3>2. CASE i # Len(l) + 1
      <4>1. i \in 1..Len(l)
        BY <3>2, <1>1
      <4> QED BY <4>1, <1>1, <1>5 DEF Sorted
    <3> QED BY <3>1, <3>2
  <2>2. ASSUME NEW i \in 1..Len(l2), NEW j \in 1..Len(l2), i <= j
        PROVE  l2[i] <= l2[j]
    <3>1. CASE j = Len(l) + 1
      BY <3>1, <2>1, <1>1
    <3>2. CASE j # Len(l) + 1
      <4>1. i \in 1..Len(l) /\ j \in 1..Len(l)
        BY <3>2, <2>2, <1>1
      <4>2. l2[i] = l[i] /\ l2[j] = l[j]
        BY <4>1, <1>1
      <4> QED BY <4>1, <4>2, <2>2 DEF Sorted
    <3> QED BY <3>1, <3>2
  <2> QED BY <2>1, <2>2 DEF Sorted
<1> QED BY <1>4, <1>6 DEF h2, l2

LEMMA StaleIsForgotten ==
    ASSUME NEW h \in Seq(Nat), NEW l \in Seq(Nat), now \in Nat,
           Suffix(h, l, now), Sorted(l, now), Stale(h)
    PROVE  Suffix(<<>>, l, now)
<1>1. Len(h) \in Nat /\ Len(l) \in Nat /\ Len(<<>>) = 0 /\ Window \in Nat
  BY RateAssumption
<1>2. \A i \in 1..Len(l) : l[i] \in Nat
  OBVIOUS
<1>3. ASSUME NEW j \in 1..Len(l) PROVE now - l[j] > Window
  <2>1. CASE h = <<>>
    BY <2>1, <1>1 DEF Suffix
  <2>2. CASE h # <<>>
    <3>1. Len(h) > 0 /\ now - h[Len(h)] > Window /\ h[Len(h)] = l[Len(l)]
      BY <2>2, <1>1 DEF Stale, Suffix
    <3>2. l[j] <= l[Len(l)]
      BY <1>1 DEF Sorted
    <3>3. l[j] \in Nat /\ l[Len(l)] \in Nat /\ Window \in Nat
      BY <1>1, <1>2
    <3> QED BY <3>1, <3>2, <3>3
  <2> QED BY <2>1, <2>2
<1> QED BY <1>1, <1>3 DEF Suffix

\* One more admission keeps the distance, if fewer than Limit hits are left.
LEMMA AdmissionKeepsDistance ==
    ASSUME NEW b \in Seq(Nat), NEW l \in Seq(Nat), now \in Nat,
           Suffix(b, l, now), Len(b) < Limit, Spaced(l)
    PROVE  Spaced(Append(l, now))
<1> DEFINE l2 == Append(l, now)
<1>1. /\ Len(b) \in Nat /\ Len(l) \in Nat /\ Limit \in Nat
      /\ Len(l2) = Len(l) + 1 /\ l2[Len(l) + 1] = now
      /\ \A i \in 1..Len(l) : l2[i] = l[i]
  BY RateAssumption
<1> HIDE DEF l2
<1> SUFFICES ASSUME NEW i \in 1..Len(l2), NEW j \in 1..Len(l2), j >= i + Limit
             PROVE  l2[j] - l2[i] > Window
  BY DEF Spaced, l2
<1>2. CASE j = Len(l) + 1
  <2>1. i \in 1..(Len(l) - Len(b)) /\ i \in 1..Len(l)
    BY <1>1, <1>2 DEF Suffix
  <2>2. now - l[i] > Window
    BY <2>1 DEF Suffix
  <2> QED BY <2>1, <2>2, <1>1, <1>2
<1>3. CASE j # Len(l) + 1
  <2>1. i \in 1..Len(l) /\ j \in 1..Len(l)
    BY <1>1, <1>3
  <2>2. l2[i] = l[i] /\ l2[j] = l[j]
    BY <2>1, <1>1
  <2> QED BY <2>1, <2>2 DEF Spaced
<1> QED BY <1>2, <1>3

----------------------------------------------------------------------------
(* What the actions do to one caller                                       *)

LEMMA FitsLater ==
    ASSUME NEW l \in Seq(Nat), NEW h \in Seq(Nat), NEW a \in Nat, NEW d \in Nat,
           NEW t \in Nat, Fits(l, h, a, d, t)
    PROVE  Fits(l, h, a, d, t + 1)
<1>1. /\ Len(l) \in Nat /\ Len(h) \in Nat /\ Window \in Nat
      /\ \A i \in 1..Len(l) : l[i] \in Nat
  BY RateAssumption
<1>2. Sorted(l, t + 1)
  <2>1. \A i \in 1..Len(l) : l[i] <= t + 1
    BY <1>1 DEF Fits, Sorted
  <2> QED BY <2>1 DEF Fits, Sorted
<1>3. Suffix(h, l, t + 1)
  <2>1. ASSUME NEW j \in 1..(Len(l) - Len(h)) PROVE (t + 1) - l[j] > Window
    <3>1. j \in 1..Len(l) /\ t - l[j] > Window
      BY <1>1 DEF Fits, Suffix
    <3>2. l[j] \in Nat /\ Window \in Nat
      BY <3>1, <1>1
    <3> QED BY <3>1, <3>2
  <2> DEFINE u == t + 1
  <2>2. \A j \in 1..(Len(l) - Len(h)) : u - l[j] > Window
    BY <2>1
  <2> HIDE DEF u
  <2>3. Suffix(h, l, u)
    BY <2>2 DEF Fits, Suffix
  <2> QED BY <2>3 DEF u
<1>4. a <= t + 1
  BY DEF Fits
<1> QED BY <1>2, <1>3, <1>4 DEF Fits

LEMMA FitsSwept ==
    ASSUME NEW l \in Seq(Nat), NEW h \in Seq(Nat), NEW a \in Nat, NEW d \in Nat,
           now \in Nat, Fits(l, h, a, d, now), Stale(h)
    PROVE  Fits(l, <<>>, a, d, now)
<1>1. Suffix(<<>>, l, now)
  BY StaleIsForgotten DEF Fits
<1>2. Len(<<>>) = 0 /\ Limit \in Nat
  BY RateAssumption
<1>3. Len(<<>>) <= Limit
  BY <1>2
<1> QED BY <1>1, <1>3 DEF Fits, Kept

LEMMA FitsAdmitted ==
    ASSUME NEW l \in Seq(Nat), NEW h \in Seq(Nat), NEW a \in Nat, NEW d \in Nat,
           now \in Nat, Fits(l, h, a, d, now), NEW b \in Popped(h), Len(b) < Limit
    PROVE  /\ Append(l, now) \in Seq(Nat) /\ Append(b, now) \in Seq(Nat)
           /\ Fits(Append(l, now), Append(b, now), now, 0, now)
<1>1. Sorted(l, now) /\ Suffix(h, l, now) /\ Spaced(l)
  BY DEF Fits
<1>2. b \in Seq(Nat) /\ Suffix(b, l, now)
  BY <1>1, PoppedIsSuffix
<1>3. Suffix(Append(b, now), Append(l, now), now) /\ Sorted(Append(l, now), now)
  BY <1>1, <1>2, AppendIsSuffix
<1>4. Spaced(Append(l, now))
  BY <1>1, <1>2, AdmissionKeepsDistance
<1>5. /\ Append(b, now) \in Seq(Nat) /\ Append(l, now) \in Seq(Nat)
      /\ Len(Append(b, now)) = Len(b) + 1 /\ Append(b, now)[Len(b) + 1] = now
  BY <1>2, AppendProperties
<1>6. Len(Append(b, now)) <= Limit
  BY <1>2, <1>5, LenProperties, RateAssumption
<1>7. Append(b, now)[Len(Append(b, now))] <= now
  BY <1>5
<1> QED BY <1>3, <1>4, <1>5, <1>6, <1>7 DEF Fits, Kept

LEMMA FitsRefused ==
    ASSUME NEW l \in Seq(Nat), NEW h \in Seq(Nat), NEW a \in Nat, NEW d \in Nat,
           now \in Nat, Fits(l, h, a, d, now), NEW b \in Popped(h), Len(b) >= Limit,
           NEW e \in Nat,
           Limit > 0 => (d # 0 /\ e = d) \/ b[1] + Window < e
    PROVE  /\ b \in Seq(Nat) /\ Fits(l, b, now, e, now)
           /\ Limit > 0 => d = 0 \/ now < d
<1>1. Sorted(l, now) /\ Suffix(h, l, now) /\ Spaced(l) /\ Len(h) <= Limit
  BY DEF Fits
<1>2. /\ b \in Seq(Nat) /\ Len(b) <= Len(h) /\ Suffix(b, l, now)
      /\ b # <<>> => now - b[1] <= Window
      /\ b # <<>> => b[Len(b)] = h[Len(h)] /\ h # <<>>
      /\ b = h \/ Len(b) < Len(h)
  BY <1>1, PoppedIsSuffix
<1>3. Len(b) \in Nat /\ Len(h) \in Nat /\ Limit \in Nat /\ Window \in Nat
  BY <1>2, LenProperties, RateAssumption
\* Only a full bucket is refused, and none of a full one has been popped.
<1>4. b = h
  BY <1>1, <1>2, <1>3
<1>5. b # <<>> => b[Len(b)] <= now
  <2> SUFFICES ASSUME b # <<>> PROVE b[Len(b)] <= now
    OBVIOUS
  <2>1. Len(b) \in 1..Len(b)
    BY <1>2, <1>3, EmptySeq
  <2>2. b[Len(b)] \in Nat
    BY <1>2, <2>1, ElementOfSeq
  <2>3. b[Len(b)] <= a /\ a <= now
    BY <1>4 DEF Fits
  <2> QED BY <2>2, <2>3
<1>6. ASSUME Limit > 0
      PROVE  /\ d = 0 \/ now < d
             /\ Kept(b, e)
  <2>1. 1 \in 1..Len(b) /\ b # <<>>
    BY <1>3, <1>6, EmptySeq
  <2>2. b[1] \in Nat
    BY <1>2, <2>1, ElementOfSeq
  <2>3. now - b[1] <= Window
    BY <1>2, <2>1
  <2>4. d # 0 => b[1] + Window < d
    BY <1>4, <1>6, <2>1 DEF Fits, Kept
  <2>5. d = 0 \/ now < d
    BY <1>3, <2>2, <2>3, <2>4
  <2>6. b[1] + Window < e
    BY <2>4, <1>6
  <2> QED BY <2>5, <2>6 DEF Kept
<1>7. Len(b) <= Limit
  BY <1>1, <1>4
<1> QED BY <1>1, <1>2, <1>5, <1>6, <1>7 DEF Fits

----------------------------------------------------------------------------
(* The invariant                                                           *)

LEMMA InitRate == Init => RateInv
<1> SUFFICES ASSUME Init PROVE RateInv
  OBVIOUS
<1>1. now \in Nat /\ lastSweep = 0 /\ known = {}
  BY RateAssumption DEF Init
<1>2. <<>> \in Seq(Nat) /\ Len(<<>>) = 0
  BY EmptySeq
<1>3. TypeOK
  <2>1. hits \in [Address -> Seq(Nat)] /\ log \in [Caller -> Seq(Nat)]
    BY <1>2 DEF Init
  <2>2. heard \in [Caller -> Nat] /\ due \in [Caller -> Nat]
    BY DEF Init
  <2> QED BY <1>1, <2>1, <2>2 DEF TypeOK
<1>4. ASSUME NEW c \in Caller PROVE CallerInv(c)
  <2>1. hits[c] = <<>> /\ log[c] = <<>> /\ heard[c] = 0 /\ due[c] = 0
    BY DEF Init, Address
  <2>2. Sorted(<<>>, now) /\ Suffix(<<>>, <<>>, now) /\ Spaced(<<>>)
    BY <1>2 DEF Sorted, Suffix, Spaced
  <2>3. Len(<<>>) <= Limit /\ 0 <= now
    BY <1>1, <1>2, RateAssumption
  <2> QED BY <2>1, <2>2, <2>3 DEF CallerInv, Fits, Kept
<1>5. lastSweep <= now /\ MemoryIsBounded
  BY <1>1 DEF MemoryIsBounded
<1> QED BY <1>3, <1>4, <1>5 DEF RateInv

LEMMA TickRate ==
    ASSUME RateInv, Tick
    PROVE  RateInv'
<1>1. TypeOK /\ now' = now + 1 /\ UNCHANGED <<hits, known, lastSweep, log, heard, due>>
  BY DEF RateInv, Tick
<1>2. TypeOK'
  BY <1>1 DEF TypeOK
<1>3. ASSUME NEW c \in Caller PROVE CallerInv(c)'
  <2>1. /\ now \in Nat /\ log[c] \in Seq(Nat) /\ hits[c] \in Seq(Nat)
        /\ heard[c] \in Nat /\ due[c] \in Nat
    BY <1>1 DEF TypeOK, Address
  <2>2. Fits(log[c], hits[c], heard[c], due[c], now)
    BY DEF RateInv, CallerInv
  <2>3. Fits(log[c], hits[c], heard[c], due[c], now + 1)
    BY <2>1, <2>2, FitsLater
  <2> QED BY <1>1, <2>3 DEF CallerInv
<1>4. lastSweep' <= now'
  BY <1>1 DEF RateInv, TypeOK
<1>5. MemoryIsBounded'
  BY <1>1 DEF RateInv, MemoryIsBounded
<1> QED BY <1>2, <1>3, <1>4, <1>5 DEF RateInv

LEMMA AdmitRate ==
    ASSUME RateInv, NEW c \in Caller, NEW forged \in Forged, NEW path \in Paths,
           Admit(c, forged, path)
    PROVE  RateInv'
<1>1. TypeOK /\ now \in Nat /\ lastSweep \in Nat /\ lastSweep <= now
  BY DEF RateInv, TypeOK
<1>2. Client(c, forged, path) = c
  BY ClientIsCaller
<1>3. PICK b \in Popped(hits[c]) :
        /\ Len(b) < Limit
        /\ Sweep([hits EXCEPT ![c] = Append(b, now)], known \cup {c})
        /\ log' = [log EXCEPT ![c] = Append(@, now)]
        /\ heard' = [heard EXCEPT ![c] = now]
        /\ due' = [due EXCEPT ![c] = 0]
        /\ UNCHANGED now
  BY <1>2 DEF Admit
<1> DEFINE h1 == [hits EXCEPT ![c] = Append(b, now)]
<1>4. ASSUME NEW x \in Caller
      PROVE  /\ log'[x] \in Seq(Nat) /\ h1[x] \in Seq(Nat)
             /\ heard'[x] \in Nat /\ due'[x] \in Nat
             /\ Fits(log'[x], h1[x], heard'[x], due'[x], now)
  <2>1. /\ log[x] \in Seq(Nat) /\ hits[x] \in Seq(Nat)
        /\ heard[x] \in Nat /\ due[x] \in Nat
    BY <1>1 DEF TypeOK, Address
  <2>2. Fits(log[x], hits[x], heard[x], due[x], now)
    BY DEF RateInv, CallerInv
  <2>3. CASE x = c
    <3>1. /\ log'[c] = Append(log[c], now) /\ h1[c] = Append(b, now)
          /\ heard'[c] = now /\ due'[c] = 0
      BY <1>1, <1>3 DEF TypeOK, Address
    <3> HIDE DEF h1
    <3>2. /\ Append(log[c], now) \in Seq(Nat) /\ Append(b, now) \in Seq(Nat)
          /\ Fits(Append(log[c], now), Append(b, now), now, 0, now)
      BY <1>1, <1>3, <2>1, <2>2, <2>3, FitsAdmitted
    <3> QED BY <1>1, <2>3, <3>1, <3>2
  <2>4. CASE x # c
    <3>1. /\ log'[x] = log[x] /\ h1[x] = hits[x]
          /\ heard'[x] = heard[x] /\ due'[x] = due[x]
      BY <1>1, <1>3, <2>4 DEF TypeOK, Address
    <3> QED BY <2>1, <2>2, <3>1
  <2> QED BY <2>3, <2>4
<1>5. \A y \in Address : h1[y] \in Seq(Nat)
  <2>1. Append(b, now) \in Seq(Nat) /\ hits \in [Address -> Seq(Nat)] /\ c \in Address
    <3>1. h1[c] = Append(b, now)
      BY <1>1 DEF TypeOK, Address
    <3> QED BY <1>1, <1>4, <3>1 DEF TypeOK, Address
  <2> QED BY <2>1
<1> HIDE DEF h1
<1>6. /\ \/ hits' = h1 /\ known' = known \cup {c} /\ lastSweep' = lastSweep
         \/ /\ lastSweep' = now
            /\ known' = {x \in known \cup {c} : ~Stale(h1[x])}
            /\ hits' = [y \in Address |-> IF Stale(h1[y]) THEN <<>> ELSE h1[y]]
      /\ \A y \in Address : hits'[y] \in Seq(Nat)
  <2>1. CASE now - lastSweep < Window
    <3>1. hits' = h1 /\ known' = known \cup {c} /\ lastSweep' = lastSweep
      BY <1>3, <2>1 DEF Sweep, h1
    <3> QED BY <3>1, <1>5
  <2>2. CASE ~(now - lastSweep < Window)
    <3>1. /\ lastSweep' = now
          /\ known' = {x \in known \cup {c} : ~Stale(h1[x])}
          /\ hits' = [y \in Address |-> IF Stale(h1[y]) THEN <<>> ELSE h1[y]]
      BY <1>3, <2>2 DEF Sweep, h1
    <3> QED BY <3>1, <1>5, EmptySeq
  <2> QED BY <2>1, <2>2
<1>7. TypeOK'
  <2>1. hits' \in [Address -> Seq(Nat)]
    <3>1. DOMAIN hits' = Address /\ hits' = [y \in Address |-> hits'[y]]
      BY <1>1, <1>6 DEF TypeOK, h1
    <3> QED BY <3>1, <1>6
  <2>2. known' \subseteq Caller /\ lastSweep' \in Nat /\ now' \in Nat
    BY <1>1, <1>3, <1>6 DEF TypeOK
  <2>3. log' \in [Caller -> Seq(Nat)]
    <3>1. log' = [log EXCEPT ![c] = Append(log[c], now)] /\ log \in [Caller -> Seq(Nat)]
      BY <1>1, <1>3 DEF TypeOK
    <3> QED BY <1>1, <3>1, AppendProperties
  <2>4. heard' \in [Caller -> Nat] /\ due' \in [Caller -> Nat]
    BY <1>1, <1>3 DEF TypeOK
  <2> QED BY <2>1, <2>2, <2>3, <2>4 DEF TypeOK
<1>8. ASSUME NEW x \in Caller PROVE CallerInv(x)'
  <2>1. x \in Address
    BY DEF Address
  <2>2. CASE hits'[x] = h1[x]
    BY <1>3, <1>4, <2>2 DEF CallerInv
  <2>3. CASE hits'[x] # h1[x]
    <3>1. Stale(h1[x]) /\ hits'[x] = <<>>
      BY <1>6, <2>1, <2>3
    <3>2. Fits(log'[x], <<>>, heard'[x], due'[x], now)
      BY <1>1, <1>4, <3>1, FitsSwept
    <3> QED BY <1>3, <3>1, <3>2 DEF CallerInv
  <2> QED BY <2>2, <2>3
<1>9. lastSweep' <= now'
  BY <1>1, <1>3, <1>6
<1>10. ASSUME NEW x \in known' PROVE heard'[x] + Window >= lastSweep'
  <2>1. x \in Caller /\ x \in Address
    BY <1>7 DEF TypeOK, Address
  <2>2. /\ heard \in [Caller -> Nat] /\ heard'[x] \in Nat /\ Window \in Nat
    BY <1>1, <1>7, <2>1, RateAssumption DEF TypeOK
  <2>3. CASE x = c
    <3>1. heard'[c] = now
      BY <1>3, <2>2
    <3> QED BY <1>1, <1>6, <2>2, <2>3, <3>1
  <2>4. CASE x # c /\ lastSweep' = lastSweep /\ known' = known \cup {c}
    <3>1. x \in known /\ heard'[x] = heard[x]
      BY <1>3, <2>1, <2>2, <2>4
    <3> QED BY <2>4, <3>1 DEF RateInv, MemoryIsBounded
  <2>5. CASE lastSweep' = now /\ known' = {y \in known \cup {c} : ~Stale(h1[y])}
    <3>1. h1[x] # <<>> /\ ~(now - h1[x][Len(h1[x])] > Window)
      BY <2>5 DEF Stale
    <3>2. h1[x][Len(h1[x])] <= heard'[x] /\ h1[x] \in Seq(Nat)
      BY <1>4, <2>1, <3>1 DEF Fits
    <3>3. h1[x][Len(h1[x])] \in Nat
      <4>1. Len(h1[x]) \in 1..Len(h1[x])
        BY <3>1, <3>2, EmptySeq
      <4> QED BY <3>2, <4>1, ElementOfSeq
    <3> QED BY <1>1, <2>2, <2>5, <3>1, <3>2, <3>3
  <2> QED BY <1>6, <2>3, <2>4, <2>5
<1> QED BY <1>7, <1>8, <1>9, <1>10 DEF RateInv, MemoryIsBounded

LEMMA RefuseRate ==
    ASSUME RateInv, NEW c \in Caller, NEW forged \in Forged, NEW path \in Paths,
           Refuse(c, forged, path)
    PROVE  /\ RateInv'
           /\ Limit > 0 => due[c] = 0 \/ now < due[c]
<1>1. TypeOK /\ now \in Nat /\ lastSweep \in Nat /\ lastSweep <= now
  BY DEF RateInv, TypeOK
<1>2. Client(c, forged, path) = c
  BY ClientIsCaller
<1>3. PICK b \in Popped(hits[c]) :
        /\ Len(b) >= Limit
        /\ hits' = [hits EXCEPT ![c] = b]
        /\ known' = known \cup {c}
        /\ heard' = [heard EXCEPT ![c] = now]
        /\ \E retry \in 0..Window :
              LET rest == IF b = <<>> THEN Window ELSE Window - (now - b[1]) IN
              /\ retry * Second <= rest /\ rest < (retry + 1) * Second
              /\ due' = [due EXCEPT ![c] =
                            IF @ = 0 THEN now + (retry + 1) * Second ELSE @]
        /\ UNCHANGED <<now, lastSweep, log>>
  BY <1>2 DEF Refuse, Uncounted
<1>4. PICK retry \in 0..Window :
        LET rest == IF b = <<>> THEN Window ELSE Window - (now - b[1]) IN
        /\ retry * Second <= rest /\ rest < (retry + 1) * Second
        /\ due' = [due EXCEPT ![c] =
                      IF due[c] = 0 THEN now + (retry + 1) * Second ELSE due[c]]
  BY <1>3
<1>5. /\ log[c] \in Seq(Nat) /\ hits[c] \in Seq(Nat)
      /\ heard[c] \in Nat /\ due[c] \in Nat
      /\ Fits(log[c], hits[c], heard[c], due[c], now)
  BY <1>1 DEF TypeOK, Address, RateInv, CallerInv
<1>6. PICK wait \in Nat : wait = (retry + 1) * Second
  BY RateAssumption
<1> DEFINE e == IF due[c] = 0 THEN now + wait ELSE due[c]
<1>7. e \in Nat /\ due' = [due EXCEPT ![c] = e]
  BY <1>1, <1>4, <1>5, <1>6
<1>8. Limit > 0 => (due[c] # 0 /\ e = due[c]) \/ b[1] + Window < e
  <2> SUFFICES ASSUME Limit > 0, due[c] = 0 PROVE b[1] + Window < e
    OBVIOUS
  <2>1. Suffix(hits[c], log[c], now)
    BY <1>5 DEF Fits
  <2>2. b \in Seq(Nat) /\ Limit \in Nat /\ Window \in Nat
    BY <1>1, <1>5, <2>1, PoppedIsSuffix, RateAssumption
  <2>3. 1 \in 1..Len(b) /\ b # <<>>
    BY <1>3, <2>2, EmptySeq, LenProperties
  <2>4. b[1] \in Nat
    BY <2>2, <2>3, ElementOfSeq
  <2>5. Window - (now - b[1]) < wait
    BY <1>4, <1>6, <2>3
  <2> QED BY <1>1, <2>2, <2>4, <2>5
<1> HIDE DEF e
<1>9. /\ b \in Seq(Nat) /\ Fits(log[c], b, now, e, now)
      /\ Limit > 0 => due[c] = 0 \/ now < due[c]
  BY <1>1, <1>3, <1>5, <1>7, <1>8, FitsRefused
<1>10. TypeOK'
  <2>1. hits' \in [Address -> Seq(Nat)] /\ known' \subseteq Caller
    BY <1>1, <1>3, <1>9 DEF TypeOK
  <2>2. heard' \in [Caller -> Nat] /\ due' \in [Caller -> Nat]
    BY <1>1, <1>3, <1>7 DEF TypeOK
  <2> QED BY <1>1, <1>3, <2>1, <2>2 DEF TypeOK
<1>11. ASSUME NEW x \in Caller PROVE CallerInv(x)'
  <2>1. CASE x = c
    <3>1. hits'[c] = b /\ heard'[c] = now /\ due'[c] = e
      BY <1>1, <1>3, <1>7 DEF TypeOK, Address
    <3> QED BY <1>3, <1>9, <2>1, <3>1 DEF CallerInv
  <2>2. CASE x # c
    <3>1. hits'[x] = hits[x] /\ heard'[x] = heard[x] /\ due'[x] = due[x]
      BY <1>1, <1>3, <1>7, <2>2 DEF TypeOK, Address
    <3> QED BY <1>3, <3>1 DEF RateInv, CallerInv
  <2> QED BY <2>1, <2>2
<1>12. lastSweep' <= now'
  BY <1>1, <1>3
<1>13. ASSUME NEW x \in known' PROVE heard'[x] + Window >= lastSweep'
  <2>1. x \in Caller /\ heard \in [Caller -> Nat] /\ Window \in Nat
    BY <1>1, <1>10, RateAssumption DEF TypeOK
  <2>2. CASE x = c
    <3>1. heard'[c] = now
      BY <1>3, <2>1
    <3> QED BY <1>1, <1>3, <2>1, <2>2, <3>1
  <2>3. CASE x # c
    <3>1. x \in known /\ heard'[x] = heard[x]
      BY <1>3, <2>1, <2>3
    <3> QED BY <1>3, <3>1 DEF RateInv, MemoryIsBounded
  <2> QED BY <2>2, <2>3
<1> QED BY <1>9, <1>10, <1>11, <1>12, <1>13 DEF RateInv, MemoryIsBounded

LEMMA StepRate == RateInv /\ [Next]_vars => RateInv'
<1> SUFFICES ASSUME RateInv, [Next]_vars PROVE RateInv'
  OBVIOUS
<1>1. CASE Tick
  BY <1>1, TickRate
<1>2. CASE \E c \in Caller, forged \in Forged, path \in Paths :
              Admit(c, forged, path) \/ Refuse(c, forged, path)
  BY <1>2, AdmitRate, RefuseRate
<1>3. CASE UNCHANGED vars
  BY <1>3 DEF RateInv, TypeOK, CallerInv, Fits, Sorted, Suffix, Spaced, Kept,
              MemoryIsBounded, vars
<1> QED BY <1>1, <1>2, <1>3 DEF Next

LEMMA RateSafe == Spec => []RateInv
BY InitRate, StepRate, PTL DEF Spec

----------------------------------------------------------------------------
(* Theorems                                                                *)

\* Buckets are of callers, never of the proxies in between, and every variable
\* keeps its type.
THEOREM RateTypeCorrect == Spec => []TypeOK
<1>1. RateInv => TypeOK
  BY DEF RateInv
<1> QED BY <1>1, RateSafe, PTL

\* No caller is admitted more than Limit times within one window, whatever
\* the headers it forges and the proxies it comes through.
THEOREM RateBounded == Spec => []RateIsBounded
<1>1. RateInv => RateIsBounded
  <2> SUFFICES ASSUME RateInv, NEW c \in Caller PROVE
        \A i, j \in DOMAIN log[c] : j >= i + Limit => log[c][j] - log[c][i] > Window
    BY DEF RateIsBounded
  <2>1. log[c] \in Seq(Nat) /\ Spaced(log[c])
    BY DEF RateInv, TypeOK, CallerInv, Fits
  <2>2. DOMAIN log[c] = 1..Len(log[c])
    BY <2>1, LenProperties
  <2> QED BY <2>1, <2>2 DEF Spaced
<1> QED BY <1>1, RateSafe, PTL

\* After a sweep the table holds only callers heard within the window.
THEOREM MemoryBounded == Spec => []MemoryIsBounded
<1>1. RateInv => MemoryIsBounded
  BY DEF RateInv
<1> QED BY <1>1, RateSafe, PTL

\* Waiting for Retry-After and one more second is always enough.
THEOREM PatienceRewarded == Spec => PatienceIsRewarded
<1> DEFINE Patient ==
      \A c \in Caller, forged \in Forged, path \in Paths :
          Refuse(c, forged, path) /\ Limit > 0 => due[c] = 0 \/ now < due[c]
<1>1. RateInv /\ [Next]_vars => [Patient]_vars
  BY RefuseRate
<1> QED BY <1>1, RateSafe, PTL DEF Spec, PatienceIsRewarded
============================================================================
