--------------------------- MODULE RetestLive_proofs ---------------------------
(***************************************************************************)
(* For any market, chunks, timeouts and reconnects: the buffer is a        *)
(* stretch of the market, setups time out, and the stop of a signal lies   *)
(* behind the bars of its setup.                                           *)
(***************************************************************************)
EXTENDS RetestLive, SequenceTheorems, WellFoundedInduction, FiniteSetTheorems, TLAPS

-----------------------------------------------------------------------------
(* Least and greatest elements *)

LEMMA MaxIs ==
    ASSUME NEW S \in SUBSET Int, NEW x \in S, \A y \in S : y <= x
    PROVE  Max(S) = x
<1>1. \A z \in S : (\A y \in S : z >= y) => z = x
  OBVIOUS
<1> QED  BY <1>1 DEF Max

LEMMA MinIs ==
    ASSUME NEW S \in SUBSET Int, NEW x \in S, \A y \in S : x <= y
    PROVE  Min(S) = x
<1>1. \A z \in S : (\A y \in S : z =< y) => z = x
  OBVIOUS
<1> QED  BY <1>1 DEF Min

LEMMA MaxOfTwo ==
    ASSUME NEW a \in Int, NEW b \in Int
    PROVE  Max({a, b}) = IF a >= b THEN a ELSE b
<1>1. CASE a >= b
  BY <1>1, MaxIs
<1>2. CASE ~(a >= b)
  BY <1>2, MaxIs
<1> QED  BY <1>1, <1>2

LEMMA LeastNat ==
    ASSUME NEW S \in SUBSET Nat, S # {}
    PROVE  \E x \in S : \A y \in S : x <= y
<1>1. IsWellFoundedOn(OpToRel(<, Nat), Nat)
  BY NatLessThanWellFounded
<1>2. PICK x \in S : \A y \in S : ~(<<y, x>> \in OpToRel(<, Nat))
  BY <1>1, WFMin
<1>3. \A y \in S : ~(y < x)
  BY <1>2 DEF OpToRel
<1> QED  BY <1>3

LEMMA MinOfNats ==
    ASSUME NEW S \in SUBSET Nat, S # {}
    PROVE  Min(S) \in S /\ \A y \in S : Min(S) <= y
<1>1. PICK x \in S : \A y \in S : x <= y
  BY LeastNat
<1> QED  BY <1>1, MinIs

LEMMA MaxOfNats ==
    ASSUME NEW S \in SUBSET Nat, S # {}, NEW n \in Nat, \A y \in S : y <= n
    PROVE  Max(S) \in S /\ \A y \in S : Max(S) >= y
<1> DEFINE T == {n - y : y \in S}
<1>1. T \in SUBSET Nat /\ T # {}
  <2>1. \A y \in S : n - y \in Nat
    OBVIOUS
  <2> QED  BY <2>1
<1> HIDE DEF T
<1>2. PICK x \in T : \A y \in T : x <= y
  BY <1>1, LeastNat
<1>3. PICK z \in S : x = n - z
  BY <1>2 DEF T
<1>4. \A y \in S : y <= z
  BY <1>2, <1>3 DEF T
<1> QED  BY <1>3, <1>4, MaxIs

(* The values of a function on an interval have a least and a greatest: a  *)
(* shortest interval on which they had not would have it one shorter.      *)
LEMMA IntervalMin ==
    ASSUME NEW a \in Nat, NEW b \in Nat, a <= b, NEW f \in [a .. b -> Int]
    PROVE  \E k \in a .. b : \A j \in a .. b : f[k] <= f[j]
<1> DEFINE Has(m) == \E k \in a .. m : \A j \in a .. m : f[k] <= f[j]
           T == {m \in a .. b : ~Has(m)}
<1> SUFFICES ASSUME ~Has(b) PROVE FALSE
  OBVIOUS
<1>1. b \in T
  OBVIOUS
<1>2. T \in SUBSET Nat
  OBVIOUS
<1> HIDE DEF T, Has
<1>3. PICK m \in T : \A y \in T : m <= y
  BY <1>1, <1>2, LeastNat
<1>4. m \in a .. b /\ ~Has(m)
  BY <1>3 DEF T
<1>5. CASE m = a
  BY <1>4, <1>5 DEF Has
<1>6. CASE m > a
  <2>1. m - 1 \in a .. b /\ m - 1 \notin T
    BY <1>2, <1>3, <1>4, <1>6
  <2>2. PICK k \in a .. m - 1 : \A j \in a .. m - 1 : f[k] <= f[j]
    BY <2>1 DEF T, Has
  <2>3. \A j \in a .. m : j = m \/ j \in a .. m - 1
    BY <1>4
  <2>4. /\ k \in a .. b /\ f[k] \in Int /\ f[m] \in Int
        /\ \A j \in a .. m - 1 : j \in a .. b /\ f[j] \in Int
    BY <1>4
  <2>5. CASE f[k] <= f[m]
    <3>1. k \in a .. m /\ \A j \in a .. m : f[k] <= f[j]
      BY <1>4, <2>2, <2>3, <2>5
    <3> QED  BY <1>4, <3>1 DEF Has
  <2>6. CASE f[m] < f[k]
    <3>1. m \in a .. m /\ \A j \in a .. m : f[m] <= f[j]
      BY <1>4, <2>2, <2>3, <2>4, <2>6
    <3> QED  BY <1>4, <3>1 DEF Has
  <2> QED  BY <2>4, <2>5, <2>6
<1> QED  BY <1>4, <1>5, <1>6

LEMMA IntervalMax ==
    ASSUME NEW a \in Nat, NEW b \in Nat, a <= b, NEW f \in [a .. b -> Int]
    PROVE  \E k \in a .. b : \A j \in a .. b : f[j] <= f[k]
<1> DEFINE g == [k \in a .. b |-> 0 - f[k]]
<1>1. g \in [a .. b -> Int]
  OBVIOUS
<1> HIDE DEF g
<1>2. PICK k \in a .. b : \A j \in a .. b : g[k] <= g[j]
  BY <1>1, IntervalMin
<1>3. \A j \in a .. b : g[j] = 0 - f[j]
  BY DEF g
<1>4. ASSUME NEW j \in a .. b PROVE f[j] <= f[k]
  <2>1. 0 - f[k] <= 0 - f[j]
    BY <1>2, <1>3
  <2>2. f[k] \in Int /\ f[j] \in Int
    OBVIOUS
  <2> QED  BY <2>1, <2>2
<1> QED  BY <1>4

-----------------------------------------------------------------------------
(* The candles *)

(* One bar after the other. *)
Stretch(c) ==
    /\ c \in Seq(Candle)
    /\ \A i \in 1 .. Len(c) : c[i].at = c[1].at + (i - 1)

(* A single candle would let a poll, which asks from the last but one bar  *)
(* on, bring a bar before it.                                              *)
StretchOK(c) ==
    /\ Stretch(c)
    /\ Len(c) <= MaxLen
    /\ Len(c) = 1 => c[1].at = 1
    /\ Last(c) <= Len(market) + 1

(* Every candle is the bar of the market that closed then. *)
Known(c) ==
    \A i \in 1 .. Len(c) : c[i].at <= Len(market) /\ c[i] = Full(c[i].at)

FeedTypes ==
    /\ market \in Seq(Bars)
    /\ Len(market) \in WarmBars .. MaxBars

FeedInv ==
    /\ FeedTypes
    /\ StretchOK(buffer) /\ StretchOK(cache)
    /\ ~MayServeForming => Known(buffer) /\ Known(cache)

LEMMA FromIs ==
    ASSUME FeedTypes, NEW a \in Nat \ {0}, NEW b \in Nat, a <= b + 1, b <= Len(market)
    PROVE  /\ From(a, b) \in Seq(Candle)
           /\ Len(From(a, b)) = b + 1 - a
           /\ \A i \in 1 .. b + 1 - a : /\ From(a, b)[i] = Full(a + i - 1)
                                        /\ From(a, b)[i].at = a + i - 1
<1>1. \A n \in 1 .. Len(market) : Full(n) \in Candle /\ Full(n).at = n
  BY BarFeedAssumption DEF FeedTypes, Full, Candle
<1>2. \A i \in 1 .. b + 1 - a : a + i - 1 \in 1 .. Len(market)
  BY DEF FeedTypes
<1> QED  BY <1>1, <1>2 DEF From

LEMMA HistoryIs ==
    ASSUME FeedTypes, NEW h \in History
    PROVE  /\ StretchOK(h)
           /\ ~MayServeForming => Known(h)
<1> DEFINE n == Len(market)
           oldest == Max({1, n + 1 - WarmBars})
           starts == {oldest} \cup {m \in oldest .. n + 1 :
                                      MayTimeOut /\ (n + 1 - m) % ChunkBars = 0}
<1>1. n \in Nat /\ n >= WarmBars /\ n <= MaxBars /\ n + 1 - WarmBars >= 1
  BY BarFeedAssumption DEF FeedTypes
<1>2. oldest = n + 1 - WarmBars
  BY <1>1, BarFeedAssumption, MaxOfTwo
<1> HIDE DEF n
<1>3. 1 % ChunkBars = 1
  BY BarFeedAssumption
<1>b. WarmBars \in Nat /\ WarmBars > 1 /\ WarmBars < MaxLen /\ MaxLen \in Nat /\ MaxBars \in Nat
  BY BarFeedAssumption
<1>4. \A a \in starts : a \in n + 1 - WarmBars .. n + 1 /\ a # n
  BY <1>1, <1>2, <1>3, BarFeedAssumption
<1> HIDE DEF oldest, starts
<1>5. PICK a \in starts :
        h = From(a, n) \/ (MayServeForming /\ h = Append(From(a, n), Forming) /\ From(a, n) # <<>>)
  BY DEF History, starts, oldest, n
<1>6. a \in Nat \ {0} /\ a <= n + 1 /\ a >= n + 1 - WarmBars /\ a # n
  BY <1>1, <1>b, <1>4
<1> DEFINE w == From(a, n)
<1>7. /\ w \in Seq(Candle) /\ Len(w) = n + 1 - a
      /\ \A i \in 1 .. n + 1 - a : w[i] = Full(a + i - 1) /\ w[i].at = a + i - 1
  <2>1. n \in Nat /\ n <= Len(market)
    BY <1>1 DEF n
  <2> QED  BY <1>6, <2>1, FromIs
<1> HIDE DEF w
<1>8. CASE h = w
  <2>1. Stretch(h) /\ Len(h) <= MaxLen /\ Len(h) # 1
    <3>1. h \in Seq(Candle) /\ Len(h) = n + 1 - a
      BY <1>7, <1>8
    <3>2. \A i \in 1 .. Len(h) : h[i].at = h[1].at + (i - 1)
      BY <1>1, <1>6, <1>7, <1>8
    <3> QED  BY <1>1, <1>b, <1>6, <3>1, <3>2 DEF Stretch
  <2>2. Last(h) \in Nat /\ Last(h) <= n
    BY <1>1, <1>b, <1>6, <1>7, <1>8 DEF Last
  <2>3. Known(h)
    BY <1>1, <1>b, <1>6, <1>7, <1>8 DEF Known, n
  <2> QED  BY <1>1, <2>1, <2>2, <2>3 DEF StretchOK, n
<1>9. CASE MayServeForming /\ h = Append(w, Forming) /\ w # <<>>
  <2>1. Forming \in Candle /\ Forming.at = n + 1
    BY <1>1, BarFeedAssumption DEF Forming, Candle, n
  <2>2. /\ h \in Seq(Candle) /\ Len(h) = n + 2 - a
        /\ \A i \in 1 .. n + 2 - a : h[i].at = a + i - 1
    <3>1. n + 1 - a \in Nat /\ Len(w) = n + 1 - a
      BY <1>1, <1>6, <1>7
    <3>2. /\ h \in Seq(Candle) /\ Len(h) = Len(w) + 1
          /\ \A i \in 1 .. Len(w) : h[i] = w[i]
          /\ h[Len(w) + 1] = Forming
      <4>1. w \in Seq(Candle) /\ h = Append(w, Forming)
        BY <1>7, <1>9
      <4> QED  BY <2>1, <4>1
    <3>3. ASSUME NEW i \in 1 .. n + 2 - a PROVE h[i].at = a + i - 1
      <4>1. CASE i \in 1 .. n + 1 - a
        BY <1>7, <3>1, <3>2, <4>1
      <4>2. CASE i = n + 2 - a
        BY <1>1, <1>6, <2>1, <3>1, <3>2, <4>2
      <4> QED  BY <1>1, <1>6, <4>1, <4>2
    <3> QED  BY <1>1, <1>6, <3>1, <3>2, <3>3
  <2>3. Len(w) # 0
    BY <1>7, <1>9
  <2>4. Stretch(h) /\ Len(h) <= MaxLen /\ Len(h) # 1
    <3>1. \A i \in 1 .. Len(h) : h[i].at = h[1].at + (i - 1)
      BY <1>1, <1>6, <2>2
    <3> QED  BY <1>1, <1>b, <1>6, <1>7, <2>2, <2>3, <3>1 DEF Stretch
  <2>5. Last(h) \in Nat /\ Last(h) <= n + 1
    BY <1>1, <1>6, <2>2 DEF Last
  <2> QED  BY <1>9, <2>4, <2>5 DEF StretchOK, n
<1> QED  BY <1>5, <1>8, <1>9 DEF w

(* The end of a sequence, chosen by its places. *)
LEMMA ChosenIs ==
    ASSUME NEW S, NEW s \in Seq(S), NEW a \in 1 .. Len(s) + 1
    PROVE  /\ Chosen(s, a .. Len(s)) \in Seq(S)
           /\ Len(Chosen(s, a .. Len(s))) = Len(s) + 1 - a
           /\ \A k \in 1 .. Len(s) + 1 - a : Chosen(s, a .. Len(s))[k] = s[a + k - 1]
<1> DEFINE n == Len(s)
           at(k) == CHOOSE i \in a .. n : Cardinality({j \in a .. n : j <= i}) = k
<1>1. n \in Nat
  OBVIOUS
<1>a. a \in 1 .. n + 1
  OBVIOUS
<1> HIDE DEF n
<1>2. Cardinality(a .. n) = n + 1 - a
  <2>1. a \in Int /\ n \in Int /\ a <= n + 1
    BY <1>1, <1>a
  <2>2. CASE a > n
    <3>1. a .. n = {} /\ n + 1 - a = 0
      BY <2>1, <2>2
    <3> QED  BY <3>1, FS_EmptySet
  <2>3. CASE a <= n
    BY <2>1, <2>3, FS_Interval
  <2> QED  BY <2>1, <2>2, <2>3
<1>3. ASSUME NEW i \in a .. n
      PROVE  Cardinality({j \in a .. n : j <= i}) = i + 1 - a
  <2>1. {j \in a .. n : j <= i} = a .. i
    BY <1>1, <1>3
  <2>2. Cardinality(a .. i) = i + 1 - a
    BY <1>1, <1>a, <1>3, FS_Interval
  <2> QED  BY <2>1, <2>2
<1>4. ASSUME NEW k \in 1 .. n + 1 - a PROVE at(k) = a + k - 1
  <2>1. a + k - 1 \in a .. n
    BY <1>1
  <2>2. \A i \in a .. n : Cardinality({j \in a .. n : j <= i}) = k <=> i = a + k - 1
    BY <1>1, <1>3
  <2> QED  BY <2>1, <2>2
<1>5. Chosen(s, a .. n) = [k \in 1 .. n + 1 - a |-> s[at(k)]]
  BY <1>2 DEF Chosen
<1> HIDE DEF at
<1>6. Chosen(s, a .. n) = [k \in 1 .. n + 1 - a |-> s[a + k - 1]]
  BY <1>4, <1>5
<1>7. \A k \in 1 .. n + 1 - a : s[a + k - 1] \in S
  BY <1>1 DEF n
<1>8. PICK f : f = [k \in 1 .. n + 1 - a |-> s[a + k - 1]]
  OBVIOUS
<1>9. n + 1 - a \in Nat
  BY <1>1, <1>a
<1>10. f \in Seq(S) /\ Len(f) = n + 1 - a
  BY <1>7, <1>8, <1>9
<1>11. \A k \in 1 .. n + 1 - a : f[k] = s[a + k - 1]
  BY <1>8
<1> QED  BY <1>6, <1>8, <1>10, <1>11 DEF n

LEMMA StretchTimes ==
    ASSUME NEW c, StretchOK(c)
    PROVE  /\ c \in Seq(Candle) /\ Len(c) \in Nat /\ Len(c) <= MaxLen
           /\ Len(c) = 1 => c[1].at = 1
           /\ c = <<>> => Len(c) = 0 /\ Last(c) = 0
           /\ c # <<>> => /\ Len(c) >= 1 /\ (Len(c) = 1 \/ Len(c) >= 2)
                          /\ c[1].at \in Nat \ {0}
                          /\ Last(c) = c[1].at + (Len(c) - 1)
           /\ \A i \in 1 .. Len(c) : c[i] \in Candle /\ c[i].at = c[1].at + (i - 1)
<1>1. /\ c \in Seq(Candle) /\ Len(c) \in Nat /\ Len(c) <= MaxLen
      /\ \A i \in 1 .. Len(c) : c[i] \in Candle /\ c[i].at = c[1].at + (i - 1)
      /\ Len(c) = 1 => c[1].at = 1
  BY DEF StretchOK, Stretch
<1>2. CASE c = <<>>
  BY <1>1, <1>2 DEF Last
<1>3. CASE c # <<>>
  <2>1. /\ Len(c) \in 1 .. Len(c) /\ 1 \in 1 .. Len(c)
        /\ Len(c) >= 1 /\ (Len(c) = 1 \/ Len(c) >= 2)
    <3>1. PICK n \in Nat : n = Len(c)
      BY <1>1
    <3>2. n # 0
      BY <1>1, <1>3, <3>1
    <3> QED  BY <3>1, <3>2
  <2>2. c[1] \in Candle /\ c[Len(c)].at = c[1].at + (Len(c) - 1)
    BY <1>1, <2>1
  <2>3. c[1].at \in Nat \ {0}
    BY <2>2, BarFeedAssumption DEF Candle
  <2>4. Last(c) = c[Len(c)].at
    BY <1>3 DEF Last
  <2> QED  BY <1>1, <1>3, <2>1, <2>2, <2>3, <2>4
<1> QED  BY <1>1, <1>2, <1>3

(* A poll of a buffer that is behind joins what is newer to its end. *)
LEMMA PollBrings ==
    ASSUME FeedTypes, StretchOK(buffer), ~Synced, NEW new \in Answers,
           \E i \in DOMAIN new : new[i].at > Last(buffer)
    PROVE  \E a \in Nat \ {0}, b \in 1 .. Len(market) :
              LET more == Chosen(new, {i \in DOMAIN new :
                                         new[i].at \notin {buffer[j].at : j \in DOMAIN buffer}})
              IN /\ more = From(a, b)
                 /\ a <= b
                 /\ buffer # <<>> => a = Last(buffer) + 1
                 /\ buffer = <<>> => a < b \/ a = 1
<1> DEFINE n == Len(market)
           L == Last(buffer)
           asked == IF buffer = <<>> THEN n + 1 - PollBars ELSE L - 1
           c == Max({1, asked})
           seen == {buffer[j].at : j \in DOMAIN buffer}
           fresh == {i \in DOMAIN new : new[i].at \notin seen}
<1>1. n \in Nat /\ n >= 2 /\ PollBars \in Nat /\ PollBars > 2
  BY BarFeedAssumption DEF FeedTypes
<1>2. /\ buffer \in Seq(Candle) /\ Len(buffer) \in Nat
      /\ \A i \in 1 .. Len(buffer) : buffer[i].at = buffer[1].at + (i - 1)
      /\ Len(buffer) = 1 => buffer[1].at = 1
  BY DEF StretchOK, Stretch
<1>3. /\ L \in Nat /\ L < n
      /\ buffer # <<>> => Len(buffer) >= 1 /\ buffer[1].at \in Nat \ {0} /\ L = buffer[1].at + (Len(buffer) - 1)
  <2>1. L \in Nat
    BY <1>1, <1>2, StretchTimes
  <2> QED  BY <1>1, <2>1, StretchTimes DEF Synced
<1>4. seen = IF buffer = <<>> THEN {} ELSE buffer[1].at .. L
  <2>1. CASE buffer = <<>>
    BY <2>1
  <2>2. ASSUME buffer # <<>>, NEW m \in buffer[1].at .. L PROVE m \in seen
    <3> DEFINE j == m - buffer[1].at + 1
    <3>1. /\ Len(buffer) \in Nat /\ buffer[1].at \in Nat /\ L \in Nat
          /\ L = buffer[1].at + (Len(buffer) - 1)
      BY <1>2, <1>3, <2>2
    <3>2. j \in 1 .. Len(buffer) /\ buffer[1].at + (j - 1) = m
      BY <2>2, <3>1
    <3> HIDE DEF j
    <3>3. buffer[j].at = m /\ j \in DOMAIN buffer
      BY <1>2, <3>2
    <3> QED  BY <3>3
  <2>3. ASSUME buffer # <<>>, NEW j \in 1 .. Len(buffer) PROVE buffer[j].at \in buffer[1].at .. L
    <3>1. /\ Len(buffer) \in Nat /\ buffer[1].at \in Nat
          /\ L = buffer[1].at + (Len(buffer) - 1)
          /\ buffer[j].at = buffer[1].at + (j - 1)
      BY <1>2, <1>3, <2>3
    <3> HIDE DEF L
    <3> QED  BY <2>3, <3>1
  <2> QED  BY <1>2, <2>1, <2>2, <2>3
<1> HIDE DEF L, n, seen
<1>5. /\ c \in Nat \ {0} /\ c <= n
      /\ c = 1 \/ c = asked
      /\ c >= asked
  <2>1. asked \in Int
    BY <1>1, <1>3
  <2>2. c = IF 1 >= asked THEN 1 ELSE asked
    BY <2>1, MaxOfTwo
  <2> QED  BY <1>1, <1>3, <2>1, <2>2
<1>6. PICK b \in n - 1 .. n : new = From(c, b)
  BY DEF Answers, L, n
<1> HIDE DEF c
<1>7. b \in Nat /\ b >= 1 /\ b <= n /\ c <= b + 1
  BY <1>1, <1>5, <1>6
<1>8. /\ new \in Seq(Candle) /\ Len(new) = b + 1 - c
      /\ \A i \in 1 .. b + 1 - c : new[i] = Full(c + i - 1) /\ new[i].at = c + i - 1
  <2>1. b <= Len(market)
    BY <1>7 DEF n
  <2> QED  BY <1>5, <1>6, <1>7, <2>1, FromIs
<1>9. b > L /\ c <= b
  <2>1. PICK i \in DOMAIN new : new[i].at > L
    BY DEF L
  <2>2. i \in 1 .. b + 1 - c
    BY <1>5, <1>7, <1>8
  <2>3. c + i - 1 > L
    BY <1>8, <2>1, <2>2
  <2> QED  BY <1>3, <1>5, <1>7, <2>2, <2>3
(* From here on the candidates are numbers. *)
<1> DEFINE a == IF buffer = <<>> THEN c ELSE L + 1
           m == a + 1 - c
<1>10. /\ a \in Nat \ {0} /\ a <= b /\ c <= a
       /\ \A t \in c .. b : t \notin seen <=> t >= a
  <2>1. CASE buffer = <<>>
    BY <1>4, <1>5, <1>7, <1>9, <2>1
  <2>2. CASE buffer # <<>>
    <3>1. c = 1 \/ c = L - 1
      BY <1>5, <2>2
    <3>2. c <= L + 1
      BY <1>3, <3>1
    <3>3. \A t \in c .. b : t <= L => t >= buffer[1].at
      <4>1. /\ buffer[1].at \in Nat \ {0} /\ L = buffer[1].at + (Len(buffer) - 1)
            /\ Len(buffer) = 1 \/ Len(buffer) >= 2
        <5>1. Len(buffer) = 1 \/ Len(buffer) >= 2
          BY <2>2, StretchTimes
        <5> QED  BY <1>3, <2>2, <5>1
      <4>2. CASE Len(buffer) = 1
        BY <1>2, <1>5, <1>7, <2>2, <4>2
      <4>3. CASE Len(buffer) >= 2
        <5>1. buffer[1].at <= L - 1 /\ L - 1 <= c
          BY <1>2, <1>3, <1>5, <2>2, <4>1, <4>3
        <5> QED  BY <1>3, <1>5, <1>7, <4>1, <5>1
      <4> QED  BY <4>1, <4>2, <4>3
    <3> QED  BY <1>3, <1>4, <1>5, <1>7, <1>9, <2>2, <3>2, <3>3
  <2> QED  BY <2>1, <2>2
<1>11. a < b \/ a = 1 \/ buffer # <<>>
  BY <1>1, <1>5, <1>6, <1>7
<1> HIDE DEF a, asked
<1>12. m \in 1 .. Len(new) + 1 /\ Len(new) = b + 1 - c
  BY <1>5, <1>7, <1>8, <1>10
<1>13. fresh = m .. Len(new)
  <2>1. DOMAIN new = 1 .. b + 1 - c
    BY <1>5, <1>7, <1>8
  <2>2. \A i \in 1 .. b + 1 - c : new[i].at \notin seen <=> i >= m
    BY <1>5, <1>7, <1>8, <1>10
  <2> QED  BY <1>5, <1>7, <1>10, <1>12, <2>1, <2>2
<1> HIDE DEF fresh, m
<1>14. Chosen(new, fresh) = From(a, b)
  <2>1. /\ Chosen(new, fresh) \in Seq(Candle) /\ Len(Chosen(new, fresh)) = Len(new) + 1 - m
        /\ \A k \in 1 .. Len(new) + 1 - m : Chosen(new, fresh)[k] = new[m + k - 1]
    <3>1. /\ Chosen(new, m .. Len(new)) \in Seq(Candle)
          /\ Len(Chosen(new, m .. Len(new))) = Len(new) + 1 - m
          /\ \A k \in 1 .. Len(new) + 1 - m : Chosen(new, m .. Len(new))[k] = new[m + k - 1]
      <4>1. new \in Seq(Candle) /\ m \in 1 .. Len(new) + 1
        BY <1>8, <1>12
      <4> QED  BY <4>1, ChosenIs
    <3> QED  BY <1>13, <3>1
  <2>2. Len(new) + 1 - m = b + 1 - a
    BY <1>5, <1>7, <1>10, <1>12 DEF m
  <2>3. \A k \in 1 .. b + 1 - a : new[m + k - 1] = Full(a + k - 1)
    BY <1>5, <1>7, <1>8, <1>10, <1>12, <2>2 DEF m
  <2> QED  BY <2>1, <2>2, <2>3 DEF From
<1>15. Chosen(new, {i \in DOMAIN new : new[i].at \notin {buffer[j].at : j \in DOMAIN buffer}})
         = From(a, b)
  BY <1>14 DEF fresh, seen
<1>16. b \in 1 .. Len(market) /\ (buffer # <<>> => a = Last(buffer) + 1)
  BY <1>1, <1>7 DEF a, L, n
<1> QED  BY <1>10, <1>11, <1>15, <1>16

(* Bars a to b put behind the candles c, and the first m - 1 cut away. *)
Joined(c, a, b, m, w) ==
    /\ m \in 1 .. Len(c) + b + 1 - a
    /\ m = IF Len(c) + b + 1 - a <= MaxLen THEN 1 ELSE Len(c) + b + 1 - a + 1 - MaxLen
    /\ w \in Seq(Candle) /\ Len(w) = Len(c) + b + 1 - a + 1 - m
    /\ \A i \in 1 .. Len(w) :
         w[i] = IF m + i - 1 <= Len(c) THEN c[m + i - 1] ELSE Full(a + (m + i - 1 - Len(c)) - 1)

LEMMA TailIs ==
    ASSUME NEW S, NEW s \in Seq(S), NEW m \in 1 .. Len(s)
    PROVE  /\ SubSeq(s, m, Len(s)) \in Seq(S)
           /\ Len(SubSeq(s, m, Len(s))) = Len(s) + 1 - m
           /\ \A i \in 1 .. Len(s) + 1 - m : SubSeq(s, m, Len(s))[i] = s[m + i - 1]
<1>1. PICK n \in Int : n = Len(s)
  OBVIOUS
<1>2. m \in Int /\ m <= n /\ m >= 1
  BY <1>1
<1>3. ASSUME NEW i \in m .. n PROVE s[i] \in S
  <2>1. i \in 1 .. Len(s)
    BY <1>1, <1>2, <1>3
  <2> QED  BY <2>1
<1>4. SubSeq(s, m, n) \in Seq(S)
  BY <1>1, <1>2, <1>3, SubSeqProperties
<1>5. Len(SubSeq(s, m, n)) = n + 1 - m
  BY <1>1, <1>2
<1>6. \A i \in 1 .. n + 1 - m : SubSeq(s, m, n)[i] = s[m + i - 1]
  BY <1>1, <1>2
<1> QED  BY <1>1, <1>4, <1>5, <1>6

LEMMA JoinCuts ==
    ASSUME FeedTypes, NEW c \in Seq(Candle), NEW a \in Nat \ {0}, NEW b \in Nat, a <= b,
           b <= Len(market)
    PROVE  LET all == c \o From(a, b) IN
           \E m : Joined(c, a, b, m, SubSeq(all, Max({1, Len(all) + 1 - MaxLen}), Len(all)))
<1>1. PICK f : f = From(a, b)
  OBVIOUS
<1>2. /\ f \in Seq(Candle) /\ Len(f) = b + 1 - a
      /\ \A i \in 1 .. b + 1 - a : f[i] = Full(a + i - 1)
  <2>1. a <= b + 1
    OBVIOUS
  <2> QED  BY <1>1, <2>1, FromIs
<1>3. PICK all : all = c \o f
  OBVIOUS
<1>4. /\ all \in Seq(Candle) /\ Len(all) = Len(c) + b + 1 - a /\ Len(all) > 0 /\ Len(c) \in Nat
      /\ \A i \in 1 .. Len(all) : all[i] = IF i <= Len(c) THEN c[i] ELSE f[i - Len(c)]
  <2>1. Len(c) \in Nat /\ f \in Seq(Candle) /\ Len(f) = b + 1 - a
    BY <1>2
  <2>2. /\ c \o f \in Seq(Candle) /\ Len(c \o f) = Len(c) + Len(f)
        /\ \A i \in 1 .. Len(c) + Len(f) :
              (c \o f)[i] = IF i <= Len(c) THEN c[i] ELSE f[i - Len(c)]
    BY <2>1, ConcatProperties
  <2>3. all \in Seq(Candle) /\ Len(all) = Len(c) + Len(f)
    BY <1>3, <2>2
  <2>4. \A i \in 1 .. Len(all) : all[i] = IF i <= Len(c) THEN c[i] ELSE f[i - Len(c)]
    BY <1>3, <2>2
  <2>5. Len(all) = Len(c) + b + 1 - a /\ Len(all) > 0
    BY <2>1, <2>3
  <2> QED  BY <2>1, <2>3, <2>4, <2>5
<1>5. MaxLen \in Nat \ {0}
  BY BarFeedAssumption
<1>6. PICK m : m = Max({1, Len(all) + 1 - MaxLen})
  OBVIOUS
<1>7. PICK w : w = SubSeq(all, m, Len(all))
  OBVIOUS
<1>8. /\ m \in 1 .. Len(all)
      /\ m = IF Len(all) <= MaxLen THEN 1 ELSE Len(all) + 1 - MaxLen
      /\ w \in Seq(Candle) /\ Len(w) = Len(all) + 1 - m
      /\ \A i \in 1 .. Len(all) + 1 - m : w[i] = all[m + i - 1]
  <2>1. m \in 1 .. Len(all) /\ m = IF Len(all) <= MaxLen THEN 1 ELSE Len(all) + 1 - MaxLen
    <3>1. PICK k \in Nat : k = Len(all) /\ k > 0
      BY <1>4
    <3>2. k + 1 - MaxLen \in Int
      BY <1>5
    <3>3. m = IF 1 >= k + 1 - MaxLen THEN 1 ELSE k + 1 - MaxLen
      BY <1>6, <3>1, <3>2, MaxOfTwo
    <3> QED  BY <1>5, <3>1, <3>3
  <2>2. all \in Seq(Candle)
    BY <1>4
  <2> QED  BY <1>7, <2>1, <2>2, TailIs
<1>9. ASSUME NEW i \in 1 .. Len(w)
      PROVE  w[i] = IF m + i - 1 <= Len(c) THEN c[m + i - 1] ELSE Full(a + (m + i - 1 - Len(c)) - 1)
  <2>1. i \in 1 .. Len(all) + 1 - m /\ m \in Nat /\ m >= 1 /\ i \in Nat /\ i >= 1
    BY <1>4, <1>8, <1>9
  <2>2. PICK j \in Int : j = m + i - 1
    BY <2>1
  <2>3. w[i] = all[j] /\ j \in 1 .. Len(all)
    BY <1>4, <1>8, <2>1, <2>2, SMTT(30)
  <2>4. CASE j <= Len(c)
    BY <1>4, <2>2, <2>3, <2>4
  <2>5. CASE j > Len(c)
    <3>1. PICK k \in Int : k = j - Len(c)
      BY <1>4, <2>2
    <3>2. k \in 1 .. b + 1 - a
      BY <1>4, <2>3, <2>5, <3>1
    <3>3. w[i] = f[k]
      BY <1>4, <2>3, <2>5, <3>1
    <3>4. w[i] = Full(a + k - 1)
      BY <1>2, <3>2, <3>3
    <3>5. k = m + i - 1 - Len(c) /\ ~(m + i - 1 <= Len(c))
      BY <1>4, <2>1, <2>2, <2>5, <3>1
    <3> QED  BY <3>4, <3>5
  <2> QED  BY <1>4, <2>2, <2>4, <2>5
<1>10. Joined(c, a, b, m, w)
  BY <1>4, <1>8, <1>9 DEF Joined
<1> QED  BY <1>1, <1>3, <1>6, <1>7, <1>10

LEMMA JoinIs ==
    ASSUME FeedTypes, NEW c, StretchOK(c),
           NEW a \in Nat \ {0}, NEW b \in 1 .. Len(market), a <= b,
           c # <<>> => a = Last(c) + 1,
           c = <<>> => a < b \/ a = 1,
           NEW m, NEW w, Joined(c, a, b, m, w)
    PROVE  /\ StretchOK(w) /\ w # <<>>
           /\ Len(w) >= Len(c)
           /\ MaxLen > MaxBars => \A i \in 1 .. Len(c) : w[i] = c[i]
           /\ Known(c) => Known(w)
<1>n. PICK n : n = Len(c)
  OBVIOUS
<1> DEFINE first == IF c = <<>> THEN a ELSE c[1].at
           N == n + b + 1 - a
<1>1. /\ c \in Seq(Candle) /\ n \in Nat /\ n <= MaxLen
      /\ c = <<>> => n = 0
      /\ c # <<>> => n >= 1
      /\ n = 1 => c[1].at = 1
  BY <1>n, StretchTimes
<1>2. /\ MaxLen \in Nat /\ MaxLen > 2 /\ MaxBars \in Nat /\ Len(market) \in Nat
      /\ b \in Nat /\ b <= MaxBars /\ b <= Len(market)
  BY BarFeedAssumption DEF FeedTypes
<1>3. /\ first \in Nat \ {0} /\ a = first + n
      /\ \A j \in 1 .. n : c[j].at = first + (j - 1)
  <2>1. CASE c = <<>>
    BY <1>1, <2>1
  <2>2. CASE c # <<>>
    <3>1. /\ c[1].at \in Nat \ {0} /\ Last(c) = c[1].at + (Len(c) - 1)
          /\ \A j \in 1 .. Len(c) : c[j].at = c[1].at + (j - 1)
      BY <2>2, StretchTimes
    <3>2. first = c[1].at /\ a = Last(c) + 1
      BY <2>2
    <3>3. PICK k \in Nat : k = c[1].at /\ k # 0
      BY <3>1
    <3>4. first \in Nat \ {0} /\ a = first + n
      BY <1>1, <1>n, <3>1, <3>2, <3>3
    <3>5. \A j \in 1 .. n : c[j].at = first + (j - 1)
      BY <1>n, <3>1, <3>2
    <3> QED  BY <3>4, <3>5
  <2> QED  BY <2>1, <2>2
<1>4. n = 1 => first = 1
  BY <1>1
<1>5. n = 0 => a < b \/ a = 1
  BY <1>1
<1> HIDE DEF first
<1>6. N \in Nat /\ N >= n + 1 /\ N = b + 1 - first
  BY <1>1, <1>2, <1>3
<1>7. /\ m \in 1 .. N
      /\ m = IF N <= MaxLen THEN 1 ELSE N + 1 - MaxLen
      /\ w \in Seq(Candle) /\ Len(w) = N + 1 - m
      /\ \A i \in 1 .. Len(w) :
            w[i] = IF m + i - 1 <= n THEN c[m + i - 1] ELSE Full(a + (m + i - 1 - n) - 1)
  BY <1>n DEF Joined
<1> HIDE DEF N
<1>8. ASSUME NEW i \in 1 .. Len(w)
      PROVE  /\ w[i].at = first + (m + i - 2)
             /\ m + i - 1 > n => w[i] = Full(w[i].at)
  <2>1. i \in Nat /\ i >= 1 /\ m \in Nat /\ m >= 1 /\ m + i - 1 <= N
    BY <1>6, <1>7
  <2>2. PICK j \in Nat : j = m + i - 1 /\ j >= 1
    BY <2>1
  <2>3. w[i] = IF j <= n THEN c[j] ELSE Full(a + (j - n) - 1)
    <3>1. w[i] = IF m + i - 1 <= n THEN c[m + i - 1] ELSE Full(a + (m + i - 1 - n) - 1)
      BY <1>7
    <3>2. j - n = m + i - 1 - n
      BY <1>1, <2>1, <2>2
    <3> QED  BY <2>2, <3>1, <3>2
  <2>4. CASE j <= n
    <3>1. c[j].at = first + (j - 1)
      BY <1>1, <1>3, <2>2, <2>4, SMTT(30)
    <3> QED  BY <1>1, <1>3, <2>1, <2>2, <2>3, <2>4, <3>1
  <2>5. CASE j > n
    <3>1. w[i] = Full(a + (j - n) - 1)
      BY <1>1, <2>2, <2>3, <2>5
    <3>2. w[i].at = a + (j - n) - 1
      BY <3>1 DEF Full
    <3>3. a + (j - n) - 1 = first + (m + i - 2)
      BY <1>1, <1>3, <2>1, <2>2
    <3> QED  BY <3>1, <3>2, <3>3
  <2> QED  BY <1>1, <2>2, <2>4, <2>5
<1>9. Len(w) \in Nat /\ Len(w) >= 1 /\ Len(w) >= n /\ Len(w) <= MaxLen /\ (Len(w) = 1 => N = 1 /\ m = 1)
  <2>1. m \in 1 .. N /\ m = (IF N <= MaxLen THEN 1 ELSE N + 1 - MaxLen) /\ Len(w) = N + 1 - m
    BY <1>7
  <2>2. n \in Nat /\ n <= MaxLen /\ N \in Nat /\ N >= n + 1 /\ MaxLen \in Nat /\ MaxLen > 2
    BY <1>1, <1>2, <1>6
  <2>3. CASE N <= MaxLen
    BY <2>1, <2>2, <2>3
  <2>4. CASE N > MaxLen
    BY <2>1, <2>2, <2>4
  <2> QED  BY <2>2, <2>3, <2>4
<1>10. Stretch(w) /\ w # <<>>
  <2>1. w[1].at = first + (m + 1 - 2)
    BY <1>8, <1>9
  <2>2. \A i \in 1 .. Len(w) : w[i].at = w[1].at + (i - 1)
    <3>1. m \in Int /\ first \in Int
      BY <1>3, <1>7
    <3> QED  BY <1>8, <1>9, <2>1, <3>1
  <2> QED  BY <1>7, <1>9, <2>2 DEF Stretch
<1>11. Len(w) = 1 => w[1].at = 1
  <2>1. SUFFICES ASSUME Len(w) = 1 PROVE w[1].at = 1
    OBVIOUS
  <2>2. m = 1 /\ N = 1 /\ n = 0
    BY <1>1, <1>6, <1>9, <2>1
  <2>3. first = 1
    BY <1>2, <1>3, <1>5, <1>6, <2>2
  <2>4. w[1].at = first + (m + 1 - 2)
    BY <1>8, <1>9
  <2> QED  BY <2>2, <2>3, <2>4
<1>12. Last(w) = b
  <2>1. Last(w) = w[Len(w)].at
    BY <1>10 DEF Last
  <2>2. w[Len(w)].at = first + (m + Len(w) - 2)
    BY <1>8, <1>9
  <2> QED  BY <1>2, <1>3, <1>6, <1>7, <2>1, <2>2
<1>13. ASSUME MaxLen > MaxBars, NEW i \in 1 .. n PROVE w[i] = c[i]
  <2>1. m = 1
    BY <1>2, <1>3, <1>6, <1>7, <1>13
  <2>2. i \in 1 .. Len(w) /\ m + i - 1 = i /\ i <= n
    BY <1>1, <1>9, <1>13, <2>1
  <2> QED  BY <1>7, <2>2
<1>14. ASSUME Known(c) PROVE Known(w)
  <2>1. ASSUME NEW i \in 1 .. Len(w) PROVE w[i].at <= Len(market) /\ w[i] = Full(w[i].at)
    <3>1. w[i].at <= Len(market)
      BY <1>2, <1>3, <1>6, <1>7, <1>8, <2>1
    <3>2. CASE m + i - 1 <= n
      <4>1. PICK j \in 1 .. n : j = m + i - 1
        BY <1>1, <1>6, <1>7, <2>1, <3>2
      <4>2. w[i] = c[j]
        BY <1>7, <2>1, <3>2, <4>1
      <4>3. c[j] = Full(c[j].at)
        BY <1>n, <1>14, <4>1 DEF Known
      <4> QED  BY <3>1, <4>2, <4>3
    <3>3. CASE m + i - 1 > n
      BY <1>8, <2>1, <3>1, <3>3
    <3> QED  BY <1>1, <1>7, <3>2, <3>3
  <2> QED  BY <2>1 DEF Known
<1> QED  BY <1>n, <1>2, <1>9, <1>10, <1>11, <1>12, <1>13, <1>14 DEF StretchOK

(* What a poll makes of a buffer that is behind. *)
LEMMA PollMerges ==
    ASSUME FeedTypes, StretchOK(buffer), ~Synced, NEW new \in Answers,
           \E i \in DOMAIN new : new[i].at > Last(buffer)
    PROVE  LET w == Merge(buffer, new) IN
           /\ StretchOK(w) /\ w # <<>>
           /\ Len(w) >= Len(buffer)
           /\ MaxLen > MaxBars => \A i \in 1 .. Len(buffer) : w[i] = buffer[i]
           /\ Known(buffer) => Known(w)
<1>1. PICK more : more = Chosen(new, {i \in DOMAIN new :
                                        new[i].at \notin {buffer[j].at : j \in DOMAIN buffer}})
  OBVIOUS
<1>2. PICK a \in Nat \ {0}, b \in 1 .. Len(market) :
        /\ more = From(a, b)
        /\ a <= b
        /\ buffer # <<>> => a = Last(buffer) + 1
        /\ buffer = <<>> => a < b \/ a = 1
  BY <1>1, PollBrings
<1>3. buffer \in Seq(Candle) /\ b \in Nat /\ b <= Len(market)
  BY StretchTimes DEF FeedTypes
<1>4. PICK m, w : /\ Joined(buffer, a, b, m, w)
                  /\ w = SubSeq(buffer \o more, Max({1, Len(buffer \o more) + 1 - MaxLen}),
                                Len(buffer \o more))
  BY <1>2, <1>3, JoinCuts
<1>5. Merge(buffer, new) = w
  BY <1>1, <1>4 DEF Merge
<1>6. /\ StretchOK(w) /\ w # <<>>
      /\ Len(w) >= Len(buffer)
      /\ MaxLen > MaxBars => \A i \in 1 .. Len(buffer) : w[i] = buffer[i]
      /\ Known(buffer) => Known(w)
  <2>1. Joined(buffer, a, b, m, w)
    BY <1>4
  <2>2. /\ a <= b
        /\ buffer # <<>> => a = Last(buffer) + 1
        /\ buffer = <<>> => a < b \/ a = 1
    BY <1>2
  <2> QED  BY <2>1, <2>2, JoinIs
<1> QED  BY <1>5, <1>6

LEMMA GetsMore ==
    ASSUME FeedInv, GetsBars
    PROVE  /\ StretchOK(buffer') /\ buffer' # <<>>
           /\ Len(buffer') >= Len(buffer)
           /\ MaxLen > MaxBars => \A i \in 1 .. Len(buffer) : buffer'[i] = buffer[i]
           /\ ~MayServeForming => Known(buffer')
           /\ market' = market
           /\ cache' = cache \/ cache' = buffer'
<1>1. FeedTypes /\ StretchOK(buffer) /\ (~MayServeForming => Known(buffer))
  BY DEF FeedInv
<1>2. ~Synced /\ market' = market /\ (cache' = cache \/ cache' = buffer')
  BY DEF GetsBars
<1>3. PICK new \in Answers : /\ \E i \in DOMAIN new : new[i].at > Last(buffer)
                             /\ buffer' = Merge(buffer, new)
  BY DEF GetsBars
<1>4. PICK w : w = Merge(buffer, new)
  OBVIOUS
<1>5. /\ StretchOK(w) /\ w # <<>>
      /\ Len(w) >= Len(buffer)
      /\ MaxLen > MaxBars => \A i \in 1 .. Len(buffer) : w[i] = buffer[i]
      /\ Known(buffer) => Known(w)
  BY <1>1, <1>2, <1>3, <1>4, PollMerges
<1>6. buffer' = w
  BY <1>3, <1>4
<1> QED  BY <1>1, <1>2, <1>5, <1>6

LEMMA WarmsUp ==
    ASSUME FeedInv, Warmup
    PROVE  StretchOK(buffer') /\ (~MayServeForming => Known(buffer'))
<1>1. FeedTypes /\ StretchOK(cache) /\ (~MayServeForming => Known(cache))
  BY DEF FeedInv
<1>2. CASE buffer' = cache
  BY <1>1, <1>2
<1>3. CASE buffer' \in History
  BY <1>1, <1>3, HistoryIs
<1> QED  BY <1>2, <1>3 DEF Warmup

LEMMA FeedStarts == Init => FeedInv
<1> SUFFICES ASSUME Init PROVE FeedInv
  OBVIOUS
<1>1. market \in [1 .. WarmBars -> Bars] /\ buffer \in History /\ cache = buffer
  BY DEF Init, FeedInit
<1>2. WarmBars \in Nat /\ MaxBars \in Nat /\ WarmBars <= MaxBars
  BY BarFeedAssumption
<1>3. market \in Seq(Bars) /\ Len(market) = WarmBars
  BY <1>1, <1>2
<1>4. FeedTypes
  BY <1>2, <1>3 DEF FeedTypes
<1> QED  BY <1>1, <1>4, HistoryIs DEF FeedInv

LEMMA FeedStep == FeedInv /\ [Next]_vars => FeedInv'
<1> SUFFICES ASSUME FeedInv, [Next]_vars PROVE FeedInv'
  OBVIOUS
<1>1. FeedTypes /\ StretchOK(buffer) /\ StretchOK(cache)
      /\ (~MayServeForming => Known(buffer) /\ Known(cache))
  BY DEF FeedInv
<1>2. CASE GetsBars
  <2>1. /\ StretchOK(buffer') /\ market' = market /\ (cache' = cache \/ cache' = buffer')
        /\ ~MayServeForming => Known(buffer')
    BY <1>2, GetsMore
  <2>2. FeedTypes'
    BY <1>1, <2>1 DEF FeedTypes
  <2>3. StretchOK(buffer)'
    BY <2>1 DEF StretchOK, Stretch, Last
  <2>4. StretchOK(cache)'
    BY <1>1, <2>1 DEF StretchOK, Stretch, Last
  <2>5. ~MayServeForming => Known(buffer)' /\ Known(cache)'
    BY <1>1, <2>1 DEF Known, Full
  <2> QED  BY <2>2, <2>3, <2>4, <2>5 DEF FeedInv
<1>3. CASE MarketCloses
  <2>1. PICK bar \in Bars : market' = Append(market, bar)
    BY <1>3 DEF MarketCloses, BarCloses
  <2>2. Len(market) < MaxBars /\ buffer' = buffer /\ cache' = cache
    BY <1>3 DEF MarketCloses, BarCloses
  <2>3. FeedTypes' /\ Len(market) \in Nat /\ Len(market') = Len(market) + 1
    BY <1>1, <2>1, <2>2, BarFeedAssumption DEF FeedTypes
  <2>4. \A n \in 1 .. Len(market) : market'[n] = market[n]
    BY <1>1, <2>1 DEF FeedTypes
  <2>5. ASSUME NEW c, StretchOK(c) PROVE StretchOK(c)' /\ (Known(c) => Known(c)')
    <3>1. /\ c \in Seq(Candle) /\ Len(c) \in Nat
          /\ \A i \in 1 .. Len(c) : c[i] \in Candle /\ c[i].at = c[1].at + (i - 1)
          /\ Last(c) \in Nat
      BY <2>5, StretchTimes
    <3>2. StretchOK(c)'
      BY <2>3, <2>5, <3>1 DEF StretchOK, Stretch, Last, Candle
    <3>3. ASSUME Known(c), NEW i \in 1 .. Len(c)
          PROVE  c[i].at <= Len(market') /\ c[i] = Full(c[i].at)'
      <4>1. c[i].at <= Len(market) /\ c[i] = Full(c[i].at) /\ c[i] \in Candle
        BY <3>1, <3>3 DEF Known
      <4>2. c[i].at \in 1 .. Len(market)
        BY <2>3, <4>1, BarFeedAssumption DEF Candle
      <4> QED  BY <2>3, <2>4, <4>1, <4>2 DEF Full
    <3> QED  BY <3>2, <3>3 DEF Known
  <2>6. PICK b, h : b = buffer /\ h = cache
    OBVIOUS
  <2>7. /\ StretchOK(b)' /\ StretchOK(h)' /\ (Known(b) => Known(b)') /\ (Known(h) => Known(h)')
    BY <1>1, <2>5, <2>6
  <2>8. StretchOK(buffer)' /\ StretchOK(cache)'
    BY <2>2, <2>6, <2>7 DEF StretchOK, Stretch, Last
  <2>9. ~MayServeForming => Known(b)' /\ Known(h)'
    BY <1>1, <2>6, <2>7
  <2>10. ~MayServeForming => Known(buffer)' /\ Known(cache)'
    BY <2>2, <2>6, <2>9 DEF Known, Full
  <2> QED  BY <2>3, <2>8, <2>10 DEF FeedInv
<1>4. CASE Reconnect
  <2>1. Warmup /\ market' = market /\ (cache' = cache \/ cache' = buffer')
    BY <1>4 DEF Reconnect, Warmup
  <2>2. StretchOK(buffer') /\ (~MayServeForming => Known(buffer'))
    BY <2>1, WarmsUp
  <2> QED  BY <1>1, <2>1, <2>2 DEF FeedInv, FeedTypes, StretchOK, Stretch, Known, Full, Last
<1>5. CASE UNCHANGED feedVars
  BY <1>1, <1>5 DEF feedVars, FeedInv, FeedTypes, StretchOK, Stretch, Known, Full, Last
<1> QED  BY <1>2, <1>3, <1>4, <1>5 DEF Next, Poll, EntryEnds, vars

(* The buffer and the cache are gapless stretches no longer than MaxLen,    *)
(* that end no later than with the bar that is forming; and without that   *)
(* one, their candles are those of the market.                             *)
THEOREM FeedCorrect == Spec => []FeedInv
<1>1. FeedInv /\ [Next]_vars => FeedInv'
  BY FeedStep
<1> QED  BY FeedStarts, <1>1, PTL DEF Spec

(* Where the history does not bring the bar that is forming, the buffer is *)
(* a gapless stretch of closed bars of the market at every moment: across  *)
(* late and missing bars, requests that time out, reconnects and the cache *)
(* of the warm-up (_fetch_warmup_candles, _merge_new_candles).             *)
THEOREM MarketBuffered == ~MayServeForming => (Spec => []BufferIsMarket)
<1> SUFFICES ASSUME ~MayServeForming PROVE Spec => []BufferIsMarket
  OBVIOUS
<1>1. FeedInv => BufferIsMarket
  <2> SUFFICES ASSUME FeedInv, NEW i \in DOMAIN buffer
               PROVE  /\ buffer[i].at <= Len(market) => buffer[i] = Full(buffer[i].at)
                      /\ i > 1 => buffer[i].at = buffer[i - 1].at + 1
    BY DEF BufferIsMarket
  <2>1. StretchOK(buffer) /\ Known(buffer)
    BY DEF FeedInv
  <2>2. /\ buffer \in Seq(Candle) /\ Len(buffer) \in Nat
        /\ \A k \in 1 .. Len(buffer) : buffer[k].at = buffer[1].at + (k - 1)
        /\ buffer # <<>> => buffer[1].at \in Nat \ {0}
    BY <2>1, StretchTimes
  <2>3. i \in 1 .. Len(buffer) /\ buffer # <<>>
    BY <2>2
  <2>4. buffer[i] = Full(buffer[i].at)
    BY <2>1, <2>3 DEF Known
  <2>5. CASE i > 1
    <3>1. i - 1 \in 1 .. Len(buffer) /\ i - 1 - 1 = i - 2
      BY <2>2, <2>3, <2>5
    <3>2. buffer[i - 1].at = buffer[1].at + (i - 1 - 1) /\ buffer[i].at = buffer[1].at + (i - 1)
      BY <2>2, <2>3, <3>1
    <3> QED  BY <2>2, <2>3, <2>4, <3>1, <3>2
  <2> QED  BY <2>3, <2>4, <2>5
<1> QED  BY FeedCorrect, <1>1, PTL

-----------------------------------------------------------------------------
(* The strategy *)

Setup == [brk : Nat, start : Nat, peak : Int, brkAt : Times, startAt : Times, retestAt : Times]
State == [phase : {"SCAN", "DISPLACEMENT", "RETEST", "ENTRY"}, setup : Setup, live : BOOLEAN]

(* A setup is about bars that the buffer has. *)
StateOK(s, c) ==
    /\ s \in State
    /\ s.live => s.phase # "ENTRY"
    /\ s.phase = "SCAN" => s.setup = NoSetup
    /\ s.phase # "SCAN" => s.setup.brk \in 1 .. Len(c) - 1
    /\ s.setup.start \in 0 .. Len(c)
    /\ s.phase = "RETEST" => s.setup.start \in 1 .. Len(c) - 1

(* They are the bars it was made of: nothing was cut from the front. *)
TimesOK(s, c) ==
    /\ s.phase \in {"DISPLACEMENT", "RETEST"} => s.setup.brkAt = c[s.setup.brk].at
    /\ s.phase = "RETEST" => s.setup.startAt = c[s.setup.start].at

LEMMA ScanningOK ==
    ASSUME NEW c \in Seq(Candle)
    PROVE  StateOK(Scanning, c) /\ TimesOK(Scanning, c)
<1>1. 0 \in Times /\ Len(c) \in Nat
  BY BarFeedAssumption DEF Times
<1>2. NoSetup \in Setup /\ NoSetup.start = 0
  BY <1>1 DEF NoSetup, Setup
<1>3. Scanning \in State /\ Scanning.phase = "SCAN" /\ Scanning.live = FALSE /\ Scanning.setup = NoSetup
  BY <1>2 DEF Scanning, State
<1> QED  BY <1>1, <1>2, <1>3 DEF StateOK, TimesOK

(* A setup that is dropped leaves the strategy scanning, flag up or not. *)
LEMMA CancelledOK ==
    ASSUME NEW c \in Seq(Candle), NEW s, StateOK(s, c)
    PROVE  /\ StateOK(Cancelled(s), c) /\ TimesOK(Cancelled(s), c)
           /\ Cancelled(s).phase = "SCAN"
<1> DEFINE z == Cancelled(s)
<1>1. 0 \in Times /\ Len(c) \in Nat /\ s.live \in BOOLEAN
  BY BarFeedAssumption DEF Times, StateOK, State
<1>2. NoSetup \in Setup /\ NoSetup.start = 0
  BY <1>1 DEF NoSetup, Setup
<1>3. z \in State /\ z.phase = "SCAN" /\ z.setup = NoSetup
  BY <1>1, <1>2 DEF Cancelled, Scanning, State
<1> HIDE DEF z
<1>4. StateOK(z, c) /\ TimesOK(z, c)
  BY <1>1, <1>2, <1>3 DEF StateOK, TimesOK
<1> QED  BY <1>3, <1>4 DEF z

LEMMA CandleIs ==
    ASSUME NEW c \in Seq(Candle), NEW i \in 1 .. Len(c)
    PROVE  /\ c[i].at \in Times /\ c[i].at \in Nat \ {0}
           /\ c[i].bar.high \in Int /\ c[i].bar.low \in Int /\ c[i].bar.brk \in BOOLEAN
<1>1. c[i] \in Candle
  OBVIOUS
<1>2. c[i].at \in 1 .. MaxBars + 1 /\ c[i].bar \in Bars
  BY <1>1 DEF Candle
<1>3. c[i].bar \in [high : Int, low : Int, brk : BOOLEAN]
  BY <1>2, RetestLiveAssumption
<1> QED  BY <1>2, <1>3, BarFeedAssumption, SMTT(30) DEF Times

LEMMA PeakIs ==
    ASSUME NEW c \in Seq(Candle), NEW a \in 1 .. Len(c), NEW b \in a .. Len(c)
    PROVE  Peak(c, a, b) \in Int
<1> DEFINE f == [k \in a .. b |-> c[k].bar.high]
<1>1. \A k \in a .. b : k \in 1 .. Len(c)
  OBVIOUS
<1>2. f \in [a .. b -> Int]
  BY <1>1, CandleIs
<1>3. \A k \in a .. b : f[k] = c[k].bar.high
  OBVIOUS
<1> HIDE DEF f
<1>4. PICK k \in a .. b : \A j \in a .. b : f[j] <= f[k]
  <2>1. a \in Nat /\ b \in Nat /\ a <= b
    OBVIOUS
  <2> QED  BY <1>2, <2>1, IntervalMax
<1>5. Max({c[j].bar.high : j \in a .. b}) = f[k]
  <2> DEFINE S == {c[j].bar.high : j \in a .. b}
  <2>1. S \in SUBSET Int /\ f[k] \in S /\ \A y \in S : y <= f[k]
    BY <1>1, <1>3, <1>4, CandleIs
  <2> HIDE DEF S
  <2>2. Max(S) = f[k]
    BY <2>1, MaxIs
  <2> QED  BY <2>2 DEF S
<1> QED  BY <1>2, <1>5 DEF Peak

(* What cold_start makes of one breakout of the history. *)
LEMMA RestoredIs ==
    ASSUME NEW c \in Seq(Candle), NEW i \in 1 .. Len(c) - 1
    PROVE  StateOK(Restored(c, i), c) /\ TimesOK(Restored(c, i), c)
<1> DEFINE n == Len(c)
           disp(j) == Displacement(Peak(c, i, j), j - i)
           ends == {j \in i + 1 .. n - 1 : disp(j) # "WAIT"}
           start == Min(ends)
           wait(j) == IF j - start > RetestBars THEN "CANCELLED"
                      ELSE Shallow(Peak(c, i, j), c[j].bar.low)
           rets == {j \in start + 1 .. n - 1 : wait(j) # "WAIT"}
           found(j, live, retestAt) ==
               [phase |-> "RETEST", live |-> live,
                setup |-> [brk |-> i, start |-> start, peak |-> Peak(c, i, j),
                           brkAt |-> c[i].at, startAt |-> c[start].at, retestAt |-> retestAt]]
<1>1. \/ Restored(c, i) = Scanning
      \/ ends # {} /\ rets = {} /\ Restored(c, i) = found(n - 1, FALSE, 0)
      \/ ends # {} /\ rets # {}
         /\ Restored(c, i) = found(Min(rets), n - 1 - Min(rets) <= EmitBars, c[Min(rets)].at)
  BY DEF Restored
<1>2. n \in Nat /\ i \in Nat /\ i >= 1 /\ i <= n - 1
  OBVIOUS
<1>3. ends # {} => start \in i + 1 .. n - 1
  <2>1. ends \in SUBSET Nat
    BY <1>2
  <2>2. \A j \in ends : j \in i + 1 .. n - 1
    OBVIOUS
  <2> HIDE DEF ends
  <2> QED  BY <2>1, <2>2, MinOfNats
<1> HIDE DEF ends, start, disp
<1>4. ends # {} /\ rets # {} => Min(rets) \in i + 1 .. n - 1
  <2> SUFFICES ASSUME ends # {}, rets # {} PROVE Min(rets) \in i + 1 .. n - 1
    OBVIOUS
  <2>1. rets \in SUBSET Nat
    BY <1>2, <1>3
  <2>2. \A j \in rets : j \in i + 1 .. n - 1
    BY <1>2, <1>3
  <2> HIDE DEF rets
  <2> QED  BY <2>1, <2>2, MinOfNats
<1> HIDE DEF rets, wait, n
<1>5. ASSUME NEW j \in i .. n - 1, NEW live \in BOOLEAN, NEW at \in Times, start \in i + 1 .. n - 1
      PROVE  StateOK(found(j, live, at), c) /\ TimesOK(found(j, live, at), c)
  <2>1. /\ i \in 1 .. Len(c) /\ j \in i .. Len(c) /\ start \in 1 .. Len(c)
        /\ start \in 1 .. Len(c) - 1 /\ start \in 0 .. Len(c)
    BY <1>2, <1>5 DEF n
  <2>2. Peak(c, i, j) \in Int /\ c[i].at \in Times /\ c[start].at \in Times
    BY <2>1, PeakIs, CandleIs
  <2>3. found(j, live, at).setup \in Setup
    BY <1>2, <1>5, <2>1, <2>2 DEF Setup
  <2>4. found(j, live, at) \in State
    BY <1>5, <2>3 DEF State
  <2> QED  BY <2>1, <2>4 DEF StateOK, TimesOK
<1> HIDE DEF found
<1>6. CASE Restored(c, i) = Scanning
  BY <1>6, ScanningOK
<1>7. CASE ends # {} /\ rets = {} /\ Restored(c, i) = found(n - 1, FALSE, 0)
  <2>1. n - 1 \in i .. n - 1 /\ 0 \in Times
    BY <1>2, BarFeedAssumption DEF Times
  <2> QED  BY <1>3, <1>5, <1>7, <2>1
<1>8. CASE /\ ends # {} /\ rets # {}
           /\ Restored(c, i) = found(Min(rets), n - 1 - Min(rets) <= EmitBars, c[Min(rets)].at)
  <2>1. Min(rets) \in i + 1 .. n - 1
    BY <1>4, <1>8
  <2>2. PICK j \in i .. n - 1 : j = Min(rets) /\ j \in 1 .. Len(c)
    BY <1>2, <2>1 DEF n
  <2>3. c[j].at \in Times
    BY <2>2, CandleIs
  <2>4. (n - 1 - j <= EmitBars) \in BOOLEAN
    OBVIOUS
  <2> QED  BY <1>3, <1>5, <1>8, <2>2, <2>3, <2>4
<1> QED  BY <1>1, <1>6, <1>7, <1>8

LEMMA ColdStartIs ==
    ASSUME NEW c \in Seq(Candle)
    PROVE  /\ StateOK(ColdStart(c), c) /\ TimesOK(ColdStart(c), c)
           /\ ColdStart(c).phase \in {"SCAN", "RETEST"}
<1> DEFINE n == Len(c)
           from == Max({3, UpdateBars - 1, n - RetestBars - 4})
           good == {i \in from .. n - 1 : c[i].bar.brk /\ Restored(c, i) # Scanning}
<1>1. ColdStart(c) = IF n < ColdBars \/ good = {} THEN Scanning ELSE Restored(c, Max(good))
  BY DEF ColdStart
<1>2. from \in Int /\ from >= 3
  <2>1. PICK x \in Int : x = UpdateBars - 1
    BY RetestAssumption
  <2>2. PICK y \in Int : y = n - RetestBars - 4
    BY RetestAssumption
  <2>3. PICK S : S = {3, x, y}
    OBVIOUS
  <2>4. S \in SUBSET Int /\ \E z \in S : z >= 3 /\ \A t \in S : t <= z
    BY <2>3
  <2>5. Max(S) >= 3 /\ Max(S) \in Int
    BY <2>4, MaxIs
  <2> QED  BY <2>1, <2>2, <2>3, <2>5
<1>3. n \in Nat
  OBVIOUS
<1> HIDE DEF from
<1>4. \A y \in good : y \in from .. n - 1 /\ y \in Nat /\ y <= n - 1 /\ y >= 1
  BY <1>2, <1>3
<1> HIDE DEF good
<1>5. CASE ColdStart(c) = Scanning
  <2>1. Scanning.phase = "SCAN"
    BY DEF Scanning
  <2> QED  BY <1>5, <2>1, ScanningOK
<1>6. CASE good # {} /\ ColdStart(c) = Restored(c, Max(good))
  <2>1. good \in SUBSET Nat /\ n - 1 \in Nat
    BY <1>3, <1>4, <1>6
  <2> HIDE DEF n
  <2>2. Max(good) \in good
    BY <1>4, <1>6, <2>1, MaxOfNats
  <2>3. PICK i : i = Max(good)
    OBVIOUS
  <2>4. i \in 1 .. n - 1
    BY <1>3, <1>4, <2>2, <2>3
  <2>5. StateOK(Restored(c, i), c) /\ TimesOK(Restored(c, i), c)
    BY <2>4, RestoredIs DEF n
  <2>6. Restored(c, i).phase \in {"SCAN", "RETEST"}
    BY DEF Restored, Scanning
  <2> QED  BY <1>6, <2>3, <2>5, <2>6
<1> QED  BY <1>1, <1>5, <1>6

After(u) == IF u.emit THEN [u.st EXCEPT !.phase = "ENTRY"] ELSE u.st

(* What an update that works on bar i may make of a state: a setup that    *)
(* waits for its retest is not too old, and a signal is of the setup that  *)
(* waited.                                                                 *)
Works(s, c, i, u) ==
    /\ u.emit \in BOOLEAN
    /\ StateOK(After(u), c)
    /\ TimesOK(s, c) => TimesOK(After(u), c)
    /\ After(u).phase = "RETEST" => i - After(u).setup.start <= RetestBars
    /\ u.emit => /\ s.phase = "RETEST"
                 /\ u.st.setup.brk = s.setup.brk /\ u.st.setup.brkAt = s.setup.brkAt

LEMMA WorksQuietly ==
    ASSUME NEW c, NEW i, NEW s, NEW u, u.emit = FALSE,
           StateOK(u.st, c), TimesOK(s, c) => TimesOK(u.st, c),
           u.st.phase = "RETEST" => i - u.st.setup.start <= RetestBars
    PROVE  Works(s, c, i, u)
<1>1. After(u) = u.st
  BY DEF After
<1>2. u.emit \in BOOLEAN /\ ~u.emit
  OBVIOUS
<1> QED  BY <1>1, <1>2 DEF Works

LEMMA ScanIs ==
    ASSUME NEW c \in Seq(Candle), NEW i \in 1 .. Len(c) - 1, NEW s, StateOK(s, c),
           s.phase = "SCAN", NEW guard \in BOOLEAN
    PROVE  Works(s, c, i, ScanTick(s, c, i, guard))
<1> DEFINE u == ScanTick(s, c, i, guard)
<1>1. u.emit = FALSE /\ After(u) = u.st /\ u.st \in {s, BreaksAt(s, c, i)}
  BY DEF ScanTick, After
<1>2. i \in 1 .. Len(c) /\ 0 \in 0 .. Len(c) /\ s.live \in BOOLEAN
  BY DEF StateOK, State
<1> DEFINE b == BreaksAt(s, c, i)
<1>3. /\ b.phase = "DISPLACEMENT" /\ b.live = s.live
      /\ b.setup.brk = i /\ b.setup.start = 0 /\ b.setup.brkAt = c[i].at
  BY DEF BreaksAt, NoSetup
<1>4. b \in State
  <2>1. c[i].bar.high \in Int /\ c[i].at \in Times /\ 0 \in Times
    BY <1>2, CandleIs, BarFeedAssumption DEF Times
  <2>2. NoSetup \in Setup
    BY <2>1 DEF NoSetup, Setup
  <2>3. i \in Nat
    OBVIOUS
  <2>4. [NoSetup EXCEPT !.brk = i, !.peak = c[i].bar.high, !.brkAt = c[i].at] \in Setup
    BY <2>1, <2>2, <2>3 DEF Setup
  <2> QED  BY <1>2, <2>4 DEF BreaksAt, State
<1> HIDE DEF b
<1>5. StateOK(b, c) /\ TimesOK(b, c)
  BY <1>2, <1>3, <1>4 DEF StateOK, TimesOK
<1>6. StateOK(s, c) /\ TimesOK(s, c)
  BY DEF TimesOK
<1> HIDE DEF u
<1>7. StateOK(After(u), c) /\ TimesOK(After(u), c) /\ After(u).phase # "RETEST"
  BY <1>1, <1>3, <1>5, <1>6 DEF b
<1>8. Works(s, c, i, u)
  BY <1>1, <1>7 DEF Works
<1> QED  BY <1>8 DEF u

LEMMA DisplacementIs ==
    ASSUME NEW c \in Seq(Candle), NEW i \in 1 .. Len(c) - 1, NEW s, StateOK(s, c),
           s.phase = "DISPLACEMENT"
    PROVE  Works(s, c, i, DisplacementTick(s, c, i))
<1> DEFINE u == DisplacementTick(s, c, i)
           peak == Max({s.setup.peak, c[i].bar.high})
           seen == [s.setup EXCEPT !.peak = peak]
           waits == [s EXCEPT !.setup = seen]
           goes == [s EXCEPT !.phase = "RETEST",
                             !.setup = [seen EXCEPT !.start = i, !.startAt = c[i].at]]
<1>1. u.emit = FALSE /\ After(u) = u.st /\ u.st \in {Cancelled(s), waits, goes}
  BY DEF DisplacementTick, After
<1>2. i \in 1 .. Len(c) /\ i \in 0 .. Len(c) /\ i \in Nat
  OBVIOUS
<1>3. s \in State /\ s.setup \in Setup /\ s.live \in BOOLEAN /\ s.setup.brk \in 1 .. Len(c) - 1
      /\ s.setup.start \in 0 .. Len(c)
  BY DEF StateOK, State
<1>4. peak \in Int
  <2>1. c[i].bar.high \in Int /\ s.setup.peak \in Int
    BY <1>2, <1>3, CandleIs DEF Setup
  <2> QED  BY <2>1, MaxOfTwo
<1> HIDE DEF peak, u
<1>5. /\ seen \in Setup /\ seen.brk = s.setup.brk /\ seen.brkAt = s.setup.brkAt
      /\ seen.start = s.setup.start
  BY <1>3, <1>4 DEF Setup
<1> HIDE DEF seen
<1>6. waits \in State /\ waits.phase = "DISPLACEMENT" /\ waits.setup = seen /\ waits.live = s.live
  BY <1>3, <1>5 DEF State
<1> DEFINE new == [seen EXCEPT !.start = i, !.startAt = c[i].at]
<1>7. /\ new \in Setup /\ new.brk = seen.brk /\ new.brkAt = seen.brkAt
      /\ new.start = i /\ new.startAt = c[i].at
  BY <1>2, <1>5, CandleIs DEF Setup
<1> HIDE DEF new
<1>8. goes \in State /\ goes.phase = "RETEST" /\ goes.setup = new /\ goes.live = s.live
  BY <1>3, <1>7 DEF State, new
<1> HIDE DEF waits, goes
<1>9. i - i <= RetestBars
  BY <1>2, RetestAssumption
<1>10. ASSUME u.st = Cancelled(s) PROVE Works(s, c, i, u)
  BY <1>1, <1>10, CancelledOK, WorksQuietly
<1>11. ASSUME u.st = waits PROVE Works(s, c, i, u)
  <2>1. StateOK(waits, c) /\ (TimesOK(s, c) => TimesOK(waits, c))
    BY <1>3, <1>5, <1>6 DEF StateOK, TimesOK
  <2> QED  BY <1>1, <1>6, <1>11, <2>1, WorksQuietly
<1>12. ASSUME u.st = goes PROVE Works(s, c, i, u)
  <2>1. StateOK(goes, c) /\ (TimesOK(s, c) => TimesOK(goes, c))
    BY <1>2, <1>3, <1>5, <1>7, <1>8 DEF StateOK, TimesOK
  <2> QED  BY <1>1, <1>7, <1>8, <1>9, <1>12, <2>1, WorksQuietly
<1>13. Works(s, c, i, u)
  BY <1>1, <1>10, <1>11, <1>12
<1> QED  BY <1>13 DEF u

LEMMA RetestIs ==
    ASSUME NEW c \in Seq(Candle), NEW i \in 1 .. Len(c) - 1, NEW s, StateOK(s, c),
           s.phase = "RETEST", NEW guard \in BOOLEAN
    PROVE  Works(s, c, i, RetestTick(s, c, i, guard))
<1> DEFINE u == RetestTick(s, c, i, guard)
           peak == Max({s.setup.peak, c[i].bar.high})
           seen == [s.setup EXCEPT !.peak = peak]
           waits == [s EXCEPT !.setup = seen]
           calms == [s EXCEPT !.live = FALSE]
<1>1. /\ u.emit \in BOOLEAN
      /\ \/ u.emit = FALSE /\ u.st = Cancelled(s)
         \/ i - s.setup.start <= RetestBars /\ u.st = calms
         \/ i - s.setup.start <= RetestBars /\ u.st = waits /\ s.live = FALSE
  <2>1. s.live \in BOOLEAN /\ s.setup.start \in 0 .. Len(c)
    BY DEF StateOK, State
  <2>2. i - s.setup.start > RetestBars \/ i - s.setup.start <= RetestBars
    <3>1. i \in Int /\ s.setup.start \in Int /\ RetestBars \in Int
      BY <2>1, RetestAssumption
    <3> QED  BY <3>1
  <2> QED  BY <2>1, <2>2 DEF RetestTick
<1>2. i \in 1 .. Len(c) /\ i \in Nat
  OBVIOUS
<1>3. /\ s \in State /\ s.setup \in Setup /\ s.setup.brk \in 1 .. Len(c) - 1
      /\ s.setup.start \in 0 .. Len(c) /\ s.setup.start \in 1 .. Len(c) - 1
  BY DEF StateOK, State
<1>4. peak \in Int
  <2>1. c[i].bar.high \in Int /\ s.setup.peak \in Int
    BY <1>2, <1>3, CandleIs DEF Setup
  <2> QED  BY <2>1, MaxOfTwo
<1> HIDE DEF peak, u
<1>5. /\ seen \in Setup /\ seen.brk = s.setup.brk /\ seen.brkAt = s.setup.brkAt
      /\ seen.start = s.setup.start /\ seen.startAt = s.setup.startAt
  BY <1>3, <1>4 DEF Setup
<1> HIDE DEF seen
<1>6. waits \in State /\ waits.phase = "RETEST" /\ waits.setup = seen /\ waits.live = s.live
  BY <1>3, <1>5 DEF State
<1>7. calms \in State /\ calms.phase = "RETEST" /\ calms.setup = s.setup /\ calms.live = FALSE
  BY <1>3 DEF State
<1> HIDE DEF waits, calms
<1>9. ASSUME u.emit = FALSE, u.st = Cancelled(s) PROVE Works(s, c, i, u)
  BY <1>9, CancelledOK, WorksQuietly
<1>10. ASSUME NEW t \in State, u.st = t, t.phase = "RETEST", t.live = FALSE, t.setup \in Setup,
              i - s.setup.start <= RetestBars,
              t.setup.brk = s.setup.brk, t.setup.brkAt = s.setup.brkAt,
              t.setup.start = s.setup.start, t.setup.startAt = s.setup.startAt
       PROVE  Works(s, c, i, u)
  <2>1. CASE u.emit = FALSE
    <3>1. After(u) = t
      BY <1>10, <2>1 DEF After
    <3>2. StateOK(t, c) /\ (TimesOK(s, c) => TimesOK(t, c))
      BY <1>3, <1>10 DEF StateOK, TimesOK
    <3> QED  BY <1>10, <2>1, <3>1, <3>2 DEF Works
  <2>2. CASE u.emit = TRUE
    <3>1. PICK e : e = [t EXCEPT !.phase = "ENTRY"]
      OBVIOUS
    <3>2. e \in State /\ e.phase = "ENTRY" /\ e.live = FALSE /\ e.setup = t.setup
      BY <1>10, <3>1 DEF State
    <3>3. After(u) = e
      BY <1>10, <2>2, <3>1 DEF After
    <3>4. StateOK(e, c) /\ TimesOK(e, c)
      BY <1>3, <1>10, <3>2 DEF StateOK, TimesOK
    <3> QED  BY <1>10, <2>2, <3>2, <3>3, <3>4 DEF Works
  <2> QED  BY <1>1, <2>1, <2>2
<1>11. ASSUME i - s.setup.start <= RetestBars, u.st = calms PROVE Works(s, c, i, u)
  BY <1>3, <1>7, <1>10, <1>11
<1>12. ASSUME i - s.setup.start <= RetestBars, u.st = waits, s.live = FALSE PROVE Works(s, c, i, u)
  BY <1>5, <1>6, <1>10, <1>12
<1>13. Works(s, c, i, u)
  BY <1>1, <1>9, <1>11, <1>12
<1> QED  BY <1>13 DEF u

(* update: nothing, or the work of the state on the last closed bar. *)
LEMMA UpdateIs ==
    ASSUME NEW c \in Seq(Candle), NEW s, StateOK(s, c),
           NEW open \in BOOLEAN, NEW guard \in BOOLEAN
    PROVE  LET u == Update(s, c, open, guard) IN
           /\ u.emit \in BOOLEAN
           /\ open /\ Len(c) >= UpdateBars =>
                  /\ SignalIdx(c) \in 1 .. Len(c) - 1
                  /\ s.phase # "ENTRY" => Works(s, c, SignalIdx(c), u)
           /\ ~(open /\ Len(c) >= UpdateBars) \/ s.phase = "ENTRY" => u = [st |-> s, emit |-> FALSE]
<1> DEFINE u == Update(s, c, open, guard)
<1>1. Len(c) \in Nat /\ UpdateBars \in Nat /\ UpdateBars > 1
  BY RetestAssumption
<1>2. CASE ~(open /\ Len(c) >= UpdateBars)
  <2>1. u = [st |-> s, emit |-> FALSE]
    BY <1>1, <1>2 DEF Update
  <2> QED  BY <1>2, <2>1
<1>3. CASE open /\ Len(c) >= UpdateBars
  <2>1. SignalIdx(c) \in 1 .. Len(c) - 1
    BY <1>1, <1>3 DEF SignalIdx
  <2>2. ~(Len(c) < UpdateBars \/ ~open)
    BY <1>1, <1>3
  <2>3. s.phase \in {"SCAN", "DISPLACEMENT", "RETEST", "ENTRY"}
    BY DEF StateOK, State
  <2>4. CASE s.phase = "SCAN"
    <3>1. u = ScanTick(s, c, SignalIdx(c), guard)
      BY <2>2, <2>4 DEF Update
    <3>2. Works(s, c, SignalIdx(c), u)
      BY <2>1, <2>4, <3>1, ScanIs
    <3> QED  BY <1>3, <2>1, <2>4, <3>2 DEF Works
  <2>5. CASE s.phase = "DISPLACEMENT"
    <3>1. u = DisplacementTick(s, c, SignalIdx(c))
      BY <2>2, <2>5 DEF Update
    <3>2. Works(s, c, SignalIdx(c), u)
      BY <2>1, <2>5, <3>1, DisplacementIs
    <3> QED  BY <1>3, <2>1, <2>5, <3>2 DEF Works
  <2>6. CASE s.phase = "RETEST"
    <3>1. u = RetestTick(s, c, SignalIdx(c), guard)
      BY <2>2, <2>6 DEF Update
    <3>2. Works(s, c, SignalIdx(c), u)
      BY <2>1, <2>6, <3>1, RetestIs
    <3> QED  BY <1>3, <2>1, <2>6, <3>2 DEF Works
  <2>7. CASE s.phase = "ENTRY"
    <3>1. u = [st |-> s, emit |-> FALSE]
      BY <2>2, <2>7 DEF Update
    <3>2. u.emit = FALSE /\ After(u) = s
      BY <3>1 DEF After
    <3> QED  BY <1>3, <2>1, <2>7, <3>1, <3>2
  <2> QED  BY <2>3, <2>4, <2>5, <2>6, <2>7
<1> QED  BY <1>2, <1>3

-----------------------------------------------------------------------------
(* The strategy on the feed *)

SignalOK ==
    signal # NoSignal =>
        /\ signal.brkAt \in Nat \ {0} /\ signal.at \in Nat /\ signal.at <= Len(market)
        /\ \A n \in signal.brkAt .. signal.at : signal.stop + StopBuffer <= market[n].low

LiveInv ==
    /\ FeedInv
    /\ StateOK(st, buffer)
    /\ signal.at \in Times /\ signal.brkAt \in Times /\ acted \in Times
    /\ MaxLen > MaxBars => TimesOK(st, buffer) /\ RetestTimesOut
    /\ MaxLen > MaxBars /\ ~MayServeForming => SignalOK

(* A poll on the candles c, whether they are new or not. *)
LEMMA TickIs ==
    ASSUME NEW c \in Seq(Candle), StateOK(st, c), NEW open \in BOOLEAN, NEW guard \in BOOLEAN,
           NEW u, u = Update(st, c, open, guard),
           st' = IF u.emit THEN [u.st EXCEPT !.phase = "ENTRY"] ELSE u.st,
           signal' = IF u.emit THEN SignalOf(u.st.setup, c, SignalIdx(c)) ELSE signal,
           acted' = IF open /\ Len(c) >= UpdateBars THEN c[SignalIdx(c)].at ELSE acted
    PROVE  /\ StateOK(st', c) /\ (TimesOK(st, c) => TimesOK(st', c))
           /\ \/ st' = st /\ signal' = signal /\ acted' = acted
              \/ \E i \in 1 .. Len(c) - 1 :
                    /\ acted' = c[i].at
                    /\ st'.phase = "RETEST" => i - st'.setup.start <= RetestBars
                    /\ \/ signal' = signal
                       \/ \E x : /\ signal' = SignalOf(x, c, i)
                                 /\ st.phase = "RETEST"
                                 /\ x.brk = st.setup.brk /\ x.brkAt = st.setup.brkAt
<1>1. /\ u.emit \in BOOLEAN
      /\ open /\ Len(c) >= UpdateBars =>
             /\ SignalIdx(c) \in 1 .. Len(c) - 1
             /\ st.phase # "ENTRY" => Works(st, c, SignalIdx(c), u)
      /\ ~(open /\ Len(c) >= UpdateBars) \/ st.phase = "ENTRY" => u = [st |-> st, emit |-> FALSE]
  BY UpdateIs
<1>2. st' = After(u)
  BY DEF After
<1>3. CASE u = [st |-> st, emit |-> FALSE]
  <2>1. u.emit = FALSE /\ u.st = st
    BY <1>3
  <2>2. st' = st /\ signal' = signal
    BY <2>1
  <2>3. CASE open /\ Len(c) >= UpdateBars
    <3>1. st.phase = "RETEST" => st.phase # "ENTRY"
      OBVIOUS
    <3>2. CASE st.phase = "ENTRY"
      BY <1>1, <2>2, <2>3, <3>2
    <3>3. CASE st.phase # "ENTRY"
      BY <1>1, <1>2, <2>2, <2>3, <3>3 DEF Works
    <3> QED  BY <3>2, <3>3
  <2>4. CASE ~(open /\ Len(c) >= UpdateBars)
    BY <2>2, <2>4
  <2> QED  BY <2>3, <2>4
<1>4. CASE open /\ Len(c) >= UpdateBars /\ st.phase # "ENTRY"
  <2>1. PICK i \in 1 .. Len(c) - 1 : i = SignalIdx(c)
    BY <1>1, <1>4
  <2>2. Works(st, c, i, u) /\ acted' = c[i].at
    BY <1>1, <1>4, <2>1
  <2>3. /\ StateOK(st', c) /\ (TimesOK(st, c) => TimesOK(st', c))
        /\ st'.phase = "RETEST" => i - st'.setup.start <= RetestBars
    BY <1>2, <2>2 DEF Works
  <2>4. CASE u.emit = FALSE
    BY <2>1, <2>2, <2>3, <2>4
  <2>5. CASE u.emit = TRUE
    <3>1. PICK x : x = u.st.setup
      OBVIOUS
    <3>2. st.phase = "RETEST" /\ x.brk = st.setup.brk /\ x.brkAt = st.setup.brkAt
      BY <2>2, <2>5, <3>1 DEF Works
    <3>3. signal' = SignalOf(x, c, i)
      BY <2>1, <2>5, <3>1
    <3> QED  BY <2>2, <2>3, <3>2, <3>3
  <2> QED  BY <1>1, <2>4, <2>5
<1> QED  BY <1>1, <1>3, <1>4

(* A longer buffer with the same beginning keeps what a setup is about. *)
LEMMA LongerOK ==
    ASSUME NEW s, NEW b \in Seq(Candle), NEW c \in Seq(Candle), StateOK(s, b), Len(c) >= Len(b)
    PROVE  /\ StateOK(s, c)
           /\ (\A i \in 1 .. Len(b) : c[i] = b[i]) => (TimesOK(s, b) => TimesOK(s, c))
<1>1. Len(b) \in Nat /\ Len(c) \in Nat
  OBVIOUS
<1>2. StateOK(s, c)
  BY <1>1 DEF StateOK
<1>3. ASSUME \A i \in 1 .. Len(b) : c[i] = b[i], TimesOK(s, b) PROVE TimesOK(s, c)
  <2>1. s.phase \in {"DISPLACEMENT", "RETEST"} => s.setup.brk \in 1 .. Len(b)
    BY <1>1 DEF StateOK
  <2>2. s.phase = "RETEST" => s.setup.start \in 1 .. Len(b)
    BY <1>1 DEF StateOK
  <2> QED  BY <1>3, <2>1, <2>2 DEF TimesOK
<1> QED  BY <1>2, <1>3

(* The stop of a signal is the lowest low since the breakout, less the     *)
(* buffer.                                                                 *)
LEMMA StopIs ==
    ASSUME FeedTypes, NEW c, StretchOK(c), Known(c), NEW i \in 1 .. Len(c) - 1,
           NEW x, x.brk \in 1 .. Len(c) - 1, x.brkAt = c[x.brk].at,
           signal' = SignalOf(x, c, i), market' = market
    PROVE  SignalOK'
<1>1. /\ c \in Seq(Candle) /\ Len(c) \in Nat
      /\ \A k \in 1 .. Len(c) : c[k].at = c[1].at + (k - 1)
      /\ c # <<>> => c[1].at \in Nat \ {0}
  BY StretchTimes
<1>2. PICK f \in Nat : f = c[1].at /\ f > 0
  <2>1. c # <<>>
    BY <1>1
  <2> QED  BY <1>1, <2>1
<1>3. PICK b \in Nat : b = x.brk /\ b \in 1 .. Len(c) /\ b >= 1
  BY <1>1
<1>4. i \in Nat /\ i \in 1 .. Len(c) /\ i >= 1
  BY <1>1
<1>5. c[i].at = f + (i - 1) /\ c[b].at = f + (b - 1)
  BY <1>1, <1>2, <1>3, <1>4
<1> DEFINE lows == {c[k].bar.low : k \in b .. i}
<1>6. /\ signal'.at = f + (i - 1) /\ signal'.brkAt = f + (b - 1)
      /\ signal'.stop = Min(lows) - StopBuffer
  BY <1>3, <1>5 DEF SignalOf
<1>7. f + (i - 1) <= Len(market)
  BY <1>4, <1>5 DEF Known
<1>8. ASSUME NEW n \in f + (b - 1) .. f + (i - 1)
      PROVE  Min(lows) - StopBuffer + StopBuffer <= market[n].low
  <2>1. PICK k \in b .. i : f + (k - 1) = n
    <3>1. PICK k \in Int : k = n + 1 - f
      BY <1>2
    <3>0. f \in Int /\ b \in Int /\ i \in Int
      BY <1>2, <1>3, <1>4
    <3>2. f + (b - 1) \in Int /\ f + (i - 1) \in Int
      BY <3>0
    <3>3. n \in Int /\ n >= f + (b - 1) /\ n <= f + (i - 1)
      BY <3>2
    <3>4. k >= b /\ k <= i /\ f + (k - 1) = n
      BY <3>0, <3>1, <3>3
    <3>5. k \in b .. i
      BY <1>3, <1>4, <3>1, <3>4
    <3> QED  BY <3>4, <3>5
  <2>2. b <= i /\ \A j \in b .. i : j \in 1 .. Len(c)
    <3>1. b <= i
      BY <1>3, <1>4, <2>1
    <3>2. Len(c) \in Nat /\ i <= Len(c)
      BY <1>1, <1>4
    <3> QED  BY <1>3, <1>4, <3>1, <3>2, SMTT(30)
  <2> DEFINE g == [j \in b .. i |-> c[j].bar.low]
  <2>3. g \in [b .. i -> Int]
    BY <1>1, <2>2, CandleIs
  <2>4. \A j \in b .. i : g[j] = c[j].bar.low
    OBVIOUS
  <2> HIDE DEF g
  <2>5. PICK l \in b .. i : \A j \in b .. i : g[l] <= g[j]
    BY <1>3, <1>4, <2>2, <2>3, IntervalMin
  <2>6. lows \in SUBSET Int /\ g[l] \in lows /\ \A y \in lows : g[l] <= y
    BY <2>3, <2>4, <2>5
  <2> HIDE DEF lows
  <2>7. Min(lows) = g[l] /\ g[l] \in Int
    BY <2>6, MinIs
  <2>8. g[l] <= g[k] /\ g[k] = c[k].bar.low
    BY <2>1, <2>4, <2>5
  <2>9. c[k].bar = market[n]
    <3>1. k \in 1 .. Len(c) /\ c[k].at = n
      BY <1>1, <1>2, <2>1, <2>2
    <3>2. c[k] = Full(n)
      BY <3>1 DEF Known
    <3> QED  BY <3>2 DEF Full
  <2>10. StopBuffer \in Int
    BY RetestAssumption
  <2> QED  BY <2>7, <2>8, <2>9, <2>10
<1> HIDE DEF lows
<1>9. f + (b - 1) \in Nat \ {0} /\ f + (i - 1) \in Nat
  <2>1. b - 1 \in Nat /\ i - 1 \in Nat
    BY <1>3, <1>4
  <2> QED  BY <1>2, <2>1
<1> QED  BY <1>6, <1>7, <1>8, <1>9 DEF SignalOK

LEMMA TickStep ==
    ASSUME LiveInv, market' = market, NEW c, c = buffer', StretchOK(c), FeedInv',
           Len(c) >= Len(buffer),
           MaxLen > MaxBars => \A i \in 1 .. Len(buffer) : c[i] = buffer[i],
           ~MayServeForming => Known(c),
           NEW open \in BOOLEAN, NEW guard \in BOOLEAN, Tick(c, open, guard)
    PROVE  LiveInv'
<1>1. /\ FeedTypes /\ StretchOK(buffer) /\ StateOK(st, buffer)
      /\ signal.at \in Times /\ signal.brkAt \in Times /\ acted \in Times
      /\ MaxLen > MaxBars => TimesOK(st, buffer) /\ RetestTimesOut
      /\ MaxLen > MaxBars /\ ~MayServeForming => SignalOK
  BY DEF LiveInv, FeedInv
<1>2. buffer \in Seq(Candle) /\ c \in Seq(Candle)
  BY <1>1, StretchTimes
<1>3. StateOK(st, c) /\ (MaxLen > MaxBars => TimesOK(st, c))
  BY <1>1, <1>2, LongerOK
<1>4. /\ StateOK(st', c) /\ (TimesOK(st, c) => TimesOK(st', c))
      /\ \/ st' = st /\ signal' = signal /\ acted' = acted
         \/ \E i \in 1 .. Len(c) - 1 :
               /\ acted' = c[i].at
               /\ st'.phase = "RETEST" => i - st'.setup.start <= RetestBars
               /\ \/ signal' = signal
                  \/ \E x : /\ signal' = SignalOf(x, c, i)
                            /\ st.phase = "RETEST"
                            /\ x.brk = st.setup.brk /\ x.brkAt = st.setup.brkAt
  <2>1. PICK u : u = Update(st, c, open, guard)
    OBVIOUS
  <2>2. /\ st' = IF u.emit THEN [u.st EXCEPT !.phase = "ENTRY"] ELSE u.st
        /\ signal' = IF u.emit THEN SignalOf(u.st.setup, c, SignalIdx(c)) ELSE signal
        /\ acted' = IF open /\ Len(c) >= UpdateBars THEN c[SignalIdx(c)].at ELSE acted
    BY <2>1 DEF Tick
  <2> QED  BY <1>2, <1>3, <2>1, <2>2, TickIs
<1>5. StateOK(st, buffer)' /\ (MaxLen > MaxBars => TimesOK(st, buffer)')
  <2>1. StateOK(st', c) /\ (MaxLen > MaxBars => TimesOK(st', c))
    BY <1>3, <1>4
  <2> QED  BY <2>1 DEF StateOK, TimesOK
<1>6. CASE st' = st /\ signal' = signal /\ acted' = acted
  <2>1. MaxLen > MaxBars => RetestTimesOut'
    BY <1>1, <1>6 DEF RetestTimesOut
  <2>2. MaxLen > MaxBars /\ ~MayServeForming => SignalOK'
    BY <1>1, <1>6 DEF SignalOK
  <2> QED  BY <1>1, <1>5, <1>6, <2>1, <2>2 DEF LiveInv
<1>7. ASSUME NEW i \in 1 .. Len(c) - 1, acted' = c[i].at,
             st'.phase = "RETEST" => i - st'.setup.start <= RetestBars,
             \/ signal' = signal
             \/ \E x : /\ signal' = SignalOf(x, c, i)
                       /\ st.phase = "RETEST"
                       /\ x.brk = st.setup.brk /\ x.brkAt = st.setup.brkAt
      PROVE  LiveInv'
  <2>1. i \in 1 .. Len(c) /\ i \in Nat
    BY <1>2
  <2>2. acted' \in Times
    BY <1>2, <1>7, <2>1, CandleIs
  <2>3. ASSUME MaxLen > MaxBars PROVE RetestTimesOut'
    <3> SUFFICES ASSUME st'.phase = "RETEST"
                 PROVE  acted' - st'.setup.startAt <= RetestBars
      BY DEF RetestTimesOut
    <3>1. TimesOK(st', c) /\ StateOK(st', c)
      BY <1>3, <1>4, <2>3
    <3>2. PICK b \in 1 .. Len(c) : b = st'.setup.start /\ b \in Nat
      BY <1>2, <3>1 DEF StateOK
    <3>3. st'.setup.startAt = c[b].at
      BY <3>1, <3>2 DEF TimesOK
    <3>4. c[i].at = c[1].at + (i - 1) /\ c[b].at = c[1].at + (b - 1) /\ c[1].at \in Nat
      <4>1. c # <<>>
        BY <2>1
      <4> QED  BY <2>1, <4>1, StretchTimes
    <3>5. i - b <= RetestBars
      BY <1>7, <3>2
    <3>6. RetestBars \in Nat
      BY RetestAssumption
    <3>7. PICK t \in Nat : t = c[1].at
      BY <3>4
    <3>8. acted' = t + (i - 1) /\ st'.setup.startAt = t + (b - 1)
      BY <1>7, <3>3, <3>4, <3>7
    <3> QED  BY <2>1, <3>2, <3>5, <3>6, <3>8
  <2>4. CASE signal' = signal
    <3>1. MaxLen > MaxBars /\ ~MayServeForming => SignalOK'
      BY <1>1, <2>4 DEF SignalOK
    <3> QED  BY <1>1, <1>5, <2>2, <2>3, <2>4, <3>1 DEF LiveInv
  <2>5. ASSUME NEW x, signal' = SignalOf(x, c, i), st.phase = "RETEST",
               x.brk = st.setup.brk, x.brkAt = st.setup.brkAt
        PROVE  LiveInv'
    <3>1. signal'.at = c[i].at /\ signal'.brkAt = st.setup.brkAt
      BY <2>5 DEF SignalOf
    <3>2. signal'.at \in Times /\ signal'.brkAt \in Times
      BY <1>2, <1>3, <2>1, <3>1, CandleIs DEF StateOK, State, Setup
    <3>3. ASSUME MaxLen > MaxBars, ~MayServeForming PROVE SignalOK'
      <4>1. st.setup.brk \in 1 .. Len(c) - 1 /\ st.setup.brkAt = c[st.setup.brk].at
        BY <1>3, <2>5, <3>3 DEF StateOK, TimesOK
      <4>2. Known(c)
        BY <3>3
      <4> QED  BY <1>1, <2>5, <4>1, <4>2, StopIs
    <3> QED  BY <1>1, <1>5, <2>2, <2>3, <3>2, <3>3 DEF LiveInv
  <2> QED  BY <1>7, <2>4, <2>5
<1> QED  BY <1>4, <1>6, <1>7

LEMMA StartsCold ==
    ASSUME NEW c, StretchOK(c)
    PROVE  /\ StateOK(ColdStart(c), c) /\ TimesOK(ColdStart(c), c)
           /\ 0 - ColdStart(c).setup.startAt <= RetestBars
<1>1. c \in Seq(Candle)
  BY StretchTimes
<1>2. StateOK(ColdStart(c), c) /\ TimesOK(ColdStart(c), c)
  BY <1>1, ColdStartIs
<1>3. ColdStart(c).setup.startAt \in Nat
  BY <1>2, BarFeedAssumption DEF StateOK, State, Setup, Times
<1> QED  BY <1>2, <1>3, RetestAssumption

LEMMA LiveInit == Init => LiveInv
<1> SUFFICES ASSUME Init PROVE LiveInv
  OBVIOUS
<1>1. FeedInv /\ StretchOK(buffer)
  BY FeedStarts DEF FeedInv
<1>2. st = ColdStart(buffer) /\ signal = NoSignal /\ acted = 0
  BY DEF Init
<1>3. PICK c : c = buffer
  OBVIOUS
<1>4. StateOK(st, buffer) /\ TimesOK(st, buffer) /\ 0 - st.setup.startAt <= RetestBars
  BY <1>1, <1>2, <1>3, StartsCold
<1>5. signal.at \in Times /\ signal.brkAt \in Times /\ acted \in Times
  BY <1>2, BarFeedAssumption DEF NoSignal, Times
<1>6. RetestTimesOut /\ SignalOK
  BY <1>2, <1>4 DEF RetestTimesOut, SignalOK
<1> QED  BY <1>1, <1>4, <1>5, <1>6 DEF LiveInv

LEMMA LiveStep == LiveInv /\ [Next]_vars => LiveInv'
<1> SUFFICES ASSUME LiveInv, [Next]_vars PROVE LiveInv'
  OBVIOUS
<1>1. /\ FeedInv /\ FeedInv'
      /\ FeedTypes /\ StretchOK(buffer) /\ StateOK(st, buffer)
      /\ signal.at \in Times /\ signal.brkAt \in Times /\ acted \in Times
      /\ MaxLen > MaxBars => TimesOK(st, buffer) /\ RetestTimesOut
      /\ MaxLen > MaxBars /\ ~MayServeForming => SignalOK
      /\ ~MayServeForming => Known(buffer)
  BY FeedStep DEF LiveInv, FeedInv
<1>2. ASSUME NEW open \in {TRUE, ~MayClose}, NEW guard \in BOOLEAN,
             GetsBars, Tick(buffer', open, guard)
      PROVE  LiveInv'
  <2>1. /\ StretchOK(buffer')
        /\ Len(buffer') >= Len(buffer)
        /\ MaxLen > MaxBars => \A i \in 1 .. Len(buffer) : buffer'[i] = buffer[i]
        /\ ~MayServeForming => Known(buffer')
        /\ market' = market
    BY <1>1, <1>2, GetsMore
  <2>2. PICK c : c = buffer'
    OBVIOUS
  <2>3. open \in BOOLEAN
    BY RetestLiveAssumption
  <2>4. Tick(c, open, guard)
    BY <1>2, <2>2 DEF Tick
  <2> QED  BY <1>1, <2>1, <2>2, <2>3, <2>4, TickStep
<1>3. ASSUME NEW open \in {TRUE, ~MayClose}, NEW guard \in BOOLEAN,
             UNCHANGED feedVars, Tick(buffer, open, guard)
      PROVE  LiveInv'
  <2>1. buffer' = buffer /\ market' = market
    BY <1>3 DEF feedVars
  <2>2. PICK c : c = buffer
    OBVIOUS
  <2>3. open \in BOOLEAN
    BY RetestLiveAssumption
  <2>5. Len(buffer) \in Nat
    BY <1>1, StretchTimes
  <2>4. Tick(c, open, guard)
    BY <1>3, <2>2 DEF Tick
  <2> QED  BY <1>1, <2>1, <2>2, <2>3, <2>4, <2>5, TickStep
<1>4. CASE MarketCloses
  <2>1. PICK bar \in Bars : market' = Append(market, bar)
    BY <1>4 DEF MarketCloses, BarCloses
  <2>2. buffer' = buffer /\ st' = st /\ signal' = signal /\ acted' = acted
    BY <1>4 DEF MarketCloses, BarCloses
  <2>3. /\ Len(market') = Len(market) + 1 /\ Len(market) \in Nat
        /\ \A n \in 1 .. Len(market) : market'[n] = market[n]
    BY <1>1, <2>1 DEF FeedTypes
  <2>4. StateOK(st, buffer)' /\ (MaxLen > MaxBars => TimesOK(st, buffer)')
    BY <1>1, <2>2 DEF StateOK, TimesOK
  <2>5. MaxLen > MaxBars => RetestTimesOut'
    BY <1>1, <2>2 DEF RetestTimesOut
  <2>6. ASSUME SignalOK PROVE SignalOK'
    <3>1. signal = NoSignal \/ signal # NoSignal
      OBVIOUS
    <3>2. CASE signal = NoSignal
      BY <2>2, <3>2 DEF SignalOK
    <3>3. CASE signal # NoSignal
      <4>1. \A n \in signal.brkAt .. signal.at : market'[n] = market[n]
        BY <2>3, <2>6, <3>3 DEF SignalOK
      <4>2. signal.at <= Len(market') /\ signal.brkAt \in Nat \ {0} /\ signal.at \in Nat
        BY <2>3, <2>6, <3>3 DEF SignalOK
      <4> QED  BY <2>2, <2>6, <3>3, <4>1, <4>2 DEF SignalOK
    <3> QED  BY <3>1, <3>2, <3>3
  <2> QED  BY <1>1, <2>2, <2>4, <2>5, <2>6 DEF LiveInv
<1>5. CASE Reconnect
  <2>1. Warmup /\ st' = ColdStart(buffer') /\ signal' = NoSignal /\ acted' = 0
    BY <1>5 DEF Reconnect
  <2>2. StretchOK(buffer')
    BY <1>1, <2>1, WarmsUp
  <2>3. PICK c : c = buffer'
    OBVIOUS
  <2>4. /\ StateOK(ColdStart(c), c) /\ TimesOK(ColdStart(c), c)
        /\ 0 - ColdStart(c).setup.startAt <= RetestBars
    BY <2>2, <2>3, StartsCold
  <2>5. st' = ColdStart(c)
    BY <2>1, <2>3
  <2>6. StateOK(st, buffer)' /\ TimesOK(st, buffer)'
    BY <2>3, <2>4, <2>5 DEF StateOK, TimesOK
  <2>7. RetestTimesOut' /\ SignalOK'
    BY <2>1, <2>4, <2>5 DEF RetestTimesOut, SignalOK
  <2>8. signal'.at \in Times /\ signal'.brkAt \in Times /\ acted' \in Times
    BY <2>1, BarFeedAssumption DEF NoSignal, Times
  <2> QED  BY <1>1, <2>6, <2>7, <2>8 DEF LiveInv
<1>6. CASE EntryEnds
  <2>1. /\ buffer' = buffer /\ market' = market /\ signal' = signal /\ acted' = acted
        /\ st' = Scanning
    BY <1>6 DEF EntryEnds, feedVars
  <2>2. PICK c : c = buffer
    OBVIOUS
  <2>3. StateOK(Scanning, c) /\ TimesOK(Scanning, c)
    <3>1. c \in Seq(Candle)
      BY <1>1, <2>2, StretchTimes
    <3> QED  BY <3>1, ScanningOK
  <2>4. StateOK(st, buffer)' /\ TimesOK(st, buffer)'
    BY <2>1, <2>2, <2>3 DEF StateOK, TimesOK
  <2>5. RetestTimesOut'
    BY <2>1 DEF RetestTimesOut, Scanning
  <2>6. SignalOK => SignalOK'
    BY <2>1 DEF SignalOK
  <2> QED  BY <1>1, <2>1, <2>4, <2>5, <2>6 DEF LiveInv
<1>7. CASE UNCHANGED vars
  BY <1>1, <1>7 DEF vars, feedVars, LiveInv, StateOK, TimesOK, RetestTimesOut, SignalOK
<1>8. Poll => LiveInv'
  BY <1>2, <1>3 DEF Poll
<1> QED  BY <1>4, <1>5, <1>6, <1>7, <1>8 DEF Next

(* The inductive invariant: the feed, a setup that is about bars the buffer *)
(* has and that is not too old, a signal whose stop is where it belongs.    *)
THEOREM LiveCorrect == Spec => []LiveInv
<1>1. LiveInv /\ [Next]_vars => LiveInv'
  BY LiveStep
<1> QED  BY LiveInit, <1>1, PTL DEF Spec

(* Types: setups hold indices into the buffer, and never one that is not   *)
(* in it, whatever is cut from its front (BreakoutSetup, _merge_new_candles), *)
(* and no entry is sent with the flag of cold_start still up.              *)
THEOREM RetestTypeCorrect == Spec => []TypeOK
<1>1. LiveInv => TypeOK
  <2> SUFFICES ASSUME LiveInv PROVE TypeOK
    OBVIOUS
  <2>1. /\ FeedTypes /\ StretchOK(buffer) /\ StretchOK(cache) /\ StateOK(st, buffer)
        /\ signal.at \in Times /\ signal.brkAt \in Times /\ acted \in Times
    BY DEF LiveInv, FeedInv
  <2>2. /\ market \in Seq(Bars) /\ Len(market) <= MaxBars
        /\ buffer \in Seq(Candle) /\ Len(buffer) <= MaxLen /\ Len(buffer) \in Nat
        /\ cache \in Seq(Candle) /\ Len(cache) <= MaxLen
    BY <2>1, StretchTimes, BarFeedAssumption DEF FeedTypes
  <2>3. /\ st.phase \in {"SCAN", "DISPLACEMENT", "RETEST", "ENTRY"}
        /\ st.live \in BOOLEAN /\ (st.live => st.phase # "ENTRY")
        /\ st.setup.start \in 0 .. Len(buffer)
    BY <2>1 DEF StateOK, State
  <2>4. st.setup.brk \in 0 .. Len(buffer)
    <3>1. CASE st.phase = "SCAN"
      BY <2>1, <2>2, <3>1 DEF StateOK, NoSetup
    <3>2. CASE st.phase # "SCAN"
      BY <2>1, <2>2, <3>2 DEF StateOK
    <3> QED  BY <3>1, <3>2
  <2> QED  BY <2>1, <2>2, <2>3, <2>4 DEF TypeOK
<1> QED  BY LiveCorrect, <1>1, PTL

(* A setup waits no longer for its retest than retest_timeout_bars, counted *)
(* in bars of the market, through gaps, polls that bring several bars and   *)
(* reconnects; as long as nothing is cut from the front of the buffer,      *)
(* whose places setups are counted by.                                      *)
THEOREM SetupsTimeOut == MaxLen > MaxBars => (Spec => []RetestTimesOut)
<1> SUFFICES ASSUME MaxLen > MaxBars PROVE Spec => []RetestTimesOut
  OBVIOUS
<1>1. LiveInv => RetestTimesOut
  BY DEF LiveInv
<1> QED  BY LiveCorrect, <1>1, PTL

(* The stop of a signal is behind every bar of the market from the breakout *)
(* to the bar it was given on (_local_structure_sl), where nothing was cut  *)
(* and the history does not bring the bar that is forming.                  *)
THEOREM StopsAreBehind ==
    MaxLen > MaxBars /\ ~MayServeForming => (Spec => []StopIsBehind)
<1> SUFFICES ASSUME MaxLen > MaxBars, ~MayServeForming PROVE Spec => []StopIsBehind
  OBVIOUS
<1>1. LiveInv => StopIsBehind
  BY DEF LiveInv, SignalOK, StopIsBehind
<1> QED  BY LiveCorrect, <1>1, PTL
=============================================================================
